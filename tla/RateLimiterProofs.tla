-------------------------- MODULE RateLimiterProofs --------------------------
(***************************************************************************)
(* Proofs about RateLimiter: no more grants than the limit before the      *)
(* first gateway leaves a window, no refusal below the limit, and no       *)
(* blocking rule skipped.                                                  *)
(***************************************************************************)
EXTENDS RateLimiter, TLAPS

USE RateLimiterAssumption

\* parseRateLimitRules lets through only well-formed rules.
LEMMA RuleTyping ==
  ASSUME NEW i \in RuleIds
  PROVE  /\ i \in Nat /\ i > 0
         /\ Rules[i].action \in {"count", "block"}
         /\ Rules[i].limit \in Nat /\ Rules[i].limit > 0
         /\ Rules[i].window \in Nat /\ Rules[i].window > 0
<1> DEFINE Rule == [action : {"count", "block"}, limit : Nat \ {0}, window : Nat \ {0}]
<1>1. Rules \in Seq(Rule)
  OBVIOUS
<1>2. Rules[i] \in Rule
  <2> HIDE DEF Rule
  <2> QED BY <1>1 DEF RuleIds
<1>3. i \in Nat /\ i > 0
  BY DEF RuleIds
<1> QED
  BY <1>2, <1>3

\* Integer division rounds down.
LEMMA Quotient ==
  ASSUME NEW x \in Nat, NEW d \in Nat, d > 0
  PROVE  /\ x \div d \in Nat
         /\ (x \div d) * d <= x
         /\ x \div d <= x
<1>1. x \div d \in Int
  BY Z3
<1>2. (x \div d) * d <= x
  BY Z3
<1>3. x \div d >= 0
  BY Z3
<1>4. x \div d <= (x \div d) * d
  BY <1>1, <1>3, Z3
<1> QED
  BY <1>1, <1>2, <1>3, <1>4

-----------------------------------------------------------------------------
(***************************************************************************)
(* The inductive invariant.                                                *)
(***************************************************************************)

\* A command under way was sent when its gateway was in its window, for the
\* rule its request is at or for an earlier one; it is the one its request
\* waits for only if it is for that rule, and then the window is the same.
WireInv ==
  \A m \in wire :
    /\ m.window * Rules[m.rule].window <= clock + MaxSkew
    /\ m.key = who[m.req].key
    /\ m.rule <= at[m.req]
    /\ phase[m.req] = "waiting" /\ at[m.req] = m.rule => window[m.req] = m.window

\* A counter outlives the window on every gateway; until the first one has
\* left it, the counter has counted every grant.
CounterInv ==
  \A c \in Cells :
    /\ counters[c].count > 0 => counters[c].expiresAt >= FirstEnd(c)
    /\ restarts = 0 /\ clock < FirstEnd(c) =>
         granted[c] <= counters[c].count /\ granted[c] <= Rules[c[1]].limit

\* A count within the limit was granted once for each of its units.
GrantInv ==
  \A c \in Cells :
    counters[c].count <= granted[c] \/ Rules[c[1]].limit <= granted[c]

\* A request that waits is at one of its rules, and a count over the limit
\* came from a cell that is used up.
AnswerInv ==
  \A r \in Requests :
    /\ phase[r] \in {"waiting", "answered"} => at[r] \in who[r].applies
    /\ phase[r] = "answered" /\ answer[r] > Rules[at[r]].limit =>
         granted[<<at[r], who[r].key, window[r]>>] >= Rules[at[r]].limit

\* evaluateRateLimits' loop: the rules behind the request have passed.
Behind(r) == \A i \in who[r].applies : i < at[r] => i \in passed[r]

\* Where the loop is and what it has returned, for a request that was not let
\* through by fail_open.
LoopInv ==
  \A r \in Requests :
    /\ (outcome[r] = "none") <=> (phase[r] # "done")
    /\ FailMode[r] = "closed" \/ r \notin failed =>
         /\ phase[r] = "next" => \A i \in who[r].applies : i <= at[r] => i \in passed[r]
         /\ phase[r] \in {"waiting", "answered"} => Behind(r)
         /\ outcome[r] = "allow" => who[r].applies \subseteq passed[r]
         /\ outcome[r] = "count" =>
              Behind(r) /\ at[r] \in RuleIds /\ Rules[at[r]].action = "count"

\* The inductive invariant.
IInv == TypeOK /\ WireInv /\ CounterInv /\ GrantInv /\ AnswerInv /\ LoopInv

-----------------------------------------------------------------------------
\* The fields of a command and of a cell.
LEMMA CommandFields ==
  ASSUME NEW m \in Command
  PROVE  /\ m.req \in Requests /\ m.rule \in RuleIds
         /\ m.key \in Keys /\ m.window \in Windows
         /\ Cell(m) \in Cells /\ Cell(m)[1] = m.rule /\ Cell(m)[3] = m.window
BY DEF Command, Cell, Cells

\* The end of a window, as a window's start and its length.
LEMMA Distribute ==
  ASSUME NEW k \in Nat, NEW w \in Nat
  PROVE  /\ (k + 1) * w - MaxSkew \in Int
         /\ (k + 1) * w - MaxSkew = k * w + w - MaxSkew
BY Z3

\* Every cell has a rule and a first end.
LEMMA CellFields ==
  ASSUME NEW c \in Cells
  PROVE  /\ c[1] \in RuleIds
         /\ c[3] \in Nat
         /\ Rules[c[1]].limit \in Nat /\ Rules[c[1]].limit > 0
         /\ Rules[c[1]].window \in Nat /\ Rules[c[1]].window > 0
         /\ FirstEnd(c) \in Int
         /\ FirstEnd(c) = c[3] * Rules[c[1]].window + Rules[c[1]].window - MaxSkew
<1>1. c[1] \in RuleIds /\ c[3] \in Nat
  BY DEF Cells, Windows
<1>2. Rules[c[1]].limit \in Nat /\ Rules[c[1]].limit > 0
      /\ Rules[c[1]].window \in Nat /\ Rules[c[1]].window > 0
  BY <1>1, RuleTyping
<1> QED
  BY <1>1, <1>2, Distribute DEF FirstEnd

\* Before the first request.
LEMMA InitHolds == Init => IInv
<1> SUFFICES ASSUME Init PROVE IInv
  OBVIOUS
<1>1. TypeOK
  <2>1. 0 \in Windows
    BY DEF Windows
  <2> QED
    BY <2>1 DEF Init, TypeOK, NoCounter, Outcomes
<1>2. WireInv
  BY DEF Init, WireInv
<1>3. CounterInv
  BY CellFields DEF Init, CounterInv, NoCounter
<1>4. GrantInv
  BY CellFields DEF Init, GrantInv, NoCounter
<1>5. AnswerInv
  BY DEF Init, AnswerInv
<1>6. LoopInv
  <2> SUFFICES ASSUME NEW r \in Requests, NEW i \in who[r].applies
               PROVE  ~(i <= 0)
    BY DEF Init, LoopInv
  <2>1. who[r].applies \subseteq RuleIds
    BY DEF Init, Client
  <2> QED
    BY <2>1, RuleTyping
<1> QED
  BY <1>1, <1>2, <1>3, <1>4, <1>5, <1>6 DEF IInv

-----------------------------------------------------------------------------
(***************************************************************************)
(* The steps of a request.  They leave Redis and its clock alone.          *)
(***************************************************************************)

\* What a step of request r cannot disturb.
OthersKeep(r) ==
  \A q \in Requests \ {r} :
    /\ phase'[q] = phase[q] /\ at'[q] = at[q] /\ window'[q] = window[q]
    /\ answer'[q] = answer[q] /\ outcome'[q] = outcome[q]
    /\ passed'[q] = passed[q] /\ (q \in failed' <=> q \in failed)

\* The invariants of Redis are about Redis alone.
LEMMA RedisKept ==
  ASSUME IInv, UNCHANGED <<clock, counters, granted, restarts>>
  PROVE  CounterInv' /\ GrantInv'
BY DEF IInv, CounterInv, GrantInv, FirstEnd

\* A request's rules are numbers.
LEMMA AppliesTyping ==
  ASSUME TypeOK, NEW r \in Requests
  PROVE  /\ who[r].key \in Keys
         /\ who[r].applies \subseteq RuleIds
         /\ at[r] \in Nat
         /\ \A i \in who[r].applies : i \in Nat /\ i > 0
BY RuleTyping DEF TypeOK, Client

\* evaluateRateLimits returns.
LEMMA FinishKeeps ==
  ASSUME IInv, NEW r \in Requests, Finish(r)
  PROVE  IInv'
<1>1. phase[r] = "next" /\ Pending(r) = {}
      /\ UNCHANGED <<clock, counters, wire, at, who, window, answer, failed,
                     passed, granted, restarts>>
  BY DEF Finish
<1>2. phase' = [phase EXCEPT ![r] = "done"] /\ outcome' = [outcome EXCEPT ![r] = "allow"]
  BY DEF Finish, Return
<1>3. phase'[r] = "done" /\ outcome'[r] = "allow" /\ OthersKeep(r)
  BY <1>1, <1>2 DEF IInv, TypeOK, OthersKeep
<1>4. TypeOK'
  BY <1>1, <1>2 DEF IInv, TypeOK, Outcomes
<1>5. WireInv'
  BY <1>1, <1>3, CommandFields DEF IInv, WireInv, OthersKeep, TypeOK
<1>6. CounterInv' /\ GrantInv'
  BY <1>1, RedisKept
<1>7. AnswerInv'
  BY <1>1, <1>3 DEF IInv, AnswerInv, OthersKeep
<1>8. LoopInv'
  <2>1. \A i \in who[r].applies : i <= at[r]
    BY <1>1, AppliesTyping DEF Pending, IInv
  <2> SUFFICES ASSUME NEW q \in Requests PROVE LoopInv!(q)'
    BY DEF LoopInv
  <2>2. CASE q = r
    BY <1>1, <1>3, <2>1, <2>2 DEF IInv, LoopInv, Behind
  <2>3. CASE q # r
    BY <1>1, <1>3, <2>3, ZenonT(40) DEF IInv, LoopInv, Behind, OthersKeep
  <2> QED
    BY <2>2, <2>3
<1> QED
  BY <1>4, <1>5, <1>6, <1>7, <1>8 DEF IInv

\* Check sends the EVAL of its next rule.
LEMMA SendKeeps ==
  ASSUME IInv, NEW r \in Requests, Send(r)
  PROVE  IInv'
<1> USE DEF IInv
<1>1. PICK i \in Pending(r) :
        /\ \A j \in Pending(r) : i <= j
        /\ wire' = wire \cup {[req |-> r, rule |-> i, key |-> who[r].key,
                               window |-> Window(r, i)]}
        /\ at' = [at EXCEPT ![r] = i]
        /\ window' = [window EXCEPT ![r] = Window(r, i)]
  BY DEF Send
<1>2. phase[r] = "next" /\ phase' = [phase EXCEPT ![r] = "waiting"]
      /\ UNCHANGED <<clock, counters, who, answer, outcome, failed, passed,
                     granted, restarts>>
  BY DEF Send
<1> DEFINE sent == [req |-> r, rule |-> i, key |-> who[r].key, window |-> Window(r, i)]
<1>3. i \in who[r].applies /\ i \in RuleIds /\ i \in Nat /\ at[r] \in Nat /\ at[r] < i
  BY AppliesTyping DEF Pending
<1>4. Window(r, i) \in Windows /\ Window(r, i) * Rules[i].window <= clock + MaxSkew
  <2>1. clock \in Nat /\ clock <= MaxClock /\ Skew[r] \in Nat /\ Skew[r] <= MaxSkew
    BY DEF TypeOK
  <2>2. Rules[i].window \in Nat /\ Rules[i].window > 0
    BY <1>3, RuleTyping
  <2>3. (clock + Skew[r]) \in Nat
    BY <2>1
  <2> DEFINE x == clock + Skew[r]
             q == x \div Rules[i].window
  <2>4. q \in Nat /\ q * Rules[i].window <= x /\ q <= x
    <3> HIDE DEF x
    <3>1. x \in Nat
      BY <2>3 DEF x
    <3> QED BY <3>1, <2>2, Quotient
  <2>5. q * Rules[i].window \in Int
    BY <2>2, <2>4
  <2>6. q = Window(r, i)
    BY DEF Window
  <2> QED
    <3> HIDE DEF q
    <3> DEFINE p == q * Rules[i].window
    <3>1. p \in Int /\ p <= x
      BY <2>4, <2>5
    <3>2. p <= clock + MaxSkew
      <4> HIDE DEF p
      <4> QED BY <3>1, <2>1
    <3>3. q \in Windows
      BY <2>1, <2>4 DEF Windows
    <3> QED BY <3>2, <3>3, <2>6
<1>5. /\ phase'[r] = "waiting" /\ at'[r] = i /\ window'[r] = Window(r, i)
      /\ OthersKeep(r)
  BY <1>1, <1>2 DEF TypeOK, OthersKeep
<1>6. sent \in Command
  BY <1>3, <1>4, AppliesTyping DEF Command
<1>7. TypeOK'
  <2>1. wire' \subseteq Command
    BY <1>1, <1>6 DEF TypeOK
  <2>2. at' \in [Requests -> Nat] /\ window' \in [Requests -> Windows]
    BY <1>1, <1>3, <1>4 DEF TypeOK
  <2>3. phase' \in [Requests -> {"next", "waiting", "answered", "done"}]
    BY <1>2 DEF TypeOK
  <2> QED
    BY <1>2, <2>1, <2>2, <2>3 DEF TypeOK
<1>8. WireInv'
  <2> SUFFICES ASSUME NEW m \in wire' PROVE WireInv!(m)'
    BY DEF WireInv
  <2>1. CASE m = sent
    BY <1>2, <1>3, <1>4, <1>5, <2>1
  <2>2. CASE m \in wire /\ m.req # r
    <3>1. m.req \in Requests \ {r}
      BY <2>2, CommandFields DEF TypeOK
    <3>2. phase'[m.req] = phase[m.req] /\ at'[m.req] = at[m.req]
          /\ window'[m.req] = window[m.req]
      BY <1>5, <3>1 DEF OthersKeep
    <3> QED
      BY <1>2, <2>2, <3>2 DEF WireInv
  <2>3. CASE m \in wire /\ m.req = r
    <3>1. m.rule \in Nat /\ m.rule <= at[r]
      BY <2>3, CommandFields, RuleTyping DEF WireInv, TypeOK
    <3>2. m.rule < i
      BY <1>3, <3>1
    <3> QED
      BY <1>2, <1>3, <1>5, <2>3, <3>1, <3>2 DEF WireInv
  <2> QED
    BY <1>1, <2>1, <2>2, <2>3
<1>9. CounterInv' /\ GrantInv'
  BY <1>2, RedisKept
<1>10. AnswerInv'
  BY <1>2, <1>3, <1>5 DEF AnswerInv, OthersKeep
<1>11. LoopInv'
  <2> SUFFICES ASSUME NEW q \in Requests PROVE LoopInv!(q)'
    BY DEF LoopInv
  <2>1. CASE q = r
    <3>1. \A j \in who[r].applies : j < i => j <= at[r]
      BY <1>1, <1>3, AppliesTyping DEF Pending
    <3> QED
      BY <1>2, <1>3, <1>5, <2>1, <3>1 DEF LoopInv, Behind
  <2>2. CASE q # r
    BY <1>2, <1>5, <2>2, SMTT(30) DEF LoopInv, Behind, OthersKeep
  <2> QED
    BY <2>1, <2>2
<1> QED
  BY <1>7, <1>8, <1>9, <1>10, <1>11

\* What a step that ends an exchange with Redis has to say about r alone.
LEMMA EndOfExchange ==
  ASSUME IInv, NEW r \in Requests, OthersKeep(r), TypeOK',
         UNCHANGED <<clock, counters, wire, at, who, granted, restarts>>,
         phase'[r] \in {"next", "done"},
         LoopInv!(r)'
  PROVE  IInv'
<1> USE DEF IInv
<1>1. WireInv'
  <2> SUFFICES ASSUME NEW m \in wire PROVE WireInv!(m)'
    BY DEF WireInv
  <2>1. m.req \in Requests
    BY CommandFields DEF TypeOK
  <2>2. CASE m.req = r
    BY <2>2 DEF WireInv
  <2>3. CASE m.req # r
    BY <2>1, <2>3 DEF WireInv, OthersKeep
  <2> QED
    BY <2>2, <2>3
<1>2. CounterInv' /\ GrantInv'
  BY RedisKept
<1>3. AnswerInv'
  BY DEF AnswerInv, OthersKeep
<1>4. LoopInv'
  <2> SUFFICES ASSUME NEW q \in Requests, q # r PROVE LoopInv!(q)'
    BY DEF LoopInv
  <2> QED
    BY ZenonT(40) DEF LoopInv, Behind, OthersKeep
<1> QED
  BY <1>1, <1>2, <1>3, <1>4

\* A request that waits is at a rule, and OverLimit is "count" only for
\* a rule whose action is.
LEMMA AtRule ==
  ASSUME IInv, NEW r \in Requests, phase[r] \in {"waiting", "answered"}
  PROVE  /\ at[r] \in RuleIds
         /\ at[r] \in who[r].applies
         /\ OverLimit(at[r]) \in {"count", "rate_limit"}
         /\ OverLimit(at[r]) = "count" => Rules[at[r]].action = "count"
<1>1. at[r] \in who[r].applies
  BY DEF IInv, AnswerInv
<1>2. at[r] \in RuleIds
  BY <1>1, AppliesTyping DEF IInv
<1> QED
  BY <1>1, <1>2, RuleTyping DEF OverLimit

\* Check gets an answer and goes on or returns.
LEMMA AnsweredKeeps ==
  ASSUME IInv, NEW r \in Requests, Answered(r)
  PROVE  IInv'
<1> USE DEF IInv
<1>1. /\ phase[r] = "answered"
      /\ answer' = [answer EXCEPT ![r] = 0]
      /\ window' = [window EXCEPT ![r] = 0]
      /\ UNCHANGED <<clock, counters, wire, at, who, failed, granted, restarts>>
  BY DEF Answered
<1>2. 0 \in Windows
  BY DEF Windows
<1>3. at[r] \in RuleIds
  BY <1>1, AtRule
<1>4. CASE Within(at[r], answer[r])
  <2>1. /\ passed' = [passed EXCEPT ![r] = @ \cup {at[r]}]
        /\ phase' = [phase EXCEPT ![r] = "next"]
        /\ UNCHANGED outcome
    BY <1>4 DEF Answered
  <2>2. TypeOK'
    BY <1>1, <1>2, <1>3, <2>1 DEF TypeOK
  <2>3. phase'[r] = "next" /\ passed'[r] = passed[r] \cup {at[r]} /\ OthersKeep(r)
    BY <1>1, <2>1 DEF TypeOK, OthersKeep
  <2>4. LoopInv!(r)'
    BY <1>1, <2>1, <2>3, AppliesTyping DEF LoopInv, Behind
  <2> QED
    BY <1>1, <2>2, <2>3, <2>4, EndOfExchange
<1>5. CASE ~Within(at[r], answer[r])
  <2>1. /\ phase' = [phase EXCEPT ![r] = "done"]
        /\ outcome' = [outcome EXCEPT ![r] = OverLimit(at[r])]
        /\ UNCHANGED passed
    BY <1>5 DEF Answered, Return
  <2>2. TypeOK'
    BY <1>1, <1>2, <2>1, AtRule DEF TypeOK, Outcomes
  <2>3. phase'[r] = "done" /\ outcome'[r] = OverLimit(at[r]) /\ OthersKeep(r)
    BY <1>1, <2>1 DEF TypeOK, OthersKeep
  <2>4. LoopInv!(r)'
    BY <1>1, <2>1, <2>3, AtRule DEF LoopInv, Behind
  <2> QED
    BY <1>1, <2>2, <2>3, <2>4, EndOfExchange
<1> QED
  BY <1>4, <1>5

\* Check gives up on Redis and applies the fail mode.
LEMMA StoreErrorKeeps ==
  ASSUME IInv, NEW r \in Requests, StoreError(r)
  PROVE  IInv'
<1> USE DEF IInv
<1>1. /\ phase[r] \in {"waiting", "answered"}
      /\ answer' = [answer EXCEPT ![r] = 0]
      /\ window' = [window EXCEPT ![r] = 0]
      /\ failed' = failed \cup {r}
      /\ UNCHANGED <<clock, counters, wire, at, who, passed, granted, restarts>>
  BY DEF StoreError, GaveUp
<1>2. 0 \in Windows
  BY DEF Windows
<1>3. CASE FailMode[r] = "open"
  <2>1. phase' = [phase EXCEPT ![r] = "next"] /\ UNCHANGED outcome
    BY <1>3 DEF StoreError
  <2>2. TypeOK'
    BY <1>1, <1>2, <2>1 DEF TypeOK
  <2>3. phase'[r] = "next" /\ r \in failed' /\ OthersKeep(r)
    BY <1>1, <2>1 DEF TypeOK, OthersKeep
  <2>4. LoopInv!(r)'
    BY <1>1, <1>3, <2>1, <2>3 DEF LoopInv
  <2> QED
    BY <1>1, <2>2, <2>3, <2>4, EndOfExchange
<1>4. CASE FailMode[r] = "closed"
  <2>1. /\ phase' = [phase EXCEPT ![r] = "done"]
        /\ outcome' = [outcome EXCEPT ![r] = OverLimit(at[r])]
    BY <1>4 DEF StoreError, Return
  <2>2. TypeOK'
    BY <1>1, <1>2, <2>1, AtRule DEF TypeOK, Outcomes
  <2>3. phase'[r] = "done" /\ outcome'[r] = OverLimit(at[r]) /\ OthersKeep(r)
    BY <1>1, <2>1 DEF TypeOK, OthersKeep
  <2>4. LoopInv!(r)'
    BY <1>1, <1>4, <2>1, <2>3, AtRule DEF LoopInv, Behind
  <2> QED
    BY <1>1, <2>2, <2>3, <2>4, EndOfExchange
<1> QED
  BY <1>3, <1>4

-----------------------------------------------------------------------------
(***************************************************************************)
(* The steps of Redis and of the network.                                  *)
(***************************************************************************)

\* A command is lost on the way.
LEMMA LoseKeeps ==
  ASSUME IInv, NEW m \in wire, Lose(m)
  PROVE  IInv'
<1>1. /\ wire' = wire \ {m}
      /\ UNCHANGED <<clock, counters, phase, at, who, window, answer, outcome,
                     failed, passed, granted, restarts>>
  BY DEF Lose
<1>2. TypeOK'
  BY <1>1 DEF IInv, TypeOK
<1>3. WireInv'
  BY <1>1 DEF IInv, WireInv
<1>4. CounterInv' /\ GrantInv'
  BY <1>1, RedisKept
<1>5. AnswerInv' /\ LoopInv'
  BY <1>1 DEF IInv, AnswerInv, LoopInv, Behind
<1> QED
  BY <1>2, <1>3, <1>4, <1>5 DEF IInv

\* Redis restarts without its keys.
LEMMA RestartKeeps ==
  ASSUME IInv, Restart
  PROVE  IInv'
<1>1. /\ restarts \in Nat /\ restarts < MaxRestarts /\ restarts' = restarts + 1
      /\ counters' = [c \in Cells |-> NoCounter]
      /\ UNCHANGED <<clock, wire, phase, at, who, window, answer, outcome, failed,
                     passed, granted>>
  BY DEF Restart, IInv, TypeOK
<1>2. TypeOK'
  BY <1>1 DEF IInv, TypeOK, NoCounter
<1>3. WireInv'
  BY <1>1 DEF IInv, WireInv
<1>4. CounterInv'
  BY <1>1 DEF CounterInv, NoCounter
<1>5. GrantInv'
  BY <1>1 DEF GrantInv, NoCounter, IInv, TypeOK
<1>6. AnswerInv' /\ LoopInv'
  BY <1>1 DEF IInv, AnswerInv, LoopInv, Behind
<1> QED
  BY <1>2, <1>3, <1>4, <1>5, <1>6 DEF IInv

\* A second passes: windows begin and counters expire.
LEMMA TickKeeps ==
  ASSUME IInv, Tick
  PROVE  IInv'
<1>1. /\ clock \in Nat /\ clock < MaxClock /\ clock' = clock + 1
      /\ UNCHANGED <<counters, wire, phase, at, who, window, answer, outcome,
                     failed, passed, granted, restarts>>
  BY DEF Tick, IInv, TypeOK
<1>2. TypeOK'
  BY <1>1 DEF IInv, TypeOK
<1>3. WireInv'
  <2> SUFFICES ASSUME NEW m \in wire
               PROVE  m.window * Rules[m.rule].window <= clock + 1 + MaxSkew
    BY <1>1 DEF IInv, WireInv
  <2>1. m.window \in Nat /\ Rules[m.rule].window \in Nat
    BY CommandFields, RuleTyping DEF IInv, TypeOK, Windows
  <2>2. m.window * Rules[m.rule].window \in Int
    BY <2>1
  <2>3. m.window * Rules[m.rule].window <= clock + MaxSkew
    BY DEF IInv, WireInv
  <2> DEFINE p == m.window * Rules[m.rule].window
  <2>4. p \in Int /\ p <= clock + MaxSkew
    BY <2>2, <2>3
  <2> HIDE DEF p
  <2>5. p <= clock + 1 + MaxSkew
    BY <1>1, <2>4
  <2> QED
    BY <2>5 DEF p
<1>4. CounterInv'
  <2> SUFFICES ASSUME NEW c \in Cells PROVE CounterInv!(c)'
    BY DEF CounterInv
  <2>1. FirstEnd(c) \in Int /\ FirstEnd(c)' = FirstEnd(c)
    BY CellFields DEF FirstEnd
  <2> QED
    BY <1>1, <2>1 DEF IInv, CounterInv
<1>5. GrantInv'
  BY <1>1 DEF IInv, GrantInv
<1>6. AnswerInv' /\ LoopInv'
  BY <1>1 DEF IInv, AnswerInv, LoopInv, Behind
<1> QED
  BY <1>2, <1>3, <1>4, <1>5, <1>6 DEF IInv

\* The script on one cell: what INCR and EXPIRE make of its counter.
LEMMA Script ==
  ASSUME IInv, NEW m \in wire, NEW c, c = Cell(m)
  PROVE  /\ c \in Cells /\ c[1] = m.rule
         /\ Incremented(c) \in [count : Nat, expiresAt : Nat]
         /\ Incremented(c).expiresAt >= FirstEnd(c)
         /\ Incremented(c).count > 0
         /\ \/ Incremented(c).count = counters[c].count + 1
            \/ /\ Incremented(c).count = 1
               /\ counters[c].count > 0 => clock >= FirstEnd(c)
<1>1. /\ m \in Command /\ c \in Cells /\ c[1] = m.rule /\ c[3] = m.window
  BY CommandFields DEF IInv, TypeOK
<1>2. /\ clock \in Nat /\ counters[c] \in [count : Nat, expiresAt : Nat]
      /\ FirstEnd(c) \in Int /\ Rules[c[1]].window \in Nat
  BY <1>1, CellFields, SMTT(30) DEF IInv, TypeOK
<1>3. counters[c].count > 0 => counters[c].expiresAt >= FirstEnd(c)
  BY <1>1 DEF IInv, CounterInv
<1>4. clock + Rules[c[1]].window >= FirstEnd(c)
  <2> DEFINE p == c[3] * Rules[c[1]].window
             w == Rules[c[1]].window
  <2>1. c[3] \in Nat
    BY <1>1, CellFields
  <2>2. p \in Int /\ w \in Int
    BY <1>2, <2>1, SMTT(30)
  <2>3. p <= clock + MaxSkew
    BY <1>1 DEF IInv, WireInv
  <2>4. FirstEnd(c) = p + w - MaxSkew
    BY <1>1, CellFields
  <2>5. clock + w >= FirstEnd(c)
    <3> HIDE DEF p, w
    <3> QED BY <1>2, <2>2, <2>3, <2>4
  <2> QED
    BY <2>5
<1>5. CASE Live(c)
  <2>1. Incremented(c) = [count |-> counters[c].count + 1,
                          expiresAt |-> counters[c].expiresAt]
    BY <1>2, <1>5 DEF Incremented
  <2> QED
    BY <1>1, <1>2, <1>3, <1>5, <2>1, SMTT(30) DEF Live
<1>6. CASE ~Live(c)
  <2>1. Incremented(c) = [count |-> 1, expiresAt |-> clock + Rules[c[1]].window]
    BY <1>6 DEF Incremented
  <2>2. counters[c].count > 0 => clock >= FirstEnd(c)
    BY <1>2, <1>3, <1>6 DEF Live
  <2>3. Incremented(c).count = 1
        /\ Incremented(c).expiresAt = clock + Rules[c[1]].window
    BY <2>1
  <2>4. clock + Rules[c[1]].window \in Nat
    <3> DEFINE w == Rules[c[1]].window
    <3>1. w \in Nat
      BY <1>2
    <3> HIDE DEF w
    <3>2. clock + w \in Nat
      BY <1>2, <3>1
    <3> QED BY <3>2 DEF w
  <2>5. Incremented(c) \in [count : Nat, expiresAt : Nat]
    BY <2>1, <2>4
  <2> QED
    BY <1>1, <1>4, <2>2, <2>3, <2>5
<1> QED
  BY <1>5, <1>6

\* Redis runs the script, its sender waiting or not.
LEMMA ExecuteKeeps ==
  ASSUME IInv, NEW m \in wire, Execute(m)
  PROVE  IInv'
<1> DEFINE c == Cell(m)
           n == Incremented(c).count
           waited == phase[m.req] = "waiting" /\ at[m.req] = m.rule
           limit == Rules[c[1]].limit
<1>1. /\ wire' = wire \ {m}
      /\ counters' = [counters EXCEPT ![c] = Incremented(c)]
      /\ granted' = [granted EXCEPT ![c] = IF Within(m.rule, n) THEN @ + 1 ELSE @]
      /\ UNCHANGED <<clock, at, who, window, outcome, failed, passed, restarts>>
  BY DEF Execute
<1>2. \/ /\ waited
         /\ phase' = [phase EXCEPT ![m.req] = "answered"]
         /\ answer' = [answer EXCEPT ![m.req] = n]
      \/ ~waited /\ UNCHANGED <<phase, answer>>
  BY DEF Execute
<1>3. /\ c \in Cells /\ c[1] = m.rule
      /\ Incremented(c) \in [count : Nat, expiresAt : Nat]
      /\ Incremented(c).expiresAt >= FirstEnd(c)
      /\ n > 0
      /\ \/ n = counters[c].count + 1
         \/ n = 1 /\ (counters[c].count > 0 => clock >= FirstEnd(c))
  BY Script
<1>4. /\ m \in Command /\ m.req \in Requests /\ m.rule \in RuleIds
  BY CommandFields DEF IInv, TypeOK
<1>5. /\ n \in Nat /\ granted[c] \in Nat /\ counters[c].count \in Nat /\ clock \in Nat
      /\ limit \in Nat /\ limit > 0 /\ FirstEnd(c) \in Int
  BY <1>3, CellFields, SMTT(30) DEF IInv, TypeOK
<1>6. counters'[c] = Incremented(c)
      /\ granted'[c] = IF n <= limit THEN granted[c] + 1 ELSE granted[c]
  BY <1>1, <1>3 DEF IInv, TypeOK, Within
<1>7. \A d \in Cells \ {c} : counters'[d] = counters[d] /\ granted'[d] = granted[d]
  BY <1>1 DEF IInv, TypeOK
<1>8. \A d \in Cells : FirstEnd(d)' = FirstEnd(d)
  BY DEF FirstEnd
<1> HIDE DEF c, n, limit
<1>9. TypeOK'
  <2>1. counters' \in [Cells -> [count : Nat, expiresAt : Nat]]
    BY <1>1, <1>3 DEF IInv, TypeOK
  <2>2. granted' \in [Cells -> Nat]
    <3>1. granted'[c] \in Nat
      BY <1>5, <1>6
    <3> QED
      BY <1>1, <1>3, <1>7, <3>1 DEF IInv, TypeOK
  <2>3. phase' \in [Requests -> {"next", "waiting", "answered", "done"}]
    <3>1. phase \in [Requests -> {"next", "waiting", "answered", "done"}]
      BY DEF IInv, TypeOK
    <3> QED BY <1>2, <3>1, ZenonT(40)
  <2>4. answer' \in [Requests -> Nat]
    BY <1>2, <1>5 DEF IInv, TypeOK
  <2> QED
    BY <1>1, <2>1, <2>2, <2>3, <2>4 DEF IInv, TypeOK
<1>10. WireInv'
  <2> SUFFICES ASSUME NEW o \in wire PROVE WireInv!(o)'
    BY <1>1 DEF WireInv
  <2>1. phase'[o.req] = "waiting" => phase[o.req] = "waiting"
    BY <1>2, <1>4, CommandFields DEF IInv, TypeOK
  <2> QED
    BY <1>1, <2>1 DEF IInv, WireInv
<1>11. CounterInv'
  <2> SUFFICES ASSUME NEW d \in Cells PROVE CounterInv!(d)'
    BY DEF CounterInv
  <2>1. CASE d # c
    BY <1>1, <1>7, <1>8, <2>1 DEF IInv, CounterInv
  <2>2. CASE d = c
    <3>1. counters'[c].count = n /\ counters'[c].expiresAt >= FirstEnd(c)
      BY <1>3, <1>6 DEF n
    <3>2. restarts = 0 /\ clock < FirstEnd(c) =>
            granted[c] <= counters[c].count /\ granted[c] <= limit
      BY <1>3 DEF IInv, CounterInv, limit
    <3>3. restarts = 0 /\ clock < FirstEnd(c) => n = counters[c].count + 1
      BY <1>3, <1>5
    <3>4. restarts = 0 /\ clock < FirstEnd(c) =>
            granted'[c] <= n /\ granted'[c] <= limit
      BY <1>5, <1>6, <3>2, <3>3
    <3> QED
      BY <1>1, <1>8, <2>2, <3>1, <3>4 DEF limit
  <2> QED
    BY <2>1, <2>2
<1>12. GrantInv'
  <2> SUFFICES ASSUME NEW d \in Cells PROVE GrantInv!(d)'
    BY DEF GrantInv
  <2>1. CASE d # c
    BY <1>7, <2>1 DEF IInv, GrantInv
  <2>2. CASE d = c
    <3>1. counters[c].count <= granted[c] \/ limit <= granted[c]
      BY <1>3 DEF IInv, GrantInv, limit
    <3>2. n <= granted'[c] \/ limit <= granted'[c]
      BY <1>3, <1>5, <1>6, <3>1
    <3> QED
      BY <1>6, <2>2, <3>2 DEF n, limit
  <2> QED
    BY <2>1, <2>2
<1>13. AnswerInv'
  <2> SUFFICES ASSUME NEW r \in Requests PROVE AnswerInv!(r)'
    BY DEF AnswerInv
  <2>1. CASE waited /\ r = m.req
    <3>1. phase[r] = "waiting" /\ at[r] = m.rule /\ answer'[r] = n
      BY <1>2, <2>1 DEF IInv, TypeOK
    <3>2. <<at[r], who[r].key, window[r]>> = c
      BY <2>1 DEF IInv, WireInv, Cell, c
    <3>3. n <= granted'[c] \/ limit <= granted'[c]
      BY <1>3, <1>6, <1>12 DEF GrantInv, n, limit
    <3>4. n > limit => granted'[c] >= limit
      BY <1>5, <1>6, <3>3
    <3> QED
      BY <1>1, <1>3, <3>1, <3>2, <3>4 DEF IInv, AnswerInv, limit
  <2>2. CASE ~(waited /\ r = m.req)
    <3>1. phase'[r] = phase[r] /\ answer'[r] = answer[r]
      BY <1>2, <2>2 DEF IInv, TypeOK
    <3> DEFINE d == <<at[r], who[r].key, window[r]>>
    <3>2. ASSUME phase[r] = "answered"
          PROVE  d \in Cells /\ granted'[d] >= granted[d] /\ granted[d] \in Nat
                 /\ granted'[d] \in Nat /\ Rules[at[r]].limit \in Nat
      <4>1. at[r] \in RuleIds
        BY <3>2, AtRule
      <4>2. d \in Cells
        BY <4>1, AppliesTyping DEF Cells, IInv, TypeOK
      <4>3. granted[d] \in Nat /\ granted'[d] \in Nat
        BY <1>9, <4>2 DEF IInv, TypeOK
      <4>4. granted'[d] >= granted[d]
        <5> HIDE DEF d
        <5> QED BY <1>5, <1>6, <1>7, <4>2, <4>3
      <4> QED
        BY <4>1, <4>2, <4>3, <4>4, RuleTyping
    <3>3. phase[r] \in {"waiting", "answered"} => at[r] \in who[r].applies
      BY DEF IInv, AnswerInv
    <3>4. ASSUME phase[r] = "answered", answer[r] > Rules[at[r]].limit
          PROVE  granted'[d] >= Rules[at[r]].limit
      <4>1. granted[d] >= Rules[at[r]].limit
        BY <3>4 DEF IInv, AnswerInv
      <4> HIDE DEF d
      <4> QED
        BY <3>2, <3>4, <4>1, SMTT(30)
    <3> QED
      BY <1>1, <3>1, <3>3, <3>4
  <2> QED
    BY <2>1, <2>2
<1>14. LoopInv'
  <2> SUFFICES ASSUME NEW r \in Requests PROVE LoopInv!(r)'
    BY DEF LoopInv
  <2>1. \/ phase'[r] = phase[r]
        \/ phase[r] = "waiting" /\ phase'[r] = "answered"
    BY <1>2 DEF IInv, TypeOK
  <2> QED
    BY <1>1, <2>1 DEF IInv, LoopInv, Behind
<1> QED
  BY <1>9, <1>10, <1>11, <1>12, <1>13, <1>14 DEF IInv

-----------------------------------------------------------------------------
(***************************************************************************)
(* The theorems.                                                           *)
(***************************************************************************)

\* Type correctness and the loop, wire, counter and grant invariants hold
\* in every reachable state, for every number of requests, keys and rules,
\* every limit and window, and every skew of the gateways' clocks.
THEOREM Invariance == Spec => []IInv
<1>1. Init => IInv
  BY InitHolds
<1>2. IInv /\ [Next]_vars => IInv'
  <2> SUFFICES ASSUME IInv, [Next]_vars PROVE IInv'
    OBVIOUS
  <2>1. ASSUME NEW r \in Requests, Finish(r) PROVE IInv'
    BY <2>1, FinishKeeps
  <2>2. ASSUME NEW r \in Requests, Send(r) PROVE IInv'
    BY <2>2, SendKeeps
  <2>3. ASSUME NEW r \in Requests, Answered(r) PROVE IInv'
    BY <2>3, AnsweredKeeps
  <2>4. ASSUME NEW r \in Requests, StoreError(r) PROVE IInv'
    BY <2>4, StoreErrorKeeps
  <2>5. ASSUME NEW m \in wire, Execute(m) PROVE IInv'
    BY <2>5, ExecuteKeeps
  <2>6. ASSUME NEW m \in wire, Lose(m) PROVE IInv'
    BY <2>6, LoseKeeps
  <2>7. CASE Restart
    BY <2>7, RestartKeeps
  <2>8. CASE Tick
    BY <2>8, TickKeeps
  <2>9. CASE UNCHANGED vars
    BY <2>9 DEF vars, IInv, TypeOK, WireInv, CounterInv, GrantInv, AnswerInv,
                LoopInv, Behind, FirstEnd
  <2> QED
    BY <2>1, <2>2, <2>3, <2>4, <2>5, <2>6, <2>7, <2>8, <2>9 DEF Next
<1> QED
  BY <1>1, <1>2, PTL DEF Spec, Safety

\* fixedWindowLua with Check: until the first gateway has left a window, and
\* if Redis has not restarted, at most `limit' requests were granted in it,
\* whatever the interleaving, the skew and the lost or late replies.
THEOREM AdmissionBoundHolds == Spec => []AdmissionBound
<1>1. IInv => AdmissionBound
  BY DEF IInv, AdmissionBound, CounterInv
<1> QED
  BY <1>1, Invariance, PTL

\* Check: a count over the limit means that the cell of the request has
\* granted `limit' requests, across expiries and restarts of Redis.
THEOREM NoEarlyRefusalHolds == Spec => []NoEarlyRefusal
<1>1. IInv => NoEarlyRefusal
  <2> SUFFICES ASSUME IInv, NEW r \in Requests, phase[r] = "answered",
                      ~Within(at[r], answer[r])
               PROVE  granted[<<at[r], who[r].key, window[r]>>] >= Rules[at[r]].limit
    BY DEF NoEarlyRefusal
  <2>1. Rules[at[r]].limit \in Nat /\ answer[r] \in Nat
    BY AtRule, RuleTyping DEF IInv, TypeOK
  <2>2. answer[r] > Rules[at[r]].limit
    BY <2>1 DEF Within
  <2> QED
    BY <2>2 DEF IInv, AnswerInv
<1> QED
  BY <1>1, Invariance, PTL

\* evaluateRateLimits: a request that goes on to the origin passed every
\* blocking rule that applies to it, but for Redis errors under fail_mode
\* open and the rules after a counting rule that ended the loop.
THEOREM BlockRulesCheckedHolds == Spec => []BlockRulesChecked
<1>1. IInv => BlockRulesChecked
  <2> SUFFICES ASSUME IInv, NEW r \in Requests, NEW i \in who[r].applies,
                      outcome[r] \in {"allow", "count"},
                      FailMode[r] = "closed" \/ r \notin failed,
                      Rules[i].action = "block"
               PROVE  \/ i \in passed[r]
                      \/ /\ outcome[r] = "count" /\ Rules[at[r]].action = "count"
                         /\ at[r] < i
    BY DEF BlockRulesChecked
  <2>1. i \in Nat /\ at[r] \in Nat
    BY AppliesTyping DEF IInv
  <2>2. CASE outcome[r] = "allow"
    BY <2>2 DEF IInv, LoopInv
  <2>3. CASE outcome[r] = "count"
    <3>1. Behind(r) /\ Rules[at[r]].action = "count"
      BY <2>3 DEF IInv, LoopInv
    <3>2. i # at[r]
      BY <3>1
    <3> QED
      BY <2>1, <2>3, <3>1, <3>2, SMTT(30) DEF Behind
  <2> QED
    BY <2>2, <2>3
<1> QED
  BY <1>1, Invariance, PTL
=============================================================================
