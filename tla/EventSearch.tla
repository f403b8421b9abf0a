----------------------------- MODULE EventSearch -----------------------------
(***************************************************************************)
(* services/control-api/internal/events: the query for audit events and    *)
(* the summary of what a policy would have blocked, as operators that      *)
(* ControlApi uses.                                                        *)
(*                                                                         *)
(* The table is a set of rows, told apart by a key that no query sees.     *)
(* Rule ids, addresses, paths and request ids are numbers, 0 for the empty *)
(* string; numbers are ordered as the strings are.  policy and rule stand  *)
(* for the six optional equality filters, which are all built by           *)
(* addStringFilter.                                                        *)
(***************************************************************************)
EXTENDS Integers, Sequences, SequencesExt, FiniteSets

CONSTANTS DefaultLimit, MaxLimit,  \* 100 and 1000 in the code
          BodyRows,                \* rows that fit in a body of 10 MiB
          SampleMax, TopMax,       \* samples and paths per rule, 5 and 5
          Unknown,                 \* the rule id "unknown"
          None

ASSUME EventSearchAssumption ==
  /\ DefaultLimit \in 1 .. MaxLimit /\ MaxLimit \in Nat
  /\ BodyRows \in Nat /\ SampleMax \in Nat /\ TopMax \in Nat /\ Unknown \in Nat \ {0}

Event ==
  [key : Nat, at : Nat, id : Nat, tenant : STRING, policy : Nat, rule : Nat, ip : Nat,
   path : Nat, name : Nat, would : BOOLEAN]

\* SearchFilters: "" and 0 filter nothing, None is the zero time.
Filters(tenant, policy, rule, from, to, limit) ==
  [tenant |-> tenant, policy |-> policy, rule |-> rule, from |-> from,
   to |-> to, limit |-> limit]

-----------------------------------------------------------------------------
\* BuildSearchQuery.

LimitOf(f) == IF f.limit = 0 THEN DefaultLimit ELSE f.limit

RangeOK(f) == f.from # None /\ f.to # None => f.from <= f.to

QueryAccepted(f) == LimitOf(f) \in 1 .. MaxLimit /\ RangeOK(f)

\* addStringFilter("tenant_id", ...).
TenantClause(f, e) == f.tenant = "" \/ e.tenant = f.tenant

\* timestamp <= to.
UpperClause(f, e) == f.to # None => e.at <= f.to

\* The WHERE clause.
Where(f, e) ==
  /\ TenantClause(f, e)
  /\ f.policy # 0 => e.policy = f.policy
  /\ f.rule # 0 => e.rule = f.rule
  /\ f.from # None => e.at >= f.from
  /\ UpperClause(f, e)

Rows(table, f) == {e \in table : Where(f, e)}

\* ORDER BY timestamp DESC LIMIT: which of several rows of one time come
\* first, or at all, is up to ClickHouse.  Fault: ORDER BY ... ASC.
BugOldestFirst(a, b) == a.at <= b.at
InOrder(a, b) == a.at >= b.at

Answers(table, f) ==
  LET rows == Rows(table, f)
      n == IF Cardinality(rows) < LimitOf(f) THEN Cardinality(rows) ELSE LimitOf(f)
  IN {s \in UNION {SetToSeqs(pick) : pick \in {p \in SUBSET rows : Cardinality(p) = n}} :
        /\ \A i \in 1 .. n - 1 : InOrder(s[i], s[i + 1])
        /\ n > 0 => \A e \in rows \ ToSet(s) : InOrder(s[n], e)}

\* query and decodeEvents: io.LimitReader cuts a longer body.  A cut inside
\* a line is an error; at the end of one it goes unnoticed.
Delivered(s) == SubSeq(s, 1, IF Len(s) < BodyRows THEN Len(s) ELSE BodyRows)

\* GetByRequestID: the newest event of the tenant with this request id.
ById(table, tenant, id) ==
  LET rows == {e \in table : e.tenant = tenant /\ e.id = id}
  IN {e \in rows : \A d \in rows : InOrder(e, d)}

-----------------------------------------------------------------------------
\* BuildSimulationSummary.

\* Fault: the blank id is a rule of its own.
BugBlankRule(e) == e.rule
RuleId(e) == IF e.rule = 0 THEN Unknown ELSE e.rule

\* A map with one entry set.
Put(m, k, v) == [x \in DOMAIN m \cup {k} |-> IF x = k THEN v ELSE m[x]]

EmptyMap == [x \in {} |-> 0]

\* The name is that of the event that opens the accumulator.
NewAccumulator(e) ==
  [name |-> e.name, count |-> 0, ips |-> {}, paths |-> EmptyMap, samples |-> <<>>]

\* paths[path]++.
AddPath(paths, p) ==
  IF p = 0 THEN paths ELSE Put(paths, p, 1 + IF p \in DOMAIN paths THEN paths[p] ELSE 0)

\* Samples are appended up to the limit.
AddSample(samples, id) ==
  IF id # 0 /\ Len(samples) < SampleMax THEN Append(samples, id) ELSE samples

\* An event of the accumulator's rule.
Accumulate(acc, e) ==
  [acc EXCEPT !.count = @ + 1,
              !.ips = IF e.ip = 0 THEN @ ELSE @ \cup {e.ip},
              !.paths = AddPath(@, e.path),
              !.samples = AddSample(@, e.id)]

\* One turn of the loop; m: byRule, a map that grows.
AddEvent(m, e) ==
  IF ~e.would THEN m
  ELSE LET r == RuleId(e)
       IN Put(m, r, Accumulate(IF r \in DOMAIN m THEN m[r] ELSE NewAccumulator(e), e))

\* The loop over the events found: byRule after n of them.
ByRule(found) ==
  LET loop[n \in 0 .. Len(found)] ==
        IF n = 0 THEN EmptyMap ELSE AddEvent(loop[n - 1], found[n])
  IN loop[Len(found)]

\* The keys of a map from keys to counts, sorted: by count, then by key.
Ahead(counts, a, b) ==
  counts[a] > counts[b] \/ (counts[a] = counts[b] /\ a < b)

Place(counts, a) == Cardinality({b \in DOMAIN counts : ~Ahead(counts, a, b)})

Ranked(counts) ==
  [n \in 1 .. Cardinality(DOMAIN counts) |->
     CHOOSE a \in DOMAIN counts : Place(counts, a) = n]

\* topPaths.
TopPaths(paths) ==
  LET ranked == Ranked(paths)
  IN SubSeq(ranked, 1, IF Len(ranked) < TopMax THEN Len(ranked) ELSE TopMax)

\* The summaries, sorted.
Summary(found) ==
  LET m == ByRule(found)
      ranked == Ranked([r \in DOMAIN m |-> m[r].count])
  IN [i \in DOMAIN ranked |->
        LET acc == m[ranked[i]]
        IN [rule |-> ranked[i], name |-> acc.name, count |-> acc.count, ips |-> Cardinality(acc.ips),
            paths |-> TopPaths(acc.paths), samples |-> acc.samples]]
=============================================================================
