# TLA+ models of Bedem WAF

Bedem WAF is a web application firewall in three Go services. The **gateway**
(data plane) is a reverse proxy that looks up a policy by hostname, decides each
request and writes an audit event. The **control API** (control plane) keeps apps,
policies and published versions in PostgreSQL and hands compiled policies to
gateways. The **worker** records rule sets found on disk. This directory holds
TLA+ specifications of the parts that carry the logic, TLC configurations for
small instances, and TLAPS proofs of every safety property the passing runs check.

`PROJECT.json` lists for every definition the lines of Go, Lua or SQL it stands
for, for every property a fault of the code that breaks it, and the hazards the
properties are aimed at.

## 1. Inventory

| component | state | operations | what is hard | what makes it correct |
|---|---|---|---|---|
| policy cache (`policyclient`) | cache entry and mutex per host | `Lookup`, `FetchPolicy` | many goroutines find one entry expired; the cache is read outside the mutex; the expiry is computed from a clock read before a fetch of up to 3 s | one fetch per host at a time; "fresh" means less than TTL old; no lookup goes back; every lookup returns |
| rate limiter (`ratelimit`, Redis) | one counter per rule, key and window, with an expiry | `Check`, `evaluateRateLimits`, the Lua script | gateways with different clocks share counters; a command can be executed after its sender gave up; Redis restarts empty | a window grants exactly `limit` requests; a blocking rule is not bypassed; evaluation ends |
| audit (`audit`, `main`) | bounded channel, one worker, sinks, the shutdown sequence | `Log`, `run`, `write`, `Shutdown` | a full queue, a sink that fails or hangs, `close` while handlers run, `os.Exit` | nothing lost silently, duplicated or reordered; no send on the closed channel; no handler waits for a sink |
| request pipeline (`proxy`, `policy`, `decision`) | the decision under way, the recorded status, the event | `ServeHTTP`, `EvaluateIP`, `EvaluateCustomRules` | seven checks with early returns, panics, deferred functions in reverse order | the verdict does not depend on which check fails how; what is denied is not proxied; one truthful event per request |
| policy documents (`httpapi`, `policy`) | the stages of a document | `validatePolicySnapshot`, `compileGatewayPolicy`, `toApp`, `parseCondition`, `Match` | two validators in two services must agree; `Match` looks at one operator | a loaded condition means what it says; what is published loads |
| control repository (`db`, `httpapi`) | rows of five tables, row locks | create, patch, publish, the gateway's query | READ COMMITTED interleavings; `now()` is the time of BEGIN; validation before the transaction | no lost update; a publication works on the draft it locked; the two pointers to the active version agree |
| control API server (`httpapi`, `auth`) | none; the tables | the routes, both keys, the tenant context, decoding, recovery | three classes of routes on one mux; a blank filter is no filter; errors after a commit | a tenant's route shows and changes that tenant only; a key opens its own routes; a 4xx changed nothing |
| event search, simulation (`events`) | `waf_events` | `BuildSearchQuery`, `GetByRequestID`, `BuildSimulationSummary` | events arrive in any order while they are searched; limits of rows and bytes; ties | what is missing is older, or the limit is full; a summary counts every event once, under its rule |
| managed rule scanner (`worker`) | rule set and version rows, files on disk | `ScanLocalDirectory`, `checksumDirectory`, `RecordManagedRuleSet`, activation | kills between two statements or two sets; edits during the scan; several workers; a database that does not answer | a completed scan recorded everything; rows written together stay together; a scan ends |
| host handling (`policy`, `httpapi`) | none | `NormalizeHost`, `ValidHost`, `validateHostnames`, `validateDNSName` | two services normalise differently | an app is found under each hostname it was accepted with |
| configuration (`config`) | none | `LoadFile`, `applyDefaults`, `validate` | defaults fill in what the API would refuse | what the gateway starts with means what the file says |
| client addresses, metrics, redaction, dashboard | none that another part depends on | | | not modelled |

How they interact: a request goroutine calls the policy cache (which calls the
control API over HTTP), then the limiter (which calls Redis), the rule and WAF
checks, the origin, and at last, from a deferred function, `Dispatcher.Log`. All
goroutines share the cache, the limiter and the dispatcher. Control API handlers
share nothing but the database. Gateways write the events the control API
searches; the worker writes the rule sets it lists.

## 2. Modules

| module | models | extends / instantiates |
|---|---|---|
| `PolicyView` | abstract specification of the policy cache: a view per host that only moves forward | |
| `PolicyProvider` | `Provider.Lookup`, step by step | instantiates `PolicyView` |
| `RateLimiter` | `evaluateRateLimits`, `FixedWindowLimiter.Check`, `fixedWindowLua` on a shared Redis | |
| `AuditDispatcher` | `Dispatcher` and the shutdown sequence of `cmd/gateway/main.go` | |
| `HostNames` | hostnames as the two services normalise and check them | |
| `ControlPlane` | the repository's transactions and the handlers that call it | `HostNames` |
| `PolicyRollout` | the control plane and a gateway's cache together | `ControlPlane`; instantiates `PolicyProvider` |
| `RequestPipeline` | one request through `ServeHTTP` | |
| `PolicyLoading` | a document from the API or the YAML file to the gateway's conditions | |
| `RuleScan` | the worker's scan and the rows it records | |
| `EventSearch` | the event query and the simulation summary, as operators | |
| `ControlApi` | one request through the control API's middleware, checks and handlers | `EventSearch` |
| `MC*` | small instances for TLC | the module of the same name |
| `*Proofs` | the theorems of section 5, for `PolicyProvider`, `RateLimiter`, `AuditDispatcher`, `RequestPipeline`, `PolicyLoading`, `RuleScan`, `ControlApi`, and for `ControlPlane` and `PolicyRollout` in one module | the module of the same name, `TLAPS`; `PolicyRolloutProofs` also instantiates `PolicyProviderProofs` |

Definitions named `Bug...` are faults: each stands before the definition it would
replace, and `PROJECT.json` names the property that replacement breaks. No
specification uses them.

### PolicyProvider

A goroutine is in one of the phases `idle`, `check`, `lock`, `recheck`, `fetch`,
`answered`. `Begin` reads the clock, `Check` is the first `p.cached(host)`,
`Acquire` is `hostLock(host).Lock()` with the second clock read, `Recheck` the look
under the mutex. The control API reads its database in `ControlAnswer`, which may
happen long before the answer arrives (`FetchSuccess`) or the exchange fails
(`FetchFailure`: the 3 s timeout, cancellation, a status other than 200, a policy
`toApp` rejects). A policy is its position in the host's sequence of deployments;
a disabled policy or app, or a snapshot the gateway refuses, is a deployment that
is not `usable`. `served` and `floor` are history variables.

### RateLimiter

A request walks the rules that apply to it in priority order. `Send` puts an EVAL on
the wire, `Execute` runs the script atomically, whenever, `Lose` drops the command,
`StoreError` gives up before or after execution. Gateways differ in their fail mode and
in their clock (`FailMode`; `Skew`, at most `MaxSkew`); windows are computed on the gateway's clock, keys
expire on that of Redis. `AdmissionBound` therefore ends with the fastest gateway's
window: after it a slower one may find the counter expired and start another for the
window it is still in, and the property makes no claim.

### AuditDispatcher

Handlers log once; the worker takes an event and offers it to each sink; `main()`
receives a signal, waits for handlers, closes the queue and waits for the worker
under one 10 s context. Every `os.Exit(1)` is modelled. A sink that hangs is a
worker without fairness.

### ControlPlane

A session is a client with one request in progress. Repository methods are split at
BEGIN, at each read and at COMMIT. `clock` counts BEGINs, so `updated_at` and
`deployed_at` are times of BEGIN, as `now()` is. `revision` and `seen` are history.
The row lock is `lock`. `Abort` is any statement that fails, followed by the deferred
`Rollback`. Hostnames are texts of `HostNames`: they are stored as written and compared
by `lower()`.

### HostNames

A text is a name and the ways in which it is not the plain name: capitals, white space,
a port. `NormalizeHost` removes all three, and so does `validateHostnames` for its checks, but
the text is stored as given and the SQL query ignores capitals only.

### PolicyRollout

The steps of `ControlPlane` and of `PolicyProvider` interleave. The two are connected by the
answer to `GET /v1/gateway/apps/{hostname}/policy`: each change of that answer, whatever
statement caused it, is a deployment to the provider, usable if `toApp` accepts it. A lookup
returns a position in that sequence, and the properties are about the version behind it.

### RequestPipeline

What each check finds is a free choice, kept in `facts`; the specification follows
the code through its stages, early returns and deferred functions. The reference
verdict is computed from `facts` without an order of evaluation: `Denials` and `Counts` are
the sets of reasons to deny and to count, and `DenialOrder` and `CountOrder` say which of
several is reported. `sort.SliceStable` is `ByPriority`, which puts each rule at its rank; the
loop over the rules is a recursive function, so that it can be proved about. `proxied` means
that the request was handed to the reverse proxy. The Coraza engine is its four possible answers.

### PolicyLoading

A condition is a tree of operators; a request is the set of leaf tests it passes.
Four leaf operators stand for nine: one on the request line, one on headers, and the
two on IP sets. A document comes from the API (`Submit`, `Publish`) or from the YAML file
(`LoadFile`: defaults, then the check of the mode) and ends in `Load`. `Conditions` is the set of
conditions that occur, closed under children; `Height` says that each is a finite tree, as any
JSON or YAML document is. The validators and `Match`, which call themselves on the children, are
recursive functions on `Conditions`; `ApiNode` and `GatewayNode` are what they check at each node.

### RuleScan

A worker starts (`Start`), with a database URL waits for the answer to a ping, lists directories
(`Connected`), reads each `ruleset.json`, lists the files below it
(`listing`, a set) and hashes them one by one in the order of `Tree`, the sorted list of all
paths (`IsNext`), then records set after set: `UpsertSet` writes the set's row and holds it,
`Commit` writes the version's row. `Exit` is every error and every kill. A checksum is the
function from the files hashed to the contents read. Edits happen between any two steps.
`quiet`, `last` and `accepted` are history.

### EventSearch and ControlApi

`EventSearch` translates the query and the summary; `Answers` is the set of results ClickHouse
may give, since `ORDER BY timestamp DESC` leaves ties open. The loop of `BuildSimulationSummary` is a
recursive function (`ByRule`), whose turn is `AddEvent`; one operator, `Ranked`, serves its two
sorts, of the rules and of the paths under a rule. `ControlApi` takes one
request at a time through the middleware, the checks (`Accepted`), the handler and the
answer. `Fail` is any error of the database or the store, `Panic` a panic at any point; `PatchApp`
has the one handler that can fail after its commit. The interleaving of transactions is
left to `ControlPlane`; rows carry only how often they were written. `before` and `asked` are
history.

## 3. Runs

| run | instance | shows |
|---|---|---|
| `provider` | 2 goroutines, 1 host, 2 deployments, TTL 2, 4 clock values | `SingleFlight`, `BoundedStaleness`, `MonotoneReads`, `RefreshOnlyExpired`, the refinement `ViewSafety`, and that every lookup returns (`LookupReturns`) |
| `rate` | 2 requests on 2 gateways, a counting then a blocking rule, limit 1, window 2 s, 4 s of clock, 1 Redis restart | `AdmissionBound` and `NoEarlyRefusal` (a window grants exactly its limit), `BlockRulesChecked`, `EvaluationEnds` |
| `audit` | 4 handlers, channel of 2, 2 sinks | `NoSendOnClosed`, `Conservation` (order and completeness, per sink), `CleanStop`, `HandlersNeverBlock`, `ShutdownEnds` |
| `control` | 3 clients, 1 policy, 5 transactions | `NoLostDraft`, `PublishIsolated`, `TablesConsistent` (version numbers without gaps, both pointers to the active version), `PublishedValid` |
| `control_apps` | 2 clients, 1 app with hostnames in two spellings, 1 policy, 4 transactions | `OneLiveOrigin`, `HostsRouted`, `TransactionsEnd` |
| `control_origin` | 1 app | `OriginReplaced` fails (finding) |
| `pipeline` | every outcome of every check, all lists of two and some of three custom rules, status codes 0, 99, 100, 101, 199 | `VerdictMatches`, `DenialHolds`, `EventTruthful`, `AuditedOnce` |
| `pipeline_fail_open` | the same without rules | `FailOpenAllows` fails (finding) |
| `loading` | all conditions of depth two over two children, all document frames, documents with fields left out, from both sources | `EvaluationFaithful`, `RefusedOnlyUnchecked` |
| `rules` | 3 workers (one without a database), 2 directories, 4 layouts, 2 starts, 1 edit | `ScanComplete`, `RowsAgree`, `ScanEnds` |
| `api` | 2 tenants (one not yet there), every route, 4 rows or events written | `Isolation`, `AccessHeld`, `AnswerTruthful`, `SearchExact`, `SummaryExact` |
| `rollout` | 1 client, 1 policy, 3 transactions, 2 lookups, TTL 1, 3 changes of the answer | `ServedForward`, `RolloutBounded`, `ServedLoads` |

The type invariant of a module is a conjunct of one of its properties: `TypeOK` itself in
`provider`, else `AdmissionBound`, `Conservation`, `TablesConsistent`, `EventTruthful`,
`EvaluationFaithful`, `RowsAgree`, `AnswerTruthful` and `ServedLoads`.

**Why the bounds are enough.** The provider's hazards need one goroutine that holds
the mutex and one that waits, one deployment that replaces another, and a clock that
passes one expiry; the theorems of section 5 remove the bounds for safety. With
limit 1 two requests reach "at" and "over" the limit; four seconds contain the end
of a window on either clock and the expiry of a counter begun a second early. In `audit` the channel can
be full while one event is being written and one more handler logs. `control` has
three clients because an overtaking needs one that waits, one that holds the lock
and one whose token becomes old; five transactions are the creation and two patches
with two publications between them. A list of three rules is the shortest in which
stable order, a lower priority number later in the list and a terminal rule meet. The status codes
are absent, the last `WriteHeader` panics on, the first and the last informational one, and 101, which
is final although it lies between them.

In `rules` two starts are a run that is killed and its
repetition, or two workers that overlap; the layouts are two sets, two versions of one set,
one version twice, and a source the database refuses. In `api` the limits of the code (100,
1000, 10 MiB, 5, 5) are 1, 4, 3, 1 and 1, so that four events reach each of them; one request
at a time is enough because handlers share only the tables. In `rollout` one client makes
publications follow each other; their overlap is the subject of `control`. A lookup can
hold an answer while each of the three changes commits, and the clock passes the TTL.

**Deadlock** is checked except in `rate` (all requests are done), `audit` (the
process has ended), `rules` and `rollout` (the bounds on starts and transactions are used up).
`SYMMETRY` over clients is used in runs without liveness properties only.

**Fairness.** `PolicyProvider`: goroutines are scheduled (WF), the fetch ends because
`FetchPolicy` has a timeout, and the mutex is strongly fair because `sync.Mutex` hands
itself to a waiter in starvation mode; nothing is assumed of the control plane.
`RateLimiter`: a request's own steps are weakly fair, `StoreError` among them because the
connection has a deadline; nothing is assumed of Redis. `AuditDispatcher`: handlers, `main`
and the timer are weakly fair; nothing is assumed of the worker. `ControlPlane`: the steps
of a handler are weakly fair, and a row lock is granted to a transaction that waits again and again
(PostgreSQL queues waiters), hence SF. `RuleScan`: the steps of a worker that read the
disk, and the deadline, are weakly fair; nothing is assumed of the database.

## 4. Where the code and the documents disagree

Two runs exhibit a disagreement (`findings` in `PROJECT.json` quotes both sides):

* `control_origin`: a PATCH with `origin_url` always fails, because the soft-deleted
  row keeps the name `primary` under `UNIQUE (app_id, name)`.
* `pipeline_fail_open`: `fail_open` returns without proxying; the client gets an
  empty 200.

Others are visible in the specifications as exceptions a property names, or as
behaviour it allows:

* a count rule over its limit ends the loop, and block rules after it are not evaluated
  (`BlockRulesChecked`; `services/gateway/README.md:181`);
* a draft with repeated rule ids, a `status_code` of 1000, an unnamed IP set or a string
  where a number belongs is published and refused by every gateway
  (`RefusedOnlyUnchecked`, `ServedLoads`; `docs/policy-model.md:292`);
* of two overlapping publications of two policies of one app the one that began
  later is served, also when the other committed last (`NewestDeployed`; `docs/roadmap.md:179`);
* a hostname with a port or white space is accepted and never found (`HostsRouted`);
* a rescan rewrites the checksum of a recorded version (`Commit` of `RuleScan`;
  `docs/database-schema.md:108`);
* a failure of the event store is answered with 400 (`Fail`);
* a request refused for an unreadable body or a failed inspection is logged with
  `enforced` false, and after a panic the event says 200 where the client gets 500
  (`EventTruthful`; `docs/event-schema.md:56` and `:58`);
* a failed inspection refuses the request in count mode (`DenialHolds`;
  `docs/data-plane.md:119`);
* a rate limit without `status_code` answers 403 (`BlockStatus`; `docs/data-plane.md:102`), one
  below 100 makes `WriteHeader` panic (`Enforce`; `docs/safe-rollout.md:40`);
* a rule's `status_code` of 100 or 102 to 199 is informational to net/http: the recorder and the
  event keep it and the client gets 200 (`Informational`, `EventTruthful`; `docs/event-schema.md:58`);
* `validatePolicySnapshot` decodes an `ip_blocklist`, and `compileGatewayPolicy` does not pass it on:
  only the YAML file gives an app one (`Publish` of `PolicyLoading`);
* the stale warning is overwritten by the decision's reason (`Enforce`;
  `docs/roadmap.md:162`);
* two active apps may hold one hostname (`CreateApp`; `docs/policy-model.md:81`).

## 5. Proofs

Eight modules prove what the runs check on small instances, for every value of the
constants. Each states an inductive invariant, `IInv` unless the table names another (TLC can
check it on the instance of the run, for `RuleScan` with `0 .. Len(DirList)` instead of `Nat` in
`Recorded`, for `PolicyLoading` with a definition in the place of the constant `Drafts`, which TLC
would otherwise evaluate in every state), shows that the initial states satisfy it and that every action keeps it, one lemma
per action, and derives the properties from it. The theorems named after a property (`...Holds`)
are listed in `PROJECT.json`. The only assumptions are the named `ASSUME`s of the modules, which
TLC evaluates on every run.

| module | theorems | `IInv` is `TypeOK` and |
|---|---|---|
| `PolicyProviderProofs` | `TypeCorrect`, `SingleFlightHolds`, `BoundedStalenessHolds`, `MonotoneReadsHolds`, `RefreshOnlyExpiredHolds`, `Refinement` | `LockInv`, `CacheInv`, `FetchInv`, `ResultInv` |
| `RateLimiterProofs` | `AdmissionBoundHolds`, `NoEarlyRefusalHolds`, `BlockRulesCheckedHolds` | `WireInv`, `CounterInv`, `GrantInv`, `AnswerInv`, `LoopInv` |
| `AuditDispatcherProofs` | `NoSendOnClosedHolds`, `ConservationHolds`, `CleanStopHolds` | `ShutdownOrder`, `NoSendOnClosed`, `Logged`, `SinksBehind`, the equation of `Conservation` |
| `PolicyRolloutProofs`, on `ControlPlane` | `TablesConsistentHolds`, `NoLostDraftHolds`, `PublishIsolatedHolds`, `PublishedValidHolds`, `OneLiveOriginHolds`, `HostsRoutedHolds` | `LockInv`, `LocalInv`, `ClockInv`, `TokenInv`, `TableInv` and four of the properties |
| `PolicyRolloutProofs`, on `PolicyRollout` | `ControlRefinement`, `ServedForwardHolds`, `RolloutBoundedHolds`, `ServedLoadsHolds` | `RolloutInv`: the two invariants of the parts, `UsableInv`, `IdInv`, `ChangesInv` |
| `RequestPipelineProofs` | `VerdictMatchesHolds`, `DenialHoldsAlways`, `EventTruthfulHolds`, `AuditedOnceHolds` | `FactsOK`, `Bookkeeping`, `Unset`, `Deciding` |
| `PolicyLoadingProofs` | `EvaluationFaithfulHolds`, `RefusedOnlyUncheckedHolds` | `Inv`: `StageSays` |
| `RuleScanProofs` | `ScanCompleteHolds`, `RowsAgreeHolds` | `Places`, `Rows`, `Undisturbed` |
| `ControlApiProofs` | `IsolationHolds`, `AccessHeldHolds`, `AnswerTruthfulHolds`, `SearchExactHolds`, `SummaryExactHolds` | a finite event table, `InProgress`, `Isolation`, `AccessHeld`, `Truthful` |

**Policy cache.** `LockInv` ties the mutex to the phases. `CacheInv` says that an entry was
not superseded before `expiresAt - TTL`, and that nothing newer was served. `FetchInv` is the
part the code's correctness hangs on: a goroutine that fetches saw the entry expired under the
mutex, so nobody else can have replaced it since, and the answer under way was
current at or after the clock value its expiry will be counted from. Without it a stale answer
could be stored over a newer one, and neither `CacheInv` nor `ResultInv` is inductive.
`ResultInv` carries what was true when a lookup returned past later deployments. `Refinement`
shows that every step of `Lookup` is a step of `PolicyView` or a stutter.

**Rate limiter.** A counter counts grants until its key expires, and it expires no earlier
than the first gateway's end of the window (`CounterInv`); a command on the wire was sent
inside its window (`WireInv`), so the script never counts for a window that has not begun.
`GrantInv` is the other direction: a counter at the limit was granted its limit.
`RateLimiterAssumption` bounds the clocks' differences by `MaxSkew`.

**Audit.** What was accepted is, in order, what the worker is done with, what it is writing
and what is queued; each step moves a boundary in that concatenation. `SinksBehind` says the
same of each sink while the worker is between two of them. `ShutdownOrder` says that the queue is
closed only after the last handler, which is why nobody sends on it.

**Control repository.** The row lock (`LockInv`) makes what a session has read equal to the
row until it commits (`LocalInv`). `updated_at` is the time of BEGIN and may go back, so equality of
times proves nothing by itself: `ClockInv` says that the time of an open transaction is in no
row and with no client, and `TokenInv` that equal times therefore mean the same revision.
`RowAssumption` says that `None`, which stands for no row, is not a row.

**Control plane and gateway.** `IdInv`: an id names one version of one policy. The answer to the
gateway's query is 404 or the last version of a policy (`AnswerLatest`), although the newest
deployment by `deployed_at` need not be the one committed last. Versions are never removed,
so the recorded answers stay in order, policy by policy (`ChangesInv`). A step of the control
plane is a step of `PolicyProvider` with deployments for several hosts at once
(`Extended`), a step of the gateway is one of its `Next`, and the invariant of the provider
carries over through the substitution. `ControlRefinement`: the composition implements
`ControlPlane`, so the theorems about the repository hold of it. `RolloutAssumption` holds what
both parts assume.

**Request pipeline.** `Deciding` says, stage by stage, which reasons to deny and to count the
checks so far have ruled out. Two lemmas are about the algorithms: `ByPriority` rearranges the
list by priority and keeps the order of equal ones, and the loop over it returns the action of the
rule `FirstRule` names, which is defined on the list as it was written. The loop is a recursive
function; what it returns is proved by a least counterexample (`LeastNat`, from the
well-foundedness of `<`), because the library's induction theorem cannot be instantiated here.

**Policy documents.** `StageSays` says what each stage knows of the document; the work is in the
trees. Each of the four functions on conditions (`ApiCondition`, `GatewayCondition`, `Match`,
`Holds`) is monotone in the values at the children, so its equation has a solution, the least
fixed point (`FixedPoint`), and the function satisfies its equation at every condition
(`ApiConditionSays`, `MatchSays`, ...). What passes from all children to a condition holds of all
conditions (`ByHeight`, a lowest counterexample). With it, `ApiStricter`: what
`validatePolicyCondition` accepts, `parseCondition` does; and `MatchHolds`: where exactly one
operator is present at every node, looking at the first one is looking at all.
`LoadingAssumption` types the documents and says that children are lower than their parent.

**Rule scanner.** A worker that nobody disturbed has scanned a prefix of the directories
(`ScanPhase`), hashed a part of the files of the next (`HashPhase`) and recorded a prefix of what it
scanned (`RecordPhase`). That is not true of a disturbed worker, and `ScanComplete` makes no
claim for it.

**Control API.** The properties compare the tables before a request and after it, so they are
not inductive: `InProgress` says what may have changed while a request is served, which is
nothing except after the commit of `patchApp`. `SearchExact` is proved from one
step: the answer of the store is a longest sorted prefix of the matching events. `SummaryExact`
is about one answer too. When the matching events fit the limits that answer is all of them
(`SummaryFound`). The loop that counts them has an invariant: after n turns the accumulators tally
with the set of the first n events (`TallyTurn`, `LoopTallies`, a least counterexample over n).
`RankedSorts` says that `Ranked` puts every key once, in the order of the counts and then of the
keys, and `SummaryOfTally` puts the parts together. `LoopExists` shows that the loop's equation has
a solution.

**What stays with TLC.** Liveness under fairness, which this prover does not reach:
`LookupReturns`, `EvaluationEnds`, `HandlersNeverBlock`, `ShutdownEnds`, `TransactionsEnd` and
`ScanEnds`.

## 6. Not modelled

* Wall clocks that are set back (`Lookup` uses `UTC()`, without the monotonic reading),
  and two BEGINs in one microsecond: the properties are stated for clocks that
  advance.
* Durations: a timeout is a step that may happen at any time.
* The RESP encoding, SQL text, JSON syntax, HTTP headers, metrics and logging.
* The Coraza engine and the reverse proxy beyond their outcomes.
* `clientIP` and trusted proxies, forwarded headers, redaction: functions of header
  strings whose result the models take as given.
* Settings of servers, WAF, Redis and ClickHouse, and the environment of the control
  API: read once, the constants of the models. Slugs, names and JSON metadata are "accepted" or
  "refused".
* Lengths of event lines (`bufio.Scanner` refuses 64 KB) and ClickHouse's own behaviour beyond
  a set of rows.
* The dashboard, which keeps no state.

## 7. Plan

Done, in this order: the policy cache with its abstract specification and proofs,
the limiter, the audit pipeline, the control repository, the request pipeline, policy
documents; then the rule scanner, host handling, the composition of control plane and
gateway, the event search with its summary, the control API's server, and the YAML file.
The proofs followed: the cache and its refinement first, then one module after the other, the
composition of control plane and gateway, and last the two whose data are recursive: the
simulation summary and the trees of conditions. Left:

1. The order of the rows in a gateway's query when two policies of one app are published at once
   (`NewestDeployed`): today a behaviour the specification allows and no property is about.
