--------------------------- MODULE PolicyProvider ---------------------------
(***************************************************************************)
(* The gateway's policy cache, services/gateway/internal/policyclient:     *)
(* Provider.Lookup called by concurrent request goroutines, each step a    *)
(* place where goroutines interleave.  The control plane is seen through   *)
(* GET /v1/gateway/apps/{hostname}/policy only.                            *)
(*                                                                         *)
(* A policy is its position in the host's sequence of deployments; its     *)
(* content never matters to the cache.  A deployment is "usable" when the  *)
(* API serves it (200) and toApp accepts it; a disabled policy or app, or  *)
(* a snapshot the gateway cannot parse, is a deployment that is not.       *)
(***************************************************************************)
EXTENDS Integers, Sequences

CONSTANTS Hosts,        \* normalized, non-empty hostnames
          Requests,     \* request goroutines
          TTL,          \* Provider.ttl, in clock ticks
          FailBehavior, \* Provider.failBehavior
          NoHost, NoLock,
          MaxClock,     \* bound: last clock tick
          MaxRevision   \* bound: deployments per host

FailBehaviors == {"fail_open", "fail_closed", "use_stale_then_fail_open"}

ASSUME ProviderAssumption ==
  /\ TTL \in Nat /\ TTL > 0     \* NewProvider replaces ttl <= 0 by 30s
  /\ FailBehavior \in FailBehaviors
  /\ NoHost \notin Hosts
  /\ NoLock \notin Requests
  /\ MaxClock \in Nat
  /\ MaxRevision \in Nat

VARIABLES
  clock,        \* p.now()
  deployments,  \* control plane: deployments[h], oldest first
  cache,        \* Provider.cache: [rev, expiresAt]; rev = 0 is no entry
  locks,        \* Provider.locks: the goroutine holding the host's mutex
  phase,        \* where each goroutine is in Lookup
  host,         \* the host being looked up, or last looked up
  now,          \* Lookup's local variable now
  reply,        \* FetchPolicy's answer: a revision, 0 for an error
  res,          \* the LookupResult returned last
  served,       \* history: newest revision any lookup of h returned
  floor         \* history: served[h] when the goroutine's lookup began

vars == <<clock, deployments, cache, locks, phase, host, now, reply, res,
          served, floor>>

Phases == {"idle", "check", "lock", "recheck", "fetch", "answered"}

\* Phases in which the goroutine holds its host's mutex.
Locked == {"recheck", "fetch", "answered"}

Kinds == {"none", "found", "stale", "fail_open", "fail_closed"}

Statuses == {"usable", "unusable"}

Deployment == [at : Nat, status : Statuses]
Entry      == [rev : Nat, expiresAt : Nat]
Result     == [kind : Kinds, rev : Nat, at : Nat]

NoEntry  == [rev |-> 0, expiresAt |-> 0]
NoResult == [kind |-> "none", rev |-> 0, at |-> 0]

TypeOK ==
  /\ clock \in Nat
  /\ deployments \in [Hosts -> Seq(Deployment)]
  /\ cache \in [Hosts -> Entry]
  /\ locks \in [Hosts -> Requests \cup {NoLock}]
  /\ phase \in [Requests -> Phases]
  /\ host \in [Requests -> Hosts \cup {NoHost}]
  /\ \A r \in Requests : phase[r] # "idle" => host[r] \in Hosts
  /\ now \in [Requests -> Nat]
  /\ reply \in [Requests -> Nat]
  /\ res \in [Requests -> Result]
  /\ served \in [Hosts -> Nat]
  /\ floor \in [Requests -> Nat]

Init ==
  /\ clock = 0
  /\ deployments = [h \in Hosts |-> <<>>]
  /\ cache = [h \in Hosts |-> NoEntry]
  /\ locks = [h \in Hosts |-> NoLock]
  /\ phase = [r \in Requests |-> "idle"]
  /\ host = [r \in Requests |-> NoHost]
  /\ now = [r \in Requests |-> 0]
  /\ reply = [r \in Requests |-> 0]
  /\ res = [r \in Requests |-> NoResult]
  /\ served = [h \in Hosts |-> 0]
  /\ floor = [r \in Requests |-> 0]

-----------------------------------------------------------------------------
\* The environment.

Tick ==
  /\ clock < MaxClock
  /\ clock' = clock + 1
  /\ UNCHANGED <<deployments, cache, locks, phase, host, now, reply, res,
                 served, floor>>

\* The control plane publishes, disables or re-enables h's policy.
Deploy(h, status) ==
  /\ Len(deployments[h]) < MaxRevision
  /\ deployments' = [deployments EXCEPT
                       ![h] = Append(@, [at |-> clock, status |-> status])]
  /\ UNCHANGED <<clock, cache, locks, phase, host, now, reply, res, served,
                 floor>>

\* What the API answers for h now: the newest deployment, or an error.
ActiveRevision(h) ==
  LET n == Len(deployments[h])
  IN  IF n > 0 THEN IF deployments[h][n].status = "usable" THEN n ELSE 0 ELSE 0

-----------------------------------------------------------------------------
\* Provider.Lookup.

\* entry, ok := p.cached(host)
HasEntry(h) == cache[h].rev # 0

\* ok && now.Before(entry.expiresAt)
Fresh(h, t) == HasEntry(h) /\ t < cache[h].expiresAt

\* return: r's lookup ends with this result and its locals are gone; the
\* deferred Unlock, where there is one, is a conjunct of the caller.
Return(r, kind, rev) ==
  /\ phase' = [phase EXCEPT ![r] = "idle"]
  /\ res' = [res EXCEPT ![r] = [kind |-> kind, rev |-> rev, at |-> now[r]]]
  /\ now' = [now EXCEPT ![r] = 0]
  /\ reply' = [reply EXCEPT ![r] = 0]
  /\ served' = [served EXCEPT ![host[r]] = IF rev > @ THEN rev ELSE @]

\* hostLock(host).Lock() can proceed.  Fault: hostLock does not keep the
\* mutex it creates in p.locks.
BugMutexNotShared(h) == TRUE
MutexFree(h) == locks[h] = NoLock

\* defer lock.Unlock().  Fault: it is forgotten.
BugNoUnlock(r) == UNCHANGED locks
Unlock(r) == locks' = [locks EXCEPT ![host[r]] = NoLock]

\* The cache is looked at again once the mutex is held.  Fault: it is not.
BugNoRecheck(r) == FALSE
RecheckHit(r) == Fresh(host[r], now[r])

\* The new entry lives ttl from the clock value read before the fetch.
\* Faults: from the end of the fetch; the sign of the duration is wrong.
BugExpiryAfterFetch(r) == clock + TTL
BugExpirySign(r) == now[r] - TTL
Expiry(r) == now[r] + TTL

\* p.store(host, ...).  Fault: the fetched policy is not kept.
BugNoStore(r) == UNCHANGED cache
Store(r) ==
  cache' = [cache EXCEPT
              ![host[r]] = [rev |-> reply[r], expiresAt |-> Expiry(r)]]

\* stale, ok := p.cached(host); ok && stale.app != nil.  Fault: the
\* fallback is skipped.
BugNoStaleFallback(h) == FALSE
StaleAvailable(h) == HasEntry(h)

\* A request arrives; Lookup reads the clock before it looks at the cache.
Begin(r, h) ==
  /\ phase[r] = "idle"
  /\ phase' = [phase EXCEPT ![r] = "check"]
  /\ host' = [host EXCEPT ![r] = h]
  /\ now' = [now EXCEPT ![r] = clock]
  /\ res' = [res EXCEPT ![r] = NoResult]
  /\ floor' = [floor EXCEPT ![r] = served[h]]
  /\ UNCHANGED <<clock, deployments, cache, locks, reply, served>>

\* First look at the cache, without the host's mutex.
Check(r) ==
  /\ phase[r] = "check"
  /\ \/ /\ Fresh(host[r], now[r])
        /\ Return(r, "found", cache[host[r]].rev)
     \/ /\ ~Fresh(host[r], now[r])
        /\ phase' = [phase EXCEPT ![r] = "lock"]
        /\ UNCHANGED <<res, served, now, reply>>
  /\ UNCHANGED <<clock, deployments, cache, locks, host, floor>>

\* hostLock(host).Lock(), then the clock is read again.
Acquire(r) ==
  /\ phase[r] = "lock"
  /\ MutexFree(host[r])
  /\ locks' = [locks EXCEPT ![host[r]] = r]
  /\ now' = [now EXCEPT ![r] = clock]
  /\ phase' = [phase EXCEPT ![r] = "recheck"]
  /\ UNCHANGED <<clock, deployments, cache, host, reply, res, served, floor>>

\* Second look, under the mutex: another goroutine may have refreshed it.
Recheck(r) ==
  /\ phase[r] = "recheck"
  /\ \/ /\ RecheckHit(r)
        /\ Return(r, "found", cache[host[r]].rev)
        /\ Unlock(r)
     \/ /\ ~RecheckHit(r)
        /\ phase' = [phase EXCEPT ![r] = "fetch"]
        /\ UNCHANGED <<res, served, locks, now, reply>>
  /\ UNCHANGED <<clock, deployments, cache, host, floor>>

\* The control API reads its database and answers; the answer is under way.
ControlAnswer(r) ==
  /\ phase[r] = "fetch"
  /\ reply' = [reply EXCEPT ![r] = ActiveRevision(host[r])]
  /\ phase' = [phase EXCEPT ![r] = "answered"]
  /\ UNCHANGED <<clock, deployments, cache, locks, host, now, res, served,
                 floor>>

\* FetchPolicy succeeded: store, with the expiry counted from the clock
\* value read BEFORE the fetch, and return.
FetchSuccess(r) ==
  /\ phase[r] = "answered"
  /\ reply[r] # 0
  /\ Store(r)
  /\ Return(r, "found", reply[r])
  /\ Unlock(r)
  /\ UNCHANGED <<clock, deployments, host, floor>>

\* FetchPolicy failed: the 3s timeout, the request's own cancellation, a
\* transport error, a status other than 200, or a policy toApp rejects.
\* The old entry is used however old it is; without one, fail_behavior.
FetchFailure(r) ==
  /\ phase[r] \in {"fetch", "answered"}
  /\ \/ /\ StaleAvailable(host[r])
        /\ Return(r, "stale", cache[host[r]].rev)
     \/ /\ ~StaleAvailable(host[r])
        /\ Return(r, IF FailBehavior = "fail_closed" THEN "fail_closed"
                     ELSE "fail_open", 0)
  /\ Unlock(r)
  /\ UNCHANGED <<clock, deployments, cache, host, floor>>

-----------------------------------------------------------------------------
Lookup(r) ==
  \/ Check(r)
  \/ Acquire(r)
  \/ Recheck(r)
  \/ ControlAnswer(r)
  \/ FetchSuccess(r)
  \/ FetchFailure(r)

Next ==
  \/ Tick
  \/ \E h \in Hosts, status \in Statuses : Deploy(h, status)
  \/ \E r \in Requests, h \in Hosts : Begin(r, h)
  \/ \E r \in Requests : Lookup(r)

\* Running goroutines are scheduled; FetchPolicy ends within its timeout,
\* whatever the control plane does; and sync.Mutex hands the lock to a
\* waiter that has been passed over (its starvation mode), hence SF.
Fairness ==
  \A r \in Requests :
    /\ WF_vars(Check(r))
    /\ SF_vars(Acquire(r))
    /\ WF_vars(Recheck(r))
    /\ WF_vars(FetchSuccess(r) \/ FetchFailure(r))

Safety == Init /\ [][Next]_vars

Spec == Safety /\ Fairness

-----------------------------------------------------------------------------
(***************************************************************************)
(* Properties                                                              *)
(***************************************************************************)

\* Lookup's per-host mutex admits one refresh at a time: the goroutine in
\* the refresh section of host h is the one recorded as holder, so two
\* fetches for one host are never in flight together.
SingleFlight ==
  \A r \in Requests : phase[r] \in Locked <=>
                        \E h \in Hosts : host[r] = h /\ locks[h] = r

\* Non-stale answers are at most TTL old: a policy returned as "found" was
\* still the newest deployment at some instant less than TTL before the
\* clock value Lookup decided on, however long the fetch that brought it
\* took, and however late the answer arrived.
BoundedStaleness ==
  \A r \in Requests : res[r].kind = "found" =>
    LET d == deployments[host[r]]
    IN  res[r].rev < Len(d) => res[r].at < d[res[r].rev + 1].at + TTL

\* A lookup never goes back in time: it returns a deployment at least as
\* new as every deployment returned for that host by lookups that had
\* ended when it began -- including stale answers, and including "no
\* policy" (revision 0), so a host once served is served ever after.
MonotoneReads ==
  \A r \in Requests : res[r].kind # "none" => res[r].rev >= floor[r]

\* Waiters do not repeat the refresh they waited for: the cache entry of a
\* host is replaced only once it has expired.
RefreshOnlyExpired ==
  [][\A h \in Hosts : cache'[h] # cache[h] => clock >= cache[h].expiresAt]_vars

\* Every lookup returns, even when the control plane never answers and
\* every goroutine waits for the same host's mutex.
LookupReturns ==
  \A r \in Requests : phase[r] # "idle" ~> phase[r] = "idle"

\* The refinement mapping: the view of a host is its cache entry.
View == INSTANCE PolicyView WITH
  latest <- [h \in Hosts |-> Len(deployments[h])],
  view   <- [h \in Hosts |-> cache[h].rev],
  asking <- [r \in Requests |-> IF phase[r] = "idle" THEN NoHost ELSE host[r]],
  answer <- [r \in Requests |-> res[r].rev]

\* Provider.Lookup implements PolicyView: each lookup answers with the view
\* at one instant between its call and its return, and no step moves the
\* view backward or past the newest deployment.
ViewSafety == View!Safety
=============================================================================
