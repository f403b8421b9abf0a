------------------------ MODULE PolicyProviderProofs ------------------------
(***************************************************************************)
(* Proofs that PolicyProvider's safety properties hold for every set of    *)
(* hosts and goroutines, every TTL and every fail_behavior.                *)
(***************************************************************************)
EXTENDS PolicyProvider, TLAPS

\* The goroutine recorded as a mutex's holder is refreshing that host, and
\* a refreshing goroutine is the recorded holder.
LockInv ==
  /\ \A h \in Hosts : locks[h] # NoLock =>
       phase[locks[h]] \in Locked /\ host[locks[h]] = h
  /\ \A r \in Requests : phase[r] \in Locked => locks[host[r]] = r

\* d's revision rev was not superseded before time t.
NotBefore(d, rev, t) == rev < Len(d) => d[rev + 1].at >= t

\* An entry is a revision that was current when it was fetched, TTL before
\* it expires.
CacheInv ==
  \A h \in Hosts :
    /\ cache[h].rev <= Len(deployments[h])
    /\ cache[h].rev = 0 => cache[h].expiresAt = 0
    /\ cache[h].rev # 0 =>
         /\ cache[h].expiresAt <= clock + TTL
         /\ NotBefore(deployments[h], cache[h].rev, cache[h].expiresAt - TTL)
    /\ served[h] <= cache[h].rev

\* A goroutine that fetches saw the entry expired, and nobody else can have
\* replaced it since; an answer under way was current after that moment.
FetchInv ==
  \A r \in Requests :
    /\ now[r] <= clock
    /\ phase[r] # "idle" => floor[r] <= cache[host[r]].rev
    /\ phase[r] \in {"fetch", "answered"} => cache[host[r]].expiresAt <= now[r]
    /\ phase[r] = "answered" /\ reply[r] # 0 =>
         /\ reply[r] >= cache[host[r]].rev
         /\ reply[r] <= Len(deployments[host[r]])
         /\ NotBefore(deployments[host[r]], reply[r], now[r])

\* What a returned result says of the deployments, now and later.
ResultInv ==
  \A r \in Requests :
    /\ res[r].at <= clock
    /\ res[r].kind # "none" =>
         /\ host[r] \in Hosts
         /\ res[r].rev >= floor[r]
         /\ res[r].rev <= Len(deployments[host[r]])
    /\ res[r].kind = "found" =>
         NotBefore(deployments[host[r]], res[r].rev, res[r].at - TTL + 1)

\* The inductive invariant.
IInv == TypeOK /\ LockInv /\ CacheInv /\ FetchInv /\ ResultInv

-----------------------------------------------------------------------------
\* NewProvider's state is well typed.
LEMMA InitTypeOK == Init => TypeOK
BY ProviderAssumption DEF Init, TypeOK, Entry, Result, NoEntry, NoResult,
   Phases, Kinds, Deployment

\* Every way of returning from Lookup leaves a well-typed result.
LEMMA ReturnType ==
  ASSUME TypeOK, NEW r \in Requests, phase[r] # "idle",
         NEW kind \in Kinds, NEW rev \in Nat, Return(r, kind, rev)
  PROVE  /\ phase' \in [Requests -> Phases]
         /\ \A q \in Requests : phase'[q] # "idle" => phase[q] # "idle"
         /\ now' \in [Requests -> Nat]
         /\ reply' \in [Requests -> Nat]
         /\ res' \in [Requests -> Result]
         /\ served' \in [Hosts -> Nat]
BY DEF TypeOK, Return, Phases, Result

\* Every step of a lookup and of its environment keeps the types.
LEMMA NextTypeOK == TypeOK /\ [Next]_vars => TypeOK'
<1> SUFFICES ASSUME TypeOK, [Next]_vars PROVE TypeOK'
  OBVIOUS
<1> USE ProviderAssumption
<1>1. CASE Tick
  BY <1>1 DEF Tick, TypeOK
<1>2. ASSUME NEW h \in Hosts, NEW status \in Statuses, Deploy(h, status)
      PROVE  TypeOK'
  BY <1>2 DEF Deploy, TypeOK, Deployment, Statuses
<1>3. ASSUME NEW r \in Requests, NEW h \in Hosts, Begin(r, h)
      PROVE  TypeOK'
  BY <1>3 DEF Begin, TypeOK, Phases, Result, NoResult, Kinds
<1>4. ASSUME NEW r \in Requests, Check(r) PROVE TypeOK'
  <2>1. CASE Fresh(host[r], now[r])
    BY <1>4, <2>1, ReturnType DEF Check, TypeOK, Kinds, Entry
  <2>2. CASE ~Fresh(host[r], now[r])
    BY <1>4, <2>2 DEF Check, TypeOK, Phases
  <2> QED BY <2>1, <2>2
<1>5. ASSUME NEW r \in Requests, Acquire(r) PROVE TypeOK'
  BY <1>5 DEF Acquire, TypeOK, Phases
<1>6. ASSUME NEW r \in Requests, Recheck(r) PROVE TypeOK'
  <2>1. CASE RecheckHit(r)
    BY <1>6, <2>1, ReturnType DEF Recheck, Unlock, TypeOK, Kinds, Entry
  <2>2. CASE ~RecheckHit(r)
    BY <1>6, <2>2 DEF Recheck, TypeOK, Phases
  <2> QED BY <2>1, <2>2
<1>7. ASSUME NEW r \in Requests, ControlAnswer(r) PROVE TypeOK'
  <2>1. ActiveRevision(host[r]) \in Nat
    BY <1>7 DEF ControlAnswer, ActiveRevision, TypeOK
  <2> QED BY <1>7, <2>1 DEF ControlAnswer, TypeOK, Phases
<1>8. ASSUME NEW r \in Requests, FetchSuccess(r) PROVE TypeOK'
  <2>1. cache' \in [Hosts -> Entry]
    BY <1>8 DEF FetchSuccess, Store, Expiry, TypeOK, Entry
  <2> QED BY <1>8, <2>1, ReturnType DEF FetchSuccess, Unlock, TypeOK, Kinds
<1>9. ASSUME NEW r \in Requests, FetchFailure(r) PROVE TypeOK'
  <2>1. CASE StaleAvailable(host[r])
    BY <1>9, <2>1, ReturnType DEF FetchFailure, Unlock, TypeOK, Kinds, Entry
  <2>2. CASE ~StaleAvailable(host[r])
    BY <1>9, <2>2, ReturnType DEF FetchFailure, Unlock, TypeOK, Kinds
  <2> QED BY <2>1, <2>2
<1>10. CASE UNCHANGED vars
  BY <1>10 DEF vars, TypeOK
<1> QED
  BY <1>1, <1>2, <1>3, <1>4, <1>5, <1>6, <1>7, <1>8, <1>9, <1>10
     DEF Next, Lookup

\* Provider's state keeps its types: a goroutine inside Lookup always has a
\* host, and expiry times never become negative.
THEOREM TypeCorrect == Safety => []TypeOK
<1>1. Init => TypeOK
  BY InitTypeOK
<1>2. TypeOK /\ [Next]_vars => TypeOK'
  BY NextTypeOK
<1> QED BY <1>1, <1>2, PTL DEF Safety

-----------------------------------------------------------------------------
\* NewProvider's state, with no lookup under way, satisfies the invariant.
LEMMA InitIInv == Init => IInv
<1> SUFFICES ASSUME Init PROVE IInv
  OBVIOUS
<1>1. TypeOK
  BY InitTypeOK
<1>2. LockInv /\ CacheInv /\ FetchInv /\ ResultInv
  BY ProviderAssumption DEF Init, LockInv, CacheInv, FetchInv, ResultInv,
     NotBefore, NoEntry, NoResult, Locked
<1> QED BY <1>1, <1>2 DEF IInv

\* TypeOK pointwise.
LEMMA Types ==
  ASSUME TypeOK
  PROVE  /\ clock \in Nat
         /\ \A h \in Hosts :
              /\ cache[h].rev \in Nat /\ cache[h].expiresAt \in Nat
              /\ Len(deployments[h]) \in Nat /\ served[h] \in Nat
              /\ locks[h] \in Requests \cup {NoLock}
         /\ \A r \in Requests :
              /\ now[r] \in Nat /\ reply[r] \in Nat /\ floor[r] \in Nat
              /\ res[r].rev \in Nat /\ res[r].at \in Nat
              /\ phase[r] # "idle" => host[r] \in Hosts
BY DEF TypeOK, Entry, Result

\* LockInv when r leaves the refresh section and releases the mutex.
LEMMA UnlockKeeps ==
  ASSUME TypeOK, LockInv, NEW r \in Requests, phase[r] \in Locked, Unlock(r),
         phase'[r] = "idle", UNCHANGED host,
         \A q \in Requests \ {r} : phase'[q] = phase[q]
  PROVE  LockInv'
<1>1. host[r] \in Hosts /\ locks[host[r]] = r
  BY Types DEF LockInv, Locked
<1>2. locks'[host[r]] = NoLock /\ \A h \in Hosts \ {host[r]} : locks'[h] = locks[h]
  BY <1>1 DEF Unlock, TypeOK
<1>3. \A h \in Hosts \ {host[r]} : locks[h] # r
  BY ProviderAssumption DEF LockInv
<1>4. ASSUME NEW h \in Hosts, locks'[h] # NoLock
      PROVE  phase'[locks'[h]] \in Locked /\ host'[locks'[h]] = h
  <2>1. h # host[r] /\ locks'[h] = locks[h] /\ locks[h] \in Requests \ {r}
    BY <1>2, <1>3, <1>4, Types
  <2> QED BY <2>1, <1>4 DEF LockInv
<1>5. ASSUME NEW q \in Requests, phase'[q] \in Locked
      PROVE  locks'[host'[q]] = q
  <2>1. q # r /\ phase[q] \in Locked
    BY <1>5 DEF Locked
  <2>2. locks[host[q]] = q /\ host[q] \in Hosts
    BY <2>1, Types DEF LockInv, Locked
  <2> QED BY <1>1, <1>2, <2>1, <2>2
<1> QED BY <1>4, <1>5 DEF LockInv

\* LockInv when r moves between phases that agree on holding the mutex.
LEMMA PhaseKeeps ==
  ASSUME TypeOK, LockInv, NEW r \in Requests, UNCHANGED <<host, locks>>,
         phase'[r] \in Locked <=> phase[r] \in Locked,
         \A q \in Requests \ {r} : phase'[q] = phase[q]
  PROVE  LockInv'
<1>1. \A q \in Requests : phase'[q] \in Locked <=> phase[q] \in Locked
  OBVIOUS
<1>2. \A h \in Hosts : locks[h] # NoLock => locks[h] \in Requests
  BY Types
<1> QED BY <1>1, <1>2 DEF LockInv

\* Deployments for any number of hosts at the current time.
Extended ==
  /\ deployments' \in [Hosts -> Seq(Deployment)]
  /\ \A h \in Hosts :
       \/ deployments'[h] = deployments[h]
       \/ \E status \in Statuses :
            deployments'[h] = Append(deployments[h], [at |-> clock, status |-> status])
  /\ UNCHANGED <<clock, cache, locks, phase, host, now, reply, res, served, floor>>

\* One deployment is such a step.
LEMMA DeployExtends ==
  ASSUME TypeOK, NEW h \in Hosts, NEW status \in Statuses, Deploy(h, status)
  PROVE  Extended
<1>1. [at |-> clock, status |-> status] \in Deployment
  BY DEF TypeOK, Deployment
<1>2. deployments' \in [Hosts -> Seq(Deployment)]
  BY <1>1 DEF TypeOK, Deploy
<1>3. \A g \in Hosts : g # h => deployments'[g] = deployments[g]
  BY DEF TypeOK, Deploy
<1>4. deployments'[h] = Append(deployments[h], [at |-> clock, status |-> status])
  BY DEF TypeOK, Deploy
<1> QED BY <1>2, <1>3, <1>4 DEF Extended, Deploy

\* Deployments leave the earlier ones in place, and the new ones carry the
\* current time.
LEMMA ExtendedFacts ==
  ASSUME TypeOK, Extended
  PROVE  \A g \in Hosts :
           /\ Len(deployments'[g]) \in Nat
           /\ Len(deployments'[g]) >= Len(deployments[g])
           /\ \A i \in 1 .. Len(deployments[g]) : deployments'[g][i] = deployments[g][i]
           /\ \A rev \in Nat : \A t \in Int :
                /\ rev <= Len(deployments[g])
                /\ t <= clock
                /\ NotBefore(deployments[g], rev, t)
                => NotBefore(deployments'[g], rev, t)
<1> SUFFICES ASSUME NEW g \in Hosts
             PROVE  /\ Len(deployments'[g]) \in Nat
                    /\ Len(deployments'[g]) >= Len(deployments[g])
                    /\ \A i \in 1 .. Len(deployments[g]) :
                         deployments'[g][i] = deployments[g][i]
                    /\ \A rev \in Nat : \A t \in Int :
                         /\ rev <= Len(deployments[g])
                         /\ t <= clock
                         /\ NotBefore(deployments[g], rev, t)
                         => NotBefore(deployments'[g], rev, t)
  OBVIOUS
<1>1. CASE deployments'[g] = deployments[g]
  <2>1. Len(deployments[g]) \in Nat
    BY Types
  <2> QED BY <1>1, <2>1
<1>2. ASSUME NEW status \in Statuses,
             deployments'[g] = Append(deployments[g], [at |-> clock, status |-> status])
      PROVE  /\ Len(deployments'[g]) \in Nat
             /\ Len(deployments'[g]) >= Len(deployments[g])
             /\ \A i \in 1 .. Len(deployments[g]) : deployments'[g][i] = deployments[g][i]
             /\ \A rev \in Nat : \A t \in Int :
                  /\ rev <= Len(deployments[g])
                  /\ t <= clock
                  /\ NotBefore(deployments[g], rev, t)
                  => NotBefore(deployments'[g], rev, t)
  <2> DEFINE d == deployments[g]
             e == [at |-> clock, status |-> status]
  <2>1. deployments'[g] = Append(d, e) /\ d \in Seq(Deployment)
        /\ e \in Deployment
    BY <1>2 DEF TypeOK, Deployment
  <2>2. Len(Append(d, e)) = Len(d) + 1
        /\ \A i \in 1 .. Len(d) : Append(d, e)[i] = d[i]
        /\ Append(d, e)[Len(d) + 1] = e
    BY <2>1
  <2>3. Len(d) \in Nat
    BY <2>1
  <2> QED BY <2>1, <2>2, <2>3 DEF NotBefore, TypeOK
<1> QED BY <1>1, <1>2 DEF Extended

\* Not superseded before t, hence not superseded before an earlier time.
LEMMA NotBeforeEarlier ==
  ASSUME TypeOK, NEW h \in Hosts, NEW rev \in Nat, NEW t \in Int, NEW u \in Int,
         u <= t, NotBefore(deployments[h], rev, t)
  PROVE  NotBefore(deployments[h], rev, u)
<1>1. deployments[h] \in Seq(Deployment)
  BY DEF TypeOK
<1>2. rev < Len(deployments[h]) => deployments[h][rev + 1] \in Deployment
  BY <1>1
<1>3. rev < Len(deployments[h]) => deployments[h][rev + 1].at \in Nat
  BY <1>2 DEF Deployment
<1> QED BY <1>3 DEF NotBefore

\* What Return changes, pointwise.
LEMMA ReturnFacts ==
  ASSUME TypeOK, NEW r \in Requests, phase[r] # "idle",
         NEW kind \in Kinds, NEW rev \in Nat, Return(r, kind, rev)
  PROVE  /\ host[r] \in Hosts
         /\ phase'[r] = "idle" /\ now'[r] = 0 /\ reply'[r] = 0
         /\ res'[r].kind = kind /\ res'[r].rev = rev /\ res'[r].at = now[r]
         /\ served'[host[r]] = IF rev > served[host[r]] THEN rev
                               ELSE served[host[r]]
         /\ \A q \in Requests \ {r} :
              /\ phase'[q] = phase[q] /\ now'[q] = now[q]
              /\ reply'[q] = reply[q] /\ res'[q] = res[q]
         /\ \A h \in Hosts \ {host[r]} : served'[h] = served[h]
BY DEF TypeOK, Return

\* Returning without touching the cache keeps the invariant, provided the
\* mutex is released exactly if it was held, the result is the cache's
\* revision, and "found" is said only of an entry fresh at now[r].
LEMMA ReturnKeeps ==
  ASSUME IInv, NEW r \in Requests, phase[r] # "idle",
         NEW kind \in Kinds, NEW rev \in Nat, Return(r, kind, rev),
         rev = cache[host[r]].rev,
         kind = "found" => now[r] < cache[host[r]].expiresAt /\ rev # 0,
         \/ phase[r] \in Locked /\ Unlock(r)
         \/ phase[r] \notin Locked /\ UNCHANGED locks,
         UNCHANGED <<clock, deployments, cache, host, floor>>
  PROVE  LockInv' /\ CacheInv' /\ FetchInv' /\ ResultInv'
<1> USE ProviderAssumption
<1>0. TypeOK /\ LockInv /\ CacheInv /\ FetchInv /\ ResultInv
  BY DEF IInv
<1>1. /\ host[r] \in Hosts
      /\ phase'[r] = "idle" /\ now'[r] = 0 /\ reply'[r] = 0
      /\ res'[r].kind = kind /\ res'[r].rev = rev /\ res'[r].at = now[r]
      /\ \A q \in Requests \ {r} :
           /\ phase'[q] = phase[q] /\ now'[q] = now[q]
           /\ reply'[q] = reply[q] /\ res'[q] = res[q]
      /\ \A h \in Hosts \ {host[r]} : served'[h] = served[h]
  BY <1>0, ReturnFacts
<1>2. LockInv'
  <2>1. CASE phase[r] \in Locked /\ Unlock(r)
    BY <1>0, <1>1, <2>1, UnlockKeeps
  <2>2. CASE phase[r] \notin Locked /\ UNCHANGED locks
    BY <1>0, <1>1, <2>2, PhaseKeeps DEF Locked
  <2> QED BY <2>1, <2>2
<1>3. CacheInv'
  <2>1. served[host[r]] \in Nat /\ served[host[r]] <= rev
    BY <1>0, <1>1 DEF TypeOK, CacheInv
  <2>2. served'[host[r]] <= rev
    BY <1>0, <2>1, ReturnFacts
  <2> QED BY <1>0, <1>1, <2>2 DEF CacheInv
<1>4. FetchInv'
  BY <1>0, <1>1, SMTT(30) DEF FetchInv, TypeOK
<1>5. ResultInv'
  <2> SUFFICES ASSUME NEW q \in Requests
      PROVE  /\ res'[q].at <= clock
             /\ res'[q].kind # "none" =>
                  /\ host[q] \in Hosts
                  /\ res'[q].rev >= floor[q]
                  /\ res'[q].rev <= Len(deployments[host[q]])
             /\ res'[q].kind = "found" =>
                  NotBefore(deployments[host[q]], res'[q].rev,
                            res'[q].at - TTL + 1)
    BY DEF ResultInv
  <2>1. CASE q # r
    BY <1>0, <1>1, <2>1 DEF ResultInv
  <2>2. CASE q = r
    <3>1. now[r] <= clock /\ rev >= floor[r]
          /\ rev <= Len(deployments[host[r]])
      BY <1>0, <1>1 DEF FetchInv, CacheInv, TypeOK
    <3>2. ASSUME kind = "found"
          PROVE  NotBefore(deployments[host[r]], rev, now[r] - TTL + 1)
      <4>1. NotBefore(deployments[host[r]], rev, cache[host[r]].expiresAt - TTL)
            /\ now[r] < cache[host[r]].expiresAt
        BY <1>0, <1>1, <3>2 DEF CacheInv
      <4>2. cache[host[r]].expiresAt \in Nat /\ now[r] \in Nat
        BY <1>0, <1>1 DEF TypeOK, Entry
      <4>3. cache[host[r]].expiresAt - TTL \in Int /\ now[r] - TTL + 1 \in Int
            /\ now[r] - TTL + 1 <= cache[host[r]].expiresAt - TTL
        BY <4>1, <4>2
      <4> QED BY <1>0, <1>1, <4>1, <4>3, NotBeforeEarlier
    <3> QED BY <1>1, <2>2, <3>1, <3>2
  <2> QED BY <2>1, <2>2
<1> QED BY <1>2, <1>3, <1>4, <1>5

\* Deployments disturb no lookup.
LEMMA ExtendedKeeps == ASSUME IInv, Extended PROVE IInv'
<1> USE ProviderAssumption
<1>0. TypeOK /\ LockInv /\ CacheInv /\ FetchInv /\ ResultInv
  BY DEF IInv
<1>5. TypeOK'
  BY <1>0 DEF Extended, TypeOK
<1>9. /\ clock \in Nat
      /\ \A g \in Hosts :
           /\ cache[g].rev \in Nat /\ cache[g].expiresAt \in Nat
           /\ Len(deployments[g]) \in Nat /\ Len(deployments'[g]) \in Nat
      /\ \A q \in Requests :
           /\ now[q] \in Nat /\ reply[q] \in Nat
           /\ res[q].rev \in Nat /\ res[q].at \in Nat
           /\ phase[q] # "idle" => host[q] \in Hosts
  BY <1>0, Types, ExtendedFacts
<1>1. LockInv'
  BY <1>0 DEF Extended, LockInv
<1>2. CacheInv'
  <2> SUFFICES ASSUME NEW g \in Hosts
      PROVE  /\ cache[g].rev <= Len(deployments'[g])
             /\ cache[g].rev # 0 =>
                  NotBefore(deployments'[g], cache[g].rev,
                            cache[g].expiresAt - TTL)
    BY <1>0 DEF Extended, CacheInv
  <2>1. cache[g].rev \in Nat /\ cache[g].expiresAt - TTL \in Int
    BY <1>9, ProviderAssumption DEF ProviderAssumption
  <2>2. cache[g].rev # 0 => cache[g].expiresAt - TTL <= clock
    BY <1>0, <1>9 DEF CacheInv
  <2>3. Len(deployments[g]) \in Nat /\ Len(deployments'[g]) \in Nat
    BY <1>9
  <2> QED BY <1>0, <2>1, <2>2, <2>3, ExtendedFacts DEF CacheInv
<1>3. FetchInv'
  <2> SUFFICES ASSUME NEW r \in Requests, phase[r] = "answered", reply[r] # 0
      PROVE  /\ reply[r] <= Len(deployments'[host[r]])
             /\ NotBefore(deployments'[host[r]], reply[r], now[r])
    BY <1>0 DEF Extended, FetchInv
  <2>1. host[r] \in Hosts /\ reply[r] \in Nat /\ now[r] \in Int
    BY <1>0 DEF TypeOK
  <2>2. Len(deployments[host[r]]) \in Nat /\ Len(deployments'[host[r]]) \in Nat
    BY <2>1, <1>9
  <2> QED BY <1>0, <2>1, <2>2, ExtendedFacts DEF FetchInv
<1>4. ResultInv'
  <2> SUFFICES ASSUME NEW r \in Requests, res[r].kind # "none"
      PROVE  /\ res[r].rev <= Len(deployments'[host[r]])
             /\ res[r].kind = "found" =>
                  NotBefore(deployments'[host[r]], res[r].rev,
                            res[r].at - TTL + 1)
    BY <1>0 DEF Extended, ResultInv
  <2>1. /\ host[r] \in Hosts /\ res[r].rev \in Nat
        /\ res[r].at - TTL + 1 \in Int /\ res[r].at - TTL + 1 <= clock
    BY <1>0, <1>9 DEF ResultInv
  <2>2. Len(deployments[host[r]]) \in Nat /\ Len(deployments'[host[r]]) \in Nat
    BY <2>1, <1>9
  <2> QED BY <1>0, <2>1, <2>2, ExtendedFacts DEF ResultInv
<1> QED BY <1>1, <1>2, <1>3, <1>4, <1>5 DEF IInv

\* Every step of Lookup keeps the inductive invariant; one case per action.
LEMMA NextIInv == IInv /\ [Next]_vars => IInv'
<1> SUFFICES ASSUME IInv, [Next]_vars PROVE IInv'
  OBVIOUS
<1> USE ProviderAssumption
<1>0. TypeOK /\ LockInv /\ CacheInv /\ FetchInv /\ ResultInv /\ TypeOK'
  BY NextTypeOK DEF IInv
<1>t. /\ clock \in Nat
      /\ \A g \in Hosts :
           /\ cache[g].rev \in Nat /\ cache[g].expiresAt \in Nat
           /\ served[g] \in Nat
           /\ Len(deployments[g]) \in Nat /\ Len(deployments'[g]) \in Nat
      /\ \A q \in Requests :
           /\ now[q] \in Nat /\ reply[q] \in Nat /\ floor[q] \in Nat
           /\ res[q].rev \in Nat /\ res[q].at \in Nat
           /\ phase[q] # "idle" => host[q] \in Hosts
  <2>1. \A g \in Hosts : Len(deployments'[g]) \in Nat
    BY <1>0 DEF TypeOK
  <2> QED BY <1>0, <2>1, Types
<1> SUFFICES LockInv' /\ CacheInv' /\ FetchInv' /\ ResultInv'
  BY <1>0 DEF IInv
<1>1. CASE Tick
  BY <1>0, <1>1 DEF Tick, TypeOK, LockInv, CacheInv, FetchInv, ResultInv,
     NotBefore, Entry, Result
<1>2. ASSUME NEW h \in Hosts, NEW status \in Statuses, Deploy(h, status)
      PROVE  LockInv' /\ CacheInv' /\ FetchInv' /\ ResultInv'
  BY <1>0, <1>2, DeployExtends, ExtendedKeeps DEF IInv
<1>3. ASSUME NEW r \in Requests, NEW h \in Hosts, Begin(r, h)
      PROVE  LockInv' /\ CacheInv' /\ FetchInv' /\ ResultInv'
  <2>1. LockInv'
    BY <1>0, <1>3 DEF Begin, LockInv, TypeOK, Locked
  <2>2. CacheInv'
    BY <1>0, <1>3 DEF Begin, CacheInv
  <2>3. FetchInv'
    BY <1>0, <1>3 DEF Begin, FetchInv, CacheInv, TypeOK, Entry
  <2>4. ResultInv'
    BY <1>0, <1>3 DEF Begin, ResultInv, TypeOK, NoResult
  <2> QED BY <2>1, <2>2, <2>3, <2>4
<1>4. ASSUME NEW r \in Requests, Check(r)
      PROVE  LockInv' /\ CacheInv' /\ FetchInv' /\ ResultInv'
  <2>1. CASE Fresh(host[r], now[r])
    <3>1. cache[host[r]].rev \in Nat
      BY <1>0, <1>4 DEF Check, TypeOK, Entry
    <3> QED BY <1>4, <2>1, <3>1, ReturnKeeps
            DEF Check, Fresh, HasEntry, Kinds, Locked
  <2>2. CASE ~Fresh(host[r], now[r])
    <3>1. LockInv'
      <4>1. \A q \in Requests \ {r} : phase'[q] = phase[q]
        BY <1>0, <1>4, <2>2 DEF Check, TypeOK
      <4>2. UNCHANGED <<host, locks>> /\ (phase'[r] \in Locked <=> phase[r] \in Locked)
        BY <1>0, <1>4, <2>2 DEF Check, TypeOK, Locked
      <4> QED BY <1>0, <4>1, <4>2, PhaseKeeps
    <3>2. CacheInv' /\ ResultInv'
      BY <1>0, <1>4, <2>2 DEF Check, CacheInv, ResultInv
    <3>3. FetchInv'
      BY <1>0, <1>4, <2>2 DEF Check, FetchInv, TypeOK
    <3> QED BY <3>1, <3>2, <3>3
  <2> QED BY <2>1, <2>2
<1>5. ASSUME NEW r \in Requests, Acquire(r)
      PROVE  LockInv' /\ CacheInv' /\ FetchInv' /\ ResultInv'
  <2>1. LockInv'
    BY <1>0, <1>5, SMTT(30) DEF Acquire, MutexFree, LockInv, TypeOK, Locked
  <2>2. CacheInv'
    BY <1>0, <1>5 DEF Acquire, MutexFree, CacheInv, FetchInv, NotBefore, TypeOK, Entry
  <2>3. FetchInv'
    BY <1>0, <1>5, SMTT(30) DEF Acquire, MutexFree, FetchInv, LockInv, CacheInv, NotBefore, TypeOK, Entry, Locked
  <2>4. ResultInv'
    BY <1>0, <1>5 DEF Acquire, MutexFree, ResultInv, CacheInv, FetchInv, NotBefore, TypeOK, Entry, Result, Kinds
  <2> QED BY <2>1, <2>2, <2>3, <2>4
<1>6. ASSUME NEW r \in Requests, Recheck(r)
      PROVE  LockInv' /\ CacheInv' /\ FetchInv' /\ ResultInv'
  <2>1. CASE RecheckHit(r)
    <3>1. cache[host[r]].rev \in Nat
      BY <1>0, <1>6 DEF Recheck, TypeOK, Entry
    <3> QED BY <1>6, <2>1, <3>1, ReturnKeeps
            DEF Recheck, RecheckHit, Fresh, HasEntry, Kinds, Locked
  <2>2. CASE ~RecheckHit(r)
    <3>1. LockInv'
      <4>1. \A q \in Requests \ {r} : phase'[q] = phase[q]
        BY <1>0, <1>6, <2>2 DEF Recheck, TypeOK
      <4>2. UNCHANGED <<host, locks>> /\ (phase'[r] \in Locked <=> phase[r] \in Locked)
        BY <1>0, <1>6, <2>2 DEF Recheck, TypeOK, Locked
      <4> QED BY <1>0, <4>1, <4>2, PhaseKeeps
    <3>2. CacheInv' /\ ResultInv'
      BY <1>0, <1>6, <2>2 DEF Recheck, CacheInv, ResultInv
    <3>3. cache[host[r]].expiresAt <= now[r]
      BY <1>0, <1>t, <1>6, <2>2
         DEF Recheck, RecheckHit, Fresh, HasEntry, CacheInv
    <3>4. FetchInv'
      BY <1>0, <1>6, <2>2, <3>3 DEF Recheck, FetchInv, TypeOK
    <3> QED BY <3>1, <3>2, <3>4
  <2> QED BY <2>1, <2>2
<1>7. ASSUME NEW r \in Requests, ControlAnswer(r)
      PROVE  LockInv' /\ CacheInv' /\ FetchInv' /\ ResultInv'
  <2>1. LockInv'
    BY <1>0, <1>7 DEF ControlAnswer, ActiveRevision, LockInv, TypeOK, Locked
  <2>2. CacheInv'
    BY <1>0, <1>7 DEF ControlAnswer, ActiveRevision, CacheInv, FetchInv, NotBefore, TypeOK, Entry
  <2>3. FetchInv'
    BY <1>0, <1>7, SMTT(30) DEF ControlAnswer, ActiveRevision, FetchInv, LockInv, CacheInv, NotBefore, TypeOK, Entry, Locked
  <2>4. ResultInv'
    BY <1>0, <1>7 DEF ControlAnswer, ActiveRevision, ResultInv, CacheInv, FetchInv, NotBefore, TypeOK, Entry, Result, Kinds
  <2> QED BY <2>1, <2>2, <2>3, <2>4
<1>8. ASSUME NEW r \in Requests, FetchSuccess(r)
      PROVE  LockInv' /\ CacheInv' /\ FetchInv' /\ ResultInv'
  <2> DEFINE h == host[r]
  <2>1. /\ h \in Hosts /\ phase[r] = "answered" /\ reply[r] \in Nat
        /\ reply[r] # 0 /\ now[r] \in Nat /\ "found" \in Kinds
        /\ phase[r] \in Locked
    BY <1>0, <1>8 DEF FetchSuccess, TypeOK, Kinds, Locked
  <2>2. Return(r, "found", reply[r]) /\ Unlock(r)
        /\ UNCHANGED <<clock, deployments, host, floor>>
    BY <1>8 DEF FetchSuccess
  <2>3. /\ cache'[h] = [rev |-> reply[r], expiresAt |-> now[r] + TTL]
        /\ \A g \in Hosts \ {h} : cache'[g] = cache[g]
    BY <1>0, <1>8, <2>1 DEF FetchSuccess, Store, Expiry, TypeOK
  <2>4. /\ reply[r] >= cache[h].rev
        /\ reply[r] <= Len(deployments[h])
        /\ NotBefore(deployments[h], reply[r], now[r])
        /\ now[r] <= clock
        /\ floor[r] <= cache[h].rev
    BY <1>0, <2>1 DEF FetchInv
  <2>r. /\ phase'[r] = "idle" /\ now'[r] = 0 /\ reply'[r] = 0
        /\ res'[r].kind = "found" /\ res'[r].rev = reply[r]
        /\ res'[r].at = now[r]
        /\ \A q \in Requests \ {r} :
             /\ phase'[q] = phase[q] /\ now'[q] = now[q]
             /\ reply'[q] = reply[q] /\ res'[q] = res[q]
        /\ \A g \in Hosts \ {h} : served'[g] = served[g]
    BY <1>0, <2>1, <2>2, ReturnFacts
  <2>5. LockInv'
    BY <1>0, <2>1, <2>2, <2>r, UnlockKeeps
  <2>6. CacheInv'
    <3> SUFFICES ASSUME NEW g \in Hosts
        PROVE  /\ cache'[g].rev <= Len(deployments[g])
               /\ cache'[g].rev = 0 => cache'[g].expiresAt = 0
               /\ cache'[g].rev # 0 =>
                    /\ cache'[g].expiresAt <= clock + TTL
                    /\ NotBefore(deployments[g], cache'[g].rev,
                                 cache'[g].expiresAt - TTL)
               /\ served'[g] <= cache'[g].rev
      BY <2>2 DEF CacheInv
    <3>1. CASE g # h
      BY <1>0, <2>r, <2>3, <3>1 DEF CacheInv
    <3>2. CASE g = h
      <4>1. served[h] <= reply[r] /\ served[h] \in Nat
        BY <1>0, <1>t, <2>1, <2>4 DEF CacheInv
      <4>2. served'[h] <= reply[r]
        BY <1>0, <4>1, <2>1, <2>2, ReturnFacts
      <4>3. now[r] + TTL <= clock + TTL /\ (now[r] + TTL) - TTL = now[r]
        BY <1>t, <2>1, <2>4
      <4> QED BY <2>1, <2>3, <2>4, <3>2, <4>2, <4>3
    <3> QED BY <3>1, <3>2
  <2>7. FetchInv'
    <3> SUFFICES ASSUME NEW q \in Requests
        PROVE  /\ now'[q] <= clock
               /\ phase'[q] # "idle" => floor[q] <= cache'[host[q]].rev
               /\ phase'[q] \in {"fetch", "answered"} =>
                    cache'[host[q]].expiresAt <= now'[q]
               /\ phase'[q] = "answered" /\ reply'[q] # 0 =>
                    /\ reply'[q] >= cache'[host[q]].rev
                    /\ reply'[q] <= Len(deployments[host[q]])
                    /\ NotBefore(deployments[host[q]], reply'[q], now'[q])
      BY <2>2 DEF FetchInv
    <3>1. CASE q = r
      BY <1>t, <2>r, <3>1
    <3>2. CASE q # r /\ host[q] # h
      BY <1>0, <1>t, <2>r, <2>3, <3>2 DEF FetchInv
    <3>3. CASE q # r /\ host[q] = h
      <4>1. phase[q] \notin Locked
        BY <1>0, <2>1, <3>3 DEF LockInv
      <4>2. now[q] <= clock /\ (phase[q] # "idle" => floor[q] <= cache[h].rev)
        BY <1>0, <3>3 DEF FetchInv
      <4>3. phase[q] # "idle" => floor[q] <= reply[r]
        BY <1>t, <2>1, <2>4, <4>2
      <4> QED BY <2>r, <2>3, <3>3, <4>1, <4>2, <4>3 DEF Locked
    <3> QED BY <3>1, <3>2, <3>3
  <2>8. ResultInv'
    <3> SUFFICES ASSUME NEW q \in Requests
        PROVE  /\ res'[q].at <= clock
               /\ res'[q].kind # "none" =>
                    /\ host[q] \in Hosts
                    /\ res'[q].rev >= floor[q]
                    /\ res'[q].rev <= Len(deployments[host[q]])
               /\ res'[q].kind = "found" =>
                    NotBefore(deployments[host[q]], res'[q].rev,
                              res'[q].at - TTL + 1)
      BY <2>2 DEF ResultInv
    <3>1. CASE q # r
      BY <1>0, <2>r, <3>1 DEF ResultInv
    <3>2. CASE q = r
      <4>1. now[r] - TTL + 1 \in Int /\ now[r] - TTL + 1 <= now[r]
        BY <2>1
      <4>2. NotBefore(deployments[h], reply[r], now[r] - TTL + 1)
        BY <1>0, <2>1, <2>4, <4>1, NotBeforeEarlier
      <4>3. reply[r] >= floor[r]
        BY <1>t, <2>1, <2>4
      <4> QED BY <2>1, <2>4, <2>r, <3>2, <4>2, <4>3
    <3> QED BY <3>1, <3>2
  <2> QED BY <2>5, <2>6, <2>7, <2>8
<1>9. ASSUME NEW r \in Requests, FetchFailure(r)
      PROVE  LockInv' /\ CacheInv' /\ FetchInv' /\ ResultInv'
  <2>1. CASE StaleAvailable(host[r])
    <3>1. cache[host[r]].rev \in Nat
      BY <1>0, <1>9 DEF FetchFailure, TypeOK, Entry
    <3> QED BY <1>9, <2>1, <3>1, ReturnKeeps DEF FetchFailure, Kinds, Locked
  <2>2. CASE ~StaleAvailable(host[r])
    BY <1>9, <2>2, ReturnKeeps
       DEF FetchFailure, StaleAvailable, HasEntry, Kinds, Locked
  <2> QED BY <2>1, <2>2
<1>10. CASE UNCHANGED vars
  BY <1>0, <1>10 DEF vars, LockInv, CacheInv, FetchInv, ResultInv
<1> QED
  BY <1>1, <1>2, <1>3, <1>4, <1>5, <1>6, <1>7, <1>8, <1>9, <1>10
     DEF Next, Lookup

-----------------------------------------------------------------------------
\* The invariant the theorems about Lookup below rest on.
LEMMA IInvAlways == Safety => []IInv
<1>1. Init => IInv
  BY InitIInv
<1>2. IInv /\ [Next]_vars => IInv'
  BY NextIInv
<1> QED BY <1>1, <1>2, PTL DEF Safety

\* Provider.Lookup's per-host mutex: at most one goroutine fetches the
\* policy of a host at any time, whatever the number of goroutines.
THEOREM SingleFlightHolds == Safety => []SingleFlight
<1>1. IInv => SingleFlight
  <2> SUFFICES ASSUME IInv, NEW r \in Requests
               PROVE  phase[r] \in Locked <=>
                        \E h \in Hosts : host[r] = h /\ locks[h] = r
    BY DEF SingleFlight
  <2>1. TypeOK /\ LockInv
    BY DEF IInv
  <2>2. phase[r] \in Locked => host[r] \in Hosts /\ locks[host[r]] = r
    BY <2>1, Types DEF LockInv, Locked
  <2>3. \A h \in Hosts : locks[h] = r => phase[r] \in Locked
    BY <2>1, ProviderAssumption DEF LockInv
  <2> QED BY <2>2, <2>3
<1> QED BY <1>1, IInvAlways, PTL

\* A policy Lookup returns as fresh was the newest deployment less than TTL
\* before the clock value the lookup decided on, for every interleaving of
\* lookups, deployments, late answers and failed fetches.
THEOREM BoundedStalenessHolds == Safety => []BoundedStaleness
<1>1. IInv => BoundedStaleness
  <2> SUFFICES ASSUME IInv, NEW r \in Requests, res[r].kind = "found",
                      res[r].rev < Len(deployments[host[r]])
               PROVE  res[r].at < deployments[host[r]][res[r].rev + 1].at + TTL
    BY DEF BoundedStaleness
  <2>1. TypeOK /\ ResultInv
    BY DEF IInv
  <2>2. /\ host[r] \in Hosts
        /\ NotBefore(deployments[host[r]], res[r].rev, res[r].at - TTL + 1)
        /\ res[r].rev \in Nat /\ res[r].at \in Nat
    BY <2>1, Types DEF ResultInv
  <2>3. deployments[host[r]] \in Seq(Deployment)
    BY <2>1, <2>2 DEF TypeOK
  <2>4. deployments[host[r]][res[r].rev + 1] \in Deployment
    BY <2>2, <2>3
  <2>5. deployments[host[r]][res[r].rev + 1].at \in Nat
    BY <2>4 DEF Deployment
  <2>6. deployments[host[r]][res[r].rev + 1].at >= res[r].at - TTL + 1
    BY <2>2 DEF NotBefore
  <2>7. \A a, b, c \in Nat : b >= a - c + 1 => a < b + c
    OBVIOUS
  <2>8. TTL \in Nat
    BY ProviderAssumption
  <2> QED BY <2>2, <2>5, <2>6, <2>7, <2>8
<1> QED BY <1>1, IInvAlways, PTL

\* A lookup never returns an older deployment than a lookup of the same
\* host that ended before it began, stale and failed answers included.
THEOREM MonotoneReadsHolds == Safety => []MonotoneReads
<1>1. IInv => MonotoneReads
  BY DEF IInv, ResultInv, MonotoneReads
<1> QED BY <1>1, IInvAlways, PTL

\* Lookup replaces a cache entry only after it has expired.
THEOREM RefreshOnlyExpiredHolds == Safety => RefreshOnlyExpired
<1>1. IInv /\ [Next]_vars =>
        [\A h \in Hosts : cache'[h] # cache[h] => clock >= cache[h].expiresAt]_vars
  <2> SUFFICES ASSUME IInv, Next, NEW h \in Hosts, cache'[h] # cache[h]
               PROVE  clock >= cache[h].expiresAt
    OBVIOUS
  <2>0. TypeOK /\ FetchInv
    BY DEF IInv
  <2>1. PICK r \in Requests : FetchSuccess(r)
    BY DEF Next, Lookup, Tick, Deploy, Begin, Check, Acquire, Recheck,
       ControlAnswer, FetchFailure
  <2>2. h = host[r] /\ phase[r] = "answered"
    BY <2>0, <2>1 DEF FetchSuccess, Store, TypeOK
  <2>3. cache[h].expiresAt <= now[r] /\ now[r] <= clock
    BY <2>0, <2>2 DEF FetchInv
  <2> QED BY <2>0, <2>3, Types
<1> QED BY <1>1, IInvAlways, PTL DEF Safety, RefreshOnlyExpired

-----------------------------------------------------------------------------
\* Returning revision rev, with rev the cache's revision afterwards, is
\* PolicyView's Tell.
LEMMA ReturnTells ==
  ASSUME TypeOK, NEW r \in Requests, phase[r] # "idle",
         NEW kind \in Kinds, NEW rev \in Nat, Return(r, kind, rev),
         UNCHANGED <<deployments, host>>,
         cache[host[r]].rev <= rev, rev <= Len(deployments[host[r]]),
         cache'[host[r]].rev = rev,
         \A g \in Hosts \ {host[r]} : cache'[g] = cache[g]
  PROVE  View!TellSome(r)
<1> DEFINE h == host[r]
           vw == [g \in Hosts |-> cache[g].rev]
           lt == [g \in Hosts |-> Len(deployments[g])]
           ask == [q \in Requests |-> IF phase[q] = "idle" THEN NoHost ELSE host[q]]
           ans == [q \in Requests |-> res[q].rev]
<1>1. h \in Hosts /\ cache[h].rev \in Nat /\ Len(deployments[h]) \in Nat
  BY Types
<1>2. rev \in vw[h] .. lt[h] /\ ask[r] = h
  BY <1>1
<1>3. vw' = [vw EXCEPT ![h] = rev]
  BY <1>1
<1>4. ask' = [ask EXCEPT ![r] = NoHost]
  <2>1. phase'[r] = "idle" /\ \A q \in Requests \ {r} : phase'[q] = phase[q]
    BY ReturnFacts
  <2> QED BY <2>1
<1>5. ans' = [ans EXCEPT ![r] = rev]
  <2>1. res'[r].rev = rev /\ \A q \in Requests \ {r} : res'[q] = res[q]
    BY ReturnFacts
  <2> QED BY <2>1
<1>6. lt' = lt
  OBVIOUS
<1>7. View!Tell(r, h, rev)
  BY <1>2, <1>3, <1>4, <1>5, <1>6 DEF View!Tell
<1> QED BY <1>1, <1>2, <1>7 DEF View!TellSome

\* The provider implements PolicyView: a lookup takes effect at the single
\* step that decides its result, and what it returns is the cache's revision
\* after that step -- no lookup returns a policy the cache does not hold.
THEOREM Refinement == Safety => ViewSafety
<1>1. Init => View!Init
  BY DEF Init, View!Init, NoEntry, NoResult
<1>2. IInv /\ [Next]_vars => [View!Next]_(View!vars)
  <2> SUFFICES ASSUME IInv, [Next]_vars PROVE [View!Next]_(View!vars)
    OBVIOUS
  <2> USE ProviderAssumption
  <2>0. TypeOK /\ CacheInv /\ FetchInv /\ LockInv
    BY DEF IInv
  <2>1. ASSUME Tick \/ (\E r \in Requests : Acquire(r) \/ ControlAnswer(r))
               \/ UNCHANGED vars
        PROVE  UNCHANGED View!vars
    BY <2>0, <2>1 DEF Tick, Acquire, ControlAnswer, vars, View!vars, TypeOK
  <2>2. ASSUME NEW h \in Hosts, NEW status \in Statuses, Deploy(h, status)
        PROVE  View!Deploy(h)
    <3>1. /\ deployments' = [deployments EXCEPT
               ![h] = Append(@, [at |-> clock, status |-> status])]
          /\ deployments[h] \in Seq(Deployment)
          /\ [at |-> clock, status |-> status] \in Deployment
      BY <2>0, <2>2 DEF Deploy, TypeOK, Deployment
    <3>2. Len(deployments'[h]) = Len(deployments[h]) + 1
          /\ \A g \in Hosts \ {h} : deployments'[g] = deployments[g]
      BY <2>0, <3>1 DEF TypeOK
    <3>3. [g \in Hosts |-> Len(deployments'[g])] =
            [[g \in Hosts |-> Len(deployments[g])] EXCEPT ![h] = @ + 1]
      BY <3>2
    <3> QED BY <2>2, <3>3 DEF Deploy, View!Deploy
  <2>3. ASSUME NEW r \in Requests, NEW h \in Hosts, Begin(r, h)
        PROVE  View!Ask(r, h)
    BY <2>0, <2>3 DEF Begin, View!Ask, TypeOK, NoResult
  <2>4. ASSUME NEW r \in Requests, Check(r) \/ Recheck(r) \/ FetchFailure(r)
        PROVE  UNCHANGED View!vars \/ View!TellSome(r)
    <3>1. CASE /\ phase' \in {[phase EXCEPT ![r] = "lock"],
                              [phase EXCEPT ![r] = "fetch"]}
               /\ phase[r] # "idle"
               /\ UNCHANGED <<deployments, cache, host, res>>
      BY <2>0, <3>1 DEF View!vars, TypeOK
    <3>2. CASE /\ phase[r] # "idle"
               /\ UNCHANGED <<deployments, cache, host>>
               /\ \E kind \in Kinds : Return(r, kind, cache[host[r]].rev)
      <4>1. PICK kind \in Kinds : Return(r, kind, cache[host[r]].rev)
        BY <3>2
      <4>2. /\ cache[host[r]].rev \in Nat
            /\ cache[host[r]].rev <= Len(deployments[host[r]])
        BY <2>0, <3>2, Types DEF CacheInv
      <4> QED BY <2>0, <3>2, <4>1, <4>2, ReturnTells
    <3>3. Check(r) => <3>1!1 \/ <3>2!1
      BY DEF Check, Kinds
    <3>4. Recheck(r) => <3>1!1 \/ <3>2!1
      BY DEF Recheck, Kinds
    <3>5. FetchFailure(r) => <3>2!1
      BY DEF FetchFailure, StaleAvailable, HasEntry, Kinds
    <3> QED BY <2>4, <3>1, <3>2, <3>3, <3>4, <3>5
  <2>5. ASSUME NEW r \in Requests, FetchSuccess(r)
        PROVE  View!TellSome(r)
    <3>1. /\ phase[r] = "answered" /\ reply[r] # 0 /\ host[r] \in Hosts
          /\ reply[r] \in Nat /\ "found" \in Kinds
          /\ Return(r, "found", reply[r]) /\ UNCHANGED <<deployments, host>>
      BY <2>0, <2>5, Types DEF FetchSuccess, Kinds
    <3>2. /\ cache'[host[r]].rev = reply[r]
          /\ \A g \in Hosts \ {host[r]} : cache'[g] = cache[g]
      BY <2>0, <2>5, <3>1 DEF FetchSuccess, Store, TypeOK
    <3>3. cache[host[r]].rev <= reply[r] /\ reply[r] <= Len(deployments[host[r]])
      BY <2>0, <3>1, Types DEF FetchInv
    <3> QED BY <2>0, <3>1, <3>2, <3>3, ReturnTells
  <2> QED
    BY <2>1, <2>2, <2>3, <2>4, <2>5 DEF Next, Lookup, View!Next
<1> QED BY <1>1, <1>2, IInvAlways, PTL DEF Safety, ViewSafety, View!Safety

-----------------------------------------------------------------------------
(***************************************************************************)
(* What is served can be used.                                             *)
(***************************************************************************)

\* rev is 0 or a usable deployment of h.
Usable(h, rev) ==
  rev # 0 => rev \in 1 .. Len(deployments[h]) /\ deployments[h][rev].status = "usable"

\* Every revision in the cache, in an answer under way or in a result is one
\* the control plane served and toApp accepted; "found" has one.
UsableInv ==
  /\ \A h \in Hosts : Usable(h, cache[h].rev)
  /\ \A r \in Requests :
       /\ phase[r] = "answered" => Usable(host[r], reply[r])
       /\ res[r].kind # "none" => Usable(host[r], res[r].rev)
       /\ res[r].kind = "found" => res[r].rev # 0
       /\ res[r].kind = "none" => res[r].rev = 0

\* NewProvider's state has no revisions.
LEMMA InitUsable == Init => UsableInv
BY DEF Init, UsableInv, Usable, NoEntry, NoResult

\* Deployments leave usable what was usable.
LEMMA ExtendedUsable == ASSUME IInv, UsableInv, Extended PROVE UsableInv'
<1>1. \A h \in Hosts : /\ Len(deployments[h]) \in Nat /\ Len(deployments'[h]) \in Nat
                       /\ Len(deployments'[h]) >= Len(deployments[h])
                       /\ \A i \in 1 .. Len(deployments[h]) :
                            deployments'[h][i] = deployments[h][i]
  BY ExtendedFacts, Types DEF IInv
<1>2. \A h \in Hosts, rev \in Nat : Usable(h, rev) => Usable(h, rev)'
  BY <1>1 DEF Usable
<1>3. UNCHANGED <<cache, phase, host, reply, res>>
  BY DEF Extended
<1>4. \A h \in Hosts : cache[h].rev \in Nat
  BY Types DEF IInv
<1>5. \A r \in Requests : /\ reply[r] \in Nat /\ res[r].rev \in Nat
                          /\ phase[r] # "idle" => host[r] \in Hosts
                          /\ res[r].kind # "none" => host[r] \in Hosts
  BY Types DEF IInv, ResultInv
<1>6. \A h \in Hosts : Usable(h, cache[h].rev)'
  BY <1>2, <1>3, <1>4 DEF UsableInv, Usable
<1>7. \A r \in Requests :
        /\ phase[r] = "answered" => Usable(host[r], reply[r])'
        /\ res[r].kind # "none" => Usable(host[r], res[r].rev)'
  BY <1>2, <1>3, <1>5 DEF UsableInv, Usable
<1> QED BY <1>3, <1>6, <1>7 DEF UsableInv

\* A lookup that returns a usable revision leaves UsableInv true.
LEMMA ReturnUsable ==
  ASSUME IInv, UsableInv, NEW r \in Requests, phase[r] # "idle",
         NEW kind \in Kinds \ {"none"}, NEW rev \in Nat, Return(r, kind, rev),
         UNCHANGED <<deployments, host>>, Usable(host[r], rev),
         kind = "found" => rev # 0,
         \A h \in Hosts : cache'[h] = cache[h] \/ (h = host[r] /\ cache'[h].rev = rev)
  PROVE  UsableInv'
<1>1. /\ host[r] \in Hosts
      /\ phase'[r] = "idle" /\ res'[r].kind = kind /\ res'[r].rev = rev
      /\ \A q \in Requests \ {r} :
           /\ phase'[q] = phase[q] /\ reply'[q] = reply[q] /\ res'[q] = res[q]
  BY ReturnFacts DEF IInv
<1>2. \A h, n : Usable(h, n)' <=> Usable(h, n)
  BY DEF Usable
<1>3. \A h \in Hosts : Usable(h, cache'[h].rev)
  BY <1>1 DEF UsableInv
<1> QED BY <1>1, <1>2, <1>3 DEF UsableInv, Usable

\* Every step keeps UsableInv: ControlAnswer takes the newest deployment only
\* if it is usable, and every other revision is handed on.
LEMMA NextUsable == IInv /\ UsableInv /\ [Next]_vars => UsableInv'
<1> SUFFICES ASSUME IInv, UsableInv, [Next]_vars PROVE UsableInv'
  OBVIOUS
<1>0. TypeOK
  BY DEF IInv
<1>1. CASE Tick \/ UNCHANGED vars
  <2>1. UNCHANGED <<deployments, cache, phase, host, reply, res>>
    BY <1>1 DEF Tick, vars
  <2> QED BY <2>1 DEF UsableInv, Usable
<1>2. ASSUME NEW h \in Hosts, NEW status \in Statuses, Deploy(h, status)
      PROVE  UsableInv'
  BY <1>0, <1>2, DeployExtends, ExtendedUsable
<1>3. ASSUME NEW r \in Requests, NEW h \in Hosts, Begin(r, h) PROVE UsableInv'
  <2>1. /\ UNCHANGED <<deployments, cache, reply>>
        /\ phase'[r] = "check" /\ res'[r] = NoResult
        /\ \A q \in Requests \ {r} :
             phase'[q] = phase[q] /\ host'[q] = host[q] /\ res'[q] = res[q]
    BY <1>0, <1>3 DEF Begin, TypeOK
  <2> QED BY <2>1 DEF UsableInv, Usable, NoResult
<1>4. ASSUME NEW r \in Requests, phase'[r] # "answered",
             \A q \in Requests \ {r} : phase'[q] = phase[q],
             UNCHANGED <<deployments, cache, host, reply, res>>
      PROVE  UsableInv'
  BY <1>4 DEF UsableInv, Usable
<1>5. ASSUME NEW r \in Requests, phase[r] # "idle", UNCHANGED <<deployments, host, cache>>,
             NEW kind \in {"found", "stale"}, Return(r, kind, cache[host[r]].rev),
             cache[host[r]].rev # 0
      PROVE  UsableInv'
  <2>1. host[r] \in Hosts /\ cache[host[r]].rev \in Nat /\ kind \in Kinds \ {"none"}
    BY <1>0, <1>5, Types DEF Kinds
  <2> QED BY <1>5, <2>1, ReturnUsable DEF UsableInv
<1>6. ASSUME NEW r \in Requests, Check(r) PROVE UsableInv'
  <2>1. CASE Fresh(host[r], now[r])
    BY <1>5, <1>6, <2>1 DEF Check, Fresh, HasEntry
  <2>2. CASE ~Fresh(host[r], now[r])
    BY <1>0, <1>4, <1>6, <2>2 DEF Check, TypeOK
  <2> QED BY <2>1, <2>2
<1>7. ASSUME NEW r \in Requests, Acquire(r) PROVE UsableInv'
  BY <1>0, <1>4, <1>7 DEF Acquire, TypeOK
<1>8. ASSUME NEW r \in Requests, Recheck(r) PROVE UsableInv'
  <2>1. CASE RecheckHit(r)
    BY <1>5, <1>8, <2>1 DEF Recheck, RecheckHit, Fresh, HasEntry
  <2>2. CASE ~RecheckHit(r)
    BY <1>0, <1>4, <1>8, <2>2 DEF Recheck, TypeOK
  <2> QED BY <2>1, <2>2
<1>9. ASSUME NEW r \in Requests, ControlAnswer(r) PROVE UsableInv'
  <2>1. host[r] \in Hosts
    BY <1>0, <1>9, Types DEF ControlAnswer
  <2>2. Usable(host[r], ActiveRevision(host[r]))
    <3>1. Len(deployments[host[r]]) \in Nat
      BY <1>0, <2>1, Types
    <3> QED BY <3>1 DEF Usable, ActiveRevision
  <2>3. /\ UNCHANGED <<deployments, cache, host, res>>
        /\ reply'[r] = ActiveRevision(host[r])
        /\ \A q \in Requests \ {r} : phase'[q] = phase[q] /\ reply'[q] = reply[q]
    BY <1>0, <1>9 DEF ControlAnswer, TypeOK
  <2>4. \A h, n : Usable(h, n)' <=> Usable(h, n)
    BY <2>3 DEF Usable
  <2> QED BY <2>2, <2>3, <2>4 DEF UsableInv, Usable
<1>10. ASSUME NEW r \in Requests, FetchSuccess(r) PROVE UsableInv'
  <2>1. /\ phase[r] = "answered" /\ reply[r] # 0 /\ host[r] \in Hosts
        /\ reply[r] \in Nat /\ "found" \in Kinds \ {"none"}
        /\ Return(r, "found", reply[r]) /\ UNCHANGED <<deployments, host>>
    BY <1>0, <1>10, Types DEF FetchSuccess, Kinds
  <2>2. \A h \in Hosts : cache'[h] = cache[h] \/ (h = host[r] /\ cache'[h].rev = reply[r])
    BY <1>0, <1>10 DEF FetchSuccess, Store, TypeOK
  <2>3. Usable(host[r], reply[r])
    BY <2>1 DEF UsableInv
  <2> QED BY <2>1, <2>2, <2>3, ReturnUsable
<1>11. ASSUME NEW r \in Requests, FetchFailure(r) PROVE UsableInv'
  <2>1. CASE StaleAvailable(host[r])
    BY <1>5, <1>11, <2>1 DEF FetchFailure, StaleAvailable, HasEntry
  <2>2. CASE ~StaleAvailable(host[r])
    <3>1. PICK kind \in {"fail_open", "fail_closed"} : Return(r, kind, 0)
      BY <1>11, <2>2 DEF FetchFailure
    <3>2. kind \in Kinds \ {"none"} /\ kind # "found" /\ Usable(host[r], 0)
      BY DEF Kinds, Usable
    <3> QED BY <1>11, <3>1, <3>2, ReturnUsable DEF FetchFailure
  <2> QED BY <2>1, <2>2
<1> QED
  BY <1>1, <1>2, <1>3, <1>6, <1>7, <1>8, <1>9, <1>10, <1>11 DEF Next, Lookup
=============================================================================
