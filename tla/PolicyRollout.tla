----------------------------- MODULE PolicyRollout -----------------------------
(***************************************************************************)
(* The control plane and a gateway together: clients patch and publish     *)
(* policies (ControlPlane) while requests arrive at a gateway that asks    *)
(* GET /v1/gateway/apps/{hostname}/policy and caches what it gets          *)
(* (PolicyProvider).  The interface is the answer to that question: each   *)
(* change of it is what PolicyProvider calls a deployment.                 *)
(***************************************************************************)
EXTENDS ControlPlane, Sequences

CONSTANTS Requests,      \* request goroutines of the gateway
          RequestHosts,  \* texts of the Host header
          Unloadable,    \* rules validatePolicySnapshot passes and toApp refuses
          TTL, FailBehavior,
          MaxTime,       \* bound: last tick of the gateway's clock
          MaxChanges     \* bound: changes of the answer for a host

\* What a gateway asks for: hosts that pass ValidHost, normalized.
Asked == {NormalizeHost(t) : t \in {u \in RequestHosts : ValidHost(NormalizeHost(u))}}

ASSUME RolloutAssumption ==
  /\ TTL \in Nat /\ TTL > 0
  /\ FailBehavior \in {"fail_open", "fail_closed", "use_stale_then_fail_open"}
  /\ MaxTime \in Nat /\ MaxChanges \in Nat
  /\ None \notin Asked \cup Requests  \* neither host nor goroutine

VARIABLES
  changes,  \* for each host asked for: the answers, in order, with their time
  time, cache, mutex, phase, host, now, reply, res, served, floor

gateway == <<time, cache, mutex, phase, host, now, reply, res, served, floor>>

\* getGatewayPolicy: 400 unless the host is a DNS name, else the version or
\* 404; 0 stands for both.
ApiAnswer(x) == IF IsDNSName(x) THEN GatewayPolicy(x.name) ELSE 0

\* The version row an id names; ids are the times of transactions.
Row(id) == CHOOSE v \in UNION {versions[p] : p \in Policies} : v.id = id
PolicyOf(id) == CHOOSE p \in Policies : \E v \in versions[p] : v.id = id

\* toApp and NewApp accept the snapshot.  Fault: what they refuse is taken.
BugTakeAny(id) == id # 0
Loads(id) == id # 0 /\ Row(id).snapshot.rules \notin Unloadable

Provider == INSTANCE PolicyProvider WITH
  Hosts <- Asked, NoHost <- None, NoLock <- None,
  MaxClock <- MaxTime, MaxRevision <- MaxChanges,
  clock <- time, locks <- mutex,
  deployments <- [x \in Asked |-> [i \in DOMAIN changes[x] |->
    [at |-> changes[x][i].at, status |-> changes[x][i].status]]]

RolloutInit ==
  /\ Init
  /\ changes = [x \in Asked |-> <<>>]
  /\ Provider!Init

\* A step of the control plane; where the answer changes, that is recorded.
ControlStep ==
  /\ Next
  /\ changes' = [x \in Asked |->
       IF ApiAnswer(x)' = ApiAnswer(x) THEN changes[x]
       ELSE Append(changes[x],
              [at |-> time, version |-> ApiAnswer(x)',
               status |-> IF Loads(ApiAnswer(x))' THEN "usable" ELSE "unusable"])]
  /\ \A x \in Asked : Len(changes'[x]) <= MaxChanges
  /\ UNCHANGED gateway

\* ServeHTTP: the Host header is normalized and checked, then looked up.
Arrive(r, t) ==
  /\ ValidHost(NormalizeHost(t))
  /\ Provider!Begin(r, NormalizeHost(t))

GatewayStep ==
  /\ UNCHANGED <<vars, changes>>
  /\ \/ Provider!Tick
     \/ \E r \in Requests, t \in RequestHosts : Arrive(r, t)
     \/ \E r \in Requests : Provider!Lookup(r)

RolloutNext == ControlStep \/ GatewayStep

RolloutSpec == RolloutInit /\ [][RolloutNext]_<<vars, gateway, changes>>

-----------------------------------------------------------------------------
(***************************************************************************)
(* Properties                                                              *)
(***************************************************************************)

\* The version a lookup has returned, 0 if none.
Returned(r) == IF res[r].rev = 0 THEN 0 ELSE changes[host[r]][res[r].rev].version

\* The n-th answer for x was an older version of the policy of id, or is no
\* version of it.
NotNewer(x, n, id) ==
  LET old == changes[x][n].version
  IN old # 0 /\ PolicyOf(old) = PolicyOf(id) => Row(old).version <= Row(id).version

\* The gateway's variables have their types, and the last recorded answer
\* is the one the tables give.
RolloutTypeOK ==
  /\ Provider!TypeOK
  /\ \A x \in Asked :
       ApiAnswer(x) = IF changes[x] = <<>> THEN 0 ELSE changes[x][Len(changes[x])].version

\* A lookup never returns an older version of a policy than one an earlier
\* lookup of that host returned, though publications commit while answers
\* are under way and the app is disabled and its policy replaced meanwhile.
ServedForward ==
  \A r \in Requests : res[r].rev # 0 =>
    \A n \in 1 .. floor[r] : NotNewer(host[r], n, Returned(r))

\* A publication reaches the gateway within the TTL: a lookup answered as
\* fresh, at time t, returns no older version of a policy than the ones the
\* API served at t - TTL or before.
RolloutBounded ==
  \A r \in Requests : res[r].kind = "found" =>
    \A n \in DOMAIN changes[host[r]] :
      changes[host[r]][n].at + TTL <= res[r].at => NotNewer(host[r], n, Returned(r))

\* What is served was published and loads: a version the gateway refuses
\* never takes the place of one it has, nor does a policy or an app that is
\* disabled or renamed.
ServedLoads ==
  /\ RolloutTypeOK
  /\ \A r \in Requests :
       /\ res[r].rev # 0 => Row(Returned(r)).snapshot.rules \notin Unloadable
       /\ floor[r] # 0 /\ res[r].kind # "none" => res[r].rev # 0
=============================================================================
