----------------------------- MODULE ControlPlane -----------------------------
(***************************************************************************)
(* The control API: the repository of services/control-api/internal/db    *)
(* and the handlers of internal/httpapi that call it, for the tables apps, *)
(* origins, policies, policy_versions and policy_deployments of one        *)
(* tenant.                                                                 *)
(*                                                                         *)
(* A session is one client with one request in progress.  A repository     *)
(* method is split where another transaction can come between: at BEGIN,   *)
(* at each statement that reads under READ COMMITTED and at COMMIT, which  *)
(* makes all writes of the transaction visible at once.  now() is the time *)
(* of BEGIN; every BEGIN has its own time.                                 *)
(***************************************************************************)
EXTENDS Integers, FiniteSets, FiniteSetsExt, HostNames

CONSTANTS Sessions, Apps, Policies, Origins,
          Hosts,          \* the names gateways ask for, normalized
          Spellings,      \* the texts clients may send as hostnames
          AppOf,          \* the app each policy is created under
          Drafts,         \* documents a client may send as snapshot
          ValidDrafts,    \* those validatePolicySnapshot accepts
          AppPatches,     \* bodies of PATCH /v1/apps/{id} used
          PolicyPatches,  \* bodies of PATCH /v1/policies/{id} used
          MaxClock,       \* bound: number of transactions
          None

Modes == {"count", "block"}

Draft == [mode : Modes \cup {"unset"}, rules : {"r0", "r1", "bad"}]

AppPatch ==
  [hosts : SUBSET Spellings,                      \* empty: not in the body
   status : {"keep", "active", "disabled"},
   origin : Origins \cup {None}]

PolicyPatch ==
  [mode : Modes \cup {"keep"}, enabled : {"keep", "yes", "no"},
   draft : Drafts \cup {None}]

ASSUME ControlPlaneAssumption ==
  /\ AppOf \in [Policies -> Apps]
  /\ Spellings \subseteq Text({t.name : t \in Spellings})
  /\ Drafts \subseteq Draft
  /\ ValidDrafts \subseteq Drafts
  /\ AppPatches \subseteq AppPatch
  /\ PolicyPatches \subseteq PolicyPatch
  /\ MaxClock \in Nat
  /\ None \notin Sessions \cup Origins \cup Drafts

AppRow == [hosts : SUBSET Spellings, status : {"active", "disabled"}]

\* updated is updated_at; active is active_version_id, 0 for NULL.
PolicyRow ==
  [mode : Modes, enabled : {"yes", "no"}, draft : Draft,
   updated : Nat, active : Nat]

Snapshot == [mode : Modes, rules : {"r0", "r1", "bad"}, origin : Origins]

\* version is policy_version_id, 0 when there is no row; at is deployed_at.
DeploymentRow == [version : Nat, at : Nat]

\* A version's id is the time of the transaction that made it.
VersionRow == [id : Nat, version : Nat, mode : Modes, snapshot : Snapshot]

\* None stands for no row.
ASSUME RowAssumption == None \notin AppRow \cup PolicyRow

VARIABLES
  app,        \* apps: row or None
  origins,    \* origins: rows of each app, the soft-deleted ones included
  policy,     \* policies: row or None
  versions,   \* policy_versions: rows of each policy
  deployment, \* policy_deployments: the row of gateway node 'default'
  lock,       \* the transaction that holds the row lock of a policy
  clock,      \* time of the last BEGIN
  pc,         \* where each session is
  target,     \* the policy or app its request is about
  start,      \* now() of its transaction
  token,      \* expected_updated_at it will send, 0: none
  body,       \* the body of its PATCH
  row,        \* the row its method has read
  number,     \* PublishPolicy: the local variable version
  compiled,   \* PublishPolicy: the local variable compiled
  revision,   \* history: commits to each policy row
  seen        \* history: the revision at which token was read

tables == <<app, origins, policy, versions, deployment>>
locals == <<pc, target, start, token, body, row, number, compiled>>
history == <<revision, seen>>
vars == <<tables, lock, clock, locals, history>>

SessionStates ==
  {"ready", "app_update", "patch_lock", "patch_commit",
   "publish", "publish_lock", "compile", "publish_commit"}

TypeOK ==
  /\ app \in [Apps -> AppRow \cup {None}]
  /\ origins \in [Apps -> SUBSET [url : Origins, live : {"yes", "no"}]]
  /\ policy \in [Policies -> PolicyRow \cup {None}]
  /\ versions \in [Policies -> SUBSET VersionRow]
  /\ deployment \in [Policies -> DeploymentRow]
  /\ lock \in [Policies -> Sessions \cup {None}]
  /\ clock \in 0 .. MaxClock
  /\ pc \in [Sessions -> SessionStates]
  /\ target \in [Sessions -> Policies \cup Apps \cup {None}]
  /\ start \in [Sessions -> 0 .. clock]
  /\ token \in [Sessions -> 0 .. clock]
  /\ body \in [Sessions -> AppPatches \cup PolicyPatches \cup {None}]
  /\ row \in [Sessions -> AppRow \cup PolicyRow \cup {None}]
  /\ number \in [Sessions -> Nat]
  /\ compiled \in [Sessions -> Snapshot \cup {None}]
  /\ revision \in [Policies -> Nat]
  /\ seen \in [Sessions -> Nat]

Init ==
  /\ app = [a \in Apps |-> None]
  /\ origins = [a \in Apps |-> {}]
  /\ policy = [p \in Policies |-> None]
  /\ versions = [p \in Policies |-> {}]
  /\ deployment = [p \in Policies |-> [version |-> 0, at |-> 0]]
  /\ lock = [p \in Policies |-> None]
  /\ clock = 0
  /\ pc = [s \in Sessions |-> "ready"]
  /\ target = [s \in Sessions |-> None]
  /\ start = [s \in Sessions |-> 0]
  /\ token = [s \in Sessions |-> 0]
  /\ body = [s \in Sessions |-> None]
  /\ row = [s \in Sessions |-> None]
  /\ number = [s \in Sessions |-> 0]
  /\ compiled = [s \in Sessions |-> None]
  /\ revision = [p \in Policies |-> 0]
  /\ seen = [s \in Sessions |-> 0]

-----------------------------------------------------------------------------
\* Helpers.

\* SELECT ... FOR UPDATE waits for the row lock.  Fault: a plain SELECT.
BugPlainSelect(p) == TRUE
RowFree(p) == lock[p] = None

\* defer tx.Rollback releases the lock, also on ErrConflict.  Fault: the
\* conflict returns without ending the transaction.
BugLeakTransaction(s) == [lock EXCEPT ![target[s]] = s]
LockAfterConflict(s) == lock

\* COALESCE(MAX(version), 0) + 1.
NextVersion(p) == Max({v.version : v \in versions[p]} \cup {0}) + 1

\* getPrimaryOrigin: the rows not soft-deleted.
LiveOrigins(a) == {o \in origins[a] : o.live = "yes"}

\* validatePolicySnapshot in patchPolicy.  Fault: drafts are validated at
\* publication only.
BugDraftNotValidated(d) == d \in Drafts
DraftAccepted(d) == d \in ValidDrafts

\* compileGatewayPolicy: the draft's mode, if any, overrides the policy's.
Compile(r, o) ==
  [mode |-> IF r.draft.mode = "unset" THEN r.mode ELSE r.draft.mode,
   rules |-> r.draft.rules, origin |-> o]

\* The fields a PATCH body leaves out keep the value that was read.
MergeApp(r, b) ==
  [hosts |-> IF b.hosts = {} THEN r.hosts ELSE b.hosts,
   status |-> IF b.status = "keep" THEN r.status ELSE b.status]

MergePolicy(r, b) ==
  [r EXCEPT !.mode = IF b.mode = "keep" THEN @ ELSE b.mode,
            !.enabled = IF b.enabled = "keep" THEN @ ELSE b.enabled,
            !.draft = IF b.draft = None THEN @ ELSE b.draft]

\* The session's method returns; the client may keep its token and send
\* the same PATCH again.
Return(s) ==
  /\ pc' = [pc EXCEPT ![s] = "ready"]
  /\ start' = [start EXCEPT ![s] = 0]
  /\ body' = [body EXCEPT ![s] = None]
  /\ row' = [row EXCEPT ![s] = None]
  /\ number' = [number EXCEPT ![s] = 0]
  /\ compiled' = [compiled EXCEPT ![s] = None]
  /\ UNCHANGED <<target, token, seen>>

Tick ==
  /\ clock < MaxClock
  /\ clock' = clock + 1

-----------------------------------------------------------------------------
\* Apps.

\* insertOrigin: a live row named 'primary'.
NewOrigin(o) == [url |-> o, live |-> "yes"]

\* createApp and CreateApp: one transaction, app and primary origin.
CreateApp(a, hosts, o) ==
  /\ app[a] = None
  /\ HostnamesAccepted(hosts)
  /\ app' = [app EXCEPT ![a] = [hosts |-> hosts, status |-> "active"]]
  /\ origins' = [origins EXCEPT ![a] = {NewOrigin(o)}]
  /\ UNCHANGED <<policy, versions, deployment, lock, clock, locals, history>>

\* patchApp and UpdateApp: GetApp, outside the transaction, and the merge.
UpdateAppRead(s, a, b) ==
  /\ pc[s] = "ready"
  /\ app[a] # None
  /\ b.hosts # {} => HostnamesAccepted(b.hosts)
  /\ pc' = [pc EXCEPT ![s] = "app_update"]
  /\ target' = [target EXCEPT ![s] = a]
  /\ token' = [token EXCEPT ![s] = 0]
  /\ seen' = [seen EXCEPT ![s] = 0]
  /\ body' = [body EXCEPT ![s] = b]
  /\ row' = [row EXCEPT ![s] = MergeApp(app[a], b)]
  /\ UNCHANGED <<tables, lock, clock, start, number, compiled, revision>>

\* UNIQUE (app_id, name): a soft-deleted 'primary' row still has the name.
OriginNameTaken(a) == origins[a] # {}

\* What remains of the origins when insertOrigin fails: the soft delete is
\* rolled back with the rest.  Fault: it was committed on its own.
BugDeleteOutsideTx(a) == {[o EXCEPT !.live = "no"] : o \in origins[a]}
OriginsAfterRollback(a) == origins[a]

\* The transaction of UpdateApp.
UpdateAppCommit(s) ==
  LET a == target[s]
      o == body[s].origin
  IN /\ pc[s] = "app_update"
     /\ IF o # None /\ OriginNameTaken(a)
        THEN /\ origins' = [origins EXCEPT ![a] = OriginsAfterRollback(a)]
             /\ UNCHANGED app
        ELSE /\ app' = [app EXCEPT ![a] = row[s]]
             /\ origins' = [origins EXCEPT ![a] =
                  IF o = None THEN @ ELSE @ \cup {NewOrigin(o)}]
     /\ Return(s)
     /\ UNCHANGED <<policy, versions, deployment, lock, clock, revision>>

-----------------------------------------------------------------------------
\* Policies.

\* createPolicy and CreatePolicy.
CreatePolicy(p, m, d) ==
  /\ policy[p] = None
  /\ app[AppOf[p]] # None
  /\ DraftAccepted(d)
  /\ Tick
  /\ policy' = [policy EXCEPT ![p] =
       [mode |-> m, enabled |-> "yes", draft |-> d,
        updated |-> clock + 1, active |-> 0]]
  /\ revision' = [revision EXCEPT ![p] = 1]
  /\ UNCHANGED <<app, origins, versions, deployment, lock, locals, seen>>

\* getPolicy: the client learns updated_at.
GetPolicy(s, p) ==
  /\ pc[s] = "ready"
  /\ policy[p] # None
  /\ target' = [target EXCEPT ![s] = p]
  /\ token' = [token EXCEPT ![s] = policy[p].updated]
  /\ seen' = [seen EXCEPT ![s] = revision[p]]
  /\ UNCHANGED <<tables, lock, clock, pc, start, body, row, number, compiled,
                 revision>>

\* patchPolicy and UpdatePolicy, up to BEGIN.
UpdatePolicyBegin(s, b) ==
  /\ pc[s] = "ready"
  /\ token[s] # 0
  /\ b.draft # None => DraftAccepted(b.draft)
  /\ Tick
  /\ pc' = [pc EXCEPT ![s] = "patch_lock"]
  /\ start' = [start EXCEPT ![s] = clock + 1]
  /\ body' = [body EXCEPT ![s] = b]
  /\ UNCHANGED <<tables, lock, target, token, row, number, compiled, history>>

\* The optimistic lock.  Fault: an older row is taken for unmodified.
BugNotNewer(s) == policy[target[s]].updated <= token[s]
Unmodified(s) == policy[target[s]].updated = token[s]

UpdatePolicyConflict(s) ==
  /\ pc[s] = "patch_lock"
  /\ RowFree(target[s])
  /\ ~Unmodified(s)
  /\ lock' = LockAfterConflict(s)
  /\ Return(s)
  /\ UNCHANGED <<tables, clock, revision>>

UpdatePolicyLock(s) ==
  /\ pc[s] = "patch_lock"
  /\ RowFree(target[s])
  /\ Unmodified(s)
  /\ lock' = [lock EXCEPT ![target[s]] = s]
  /\ pc' = [pc EXCEPT ![s] = "patch_commit"]
  /\ row' = [row EXCEPT ![s] = MergePolicy(policy[target[s]], body[s])]
  /\ UNCHANGED <<tables, clock, target, start, token, body, number, compiled, history>>

UpdatePolicyCommit(s) ==
  LET p == target[s]
  IN /\ pc[s] = "patch_commit"
     /\ policy' = [policy EXCEPT ![p] =
          [row[s] EXCEPT !.updated = start[s], !.active = policy[p].active]]
     /\ lock' = [lock EXCEPT ![p] = None]
     /\ revision' = [revision EXCEPT ![p] = @ + 1]
     /\ Return(s)
     /\ UNCHANGED <<app, origins, versions, deployment, clock>>

-----------------------------------------------------------------------------
\* Publication.

\* publishPolicy: the draft is read and validated before the transaction.
PublishCheck(s, p) ==
  /\ pc[s] = "ready"
  /\ policy[p] # None
  /\ policy[p].draft \in ValidDrafts
  /\ pc' = [pc EXCEPT ![s] = "publish"]
  /\ target' = [target EXCEPT ![s] = p]
  /\ token' = [token EXCEPT ![s] = 0]
  /\ seen' = [seen EXCEPT ![s] = 0]
  /\ UNCHANGED <<tables, lock, clock, start, body, row, number, compiled,
                 revision>>

PublishBegin(s) ==
  /\ pc[s] = "publish"
  /\ Tick
  /\ pc' = [pc EXCEPT ![s] = "publish_lock"]
  /\ start' = [start EXCEPT ![s] = clock + 1]
  /\ UNCHANGED <<tables, lock, target, token, body, row, number, compiled, history>>

\* getPolicyForUpdate and the query for the next version number.
PublishLock(s) ==
  LET p == target[s]
  IN /\ pc[s] = "publish_lock"
     /\ RowFree(p)
     /\ lock' = [lock EXCEPT ![p] = s]
     /\ pc' = [pc EXCEPT ![s] = "compile"]
     /\ row' = [row EXCEPT ![s] = policy[p]]
     /\ number' = [number EXCEPT ![s] = NextVersion(p)]
     /\ UNCHANGED <<tables, clock, target, start, token, body, compiled, history>>

\* compileGatewayPolicy with getPrimaryOrigin.
PublishCompile(s) ==
  /\ pc[s] = "compile"
  /\ \E o \in LiveOrigins(AppOf[target[s]]) :
       compiled' = [compiled EXCEPT ![s] = Compile(row[s], o.url)]
  /\ pc' = [pc EXCEPT ![s] = "publish_commit"]
  /\ UNCHANGED <<tables, lock, clock, target, start, token, body, row, number, history>>

\* ON CONFLICT (policy_id, gateway_node_id) DO UPDATE.  Fault: DO NOTHING.
BugKeepDeployment(s) ==
  IF deployment[target[s]].version = 0
  THEN [version |-> start[s], at |-> start[s]]
  ELSE deployment[target[s]]
NewDeployment(s) == [version |-> start[s], at |-> start[s]]

\* The three writes and COMMIT.
PublishCommit(s) ==
  LET p == target[s]
  IN /\ pc[s] = "publish_commit"
     /\ \A v \in versions[p] : v.version # number[s]  \* UNIQUE, else Abort
     /\ versions' = [versions EXCEPT ![p] = @ \cup
          {[id |-> start[s], version |-> number[s], mode |-> row[s].mode,
            snapshot |-> compiled[s]]}]
     /\ policy' = [policy EXCEPT ![p].active = start[s], ![p].updated = start[s]]
     /\ deployment' = [deployment EXCEPT ![p] = NewDeployment(s)]
     /\ lock' = [lock EXCEPT ![p] = None]
     /\ revision' = [revision EXCEPT ![p] = @ + 1]
     /\ Return(s)
     /\ UNCHANGED <<app, origins, clock>>

\* Any statement may fail, or the client's context be cancelled: the
\* deferred Rollback ends the transaction.
Abort(s) ==
  /\ pc[s] # "ready"
  /\ lock' = [p \in Policies |-> IF lock[p] = s THEN None ELSE lock[p]]
  /\ Return(s)
  /\ UNCHANGED <<tables, clock, revision>>

-----------------------------------------------------------------------------
\* Reads by the gateway.

\* lower(hostname) = lower($1): a hostname is stored as it was spelled, and
\* getGatewayPolicy has lowered and trimmed the one it asks for.  Fault:
\* without lower.
BugSpelledExactly(h, t) == t = Plain(h)
SameHost(h, t) == Lower(t) = Plain(h)

\* GetGatewayPolicyByHostname: the rows of the join.
Serving(h) ==
  {p \in Policies :
     /\ deployment[p].version # 0
     /\ app[AppOf[p]] # None
     /\ app[AppOf[p]].status = "active"
     /\ \E t \in app[AppOf[p]].hosts : SameHost(h, t)
     /\ policy[p].enabled = "yes"}

\* ORDER BY deployed_at DESC LIMIT 1; 0 stands for ErrNotFound.
NewestDeployed(rows) ==
  IF rows = {} THEN 0
  ELSE LET p == CHOOSE q \in rows :
                  \A r \in rows : deployment[r].at <= deployment[q].at
       IN deployment[p].version

GatewayPolicy(h) == NewestDeployed(Serving(h))

\* GetActivePolicyByApp: the same order, whatever the status of the app.
ActivePolicy(a) ==
  NewestDeployed({p \in Policies :
    /\ AppOf[p] = a /\ deployment[p].version # 0
    /\ policy[p].enabled = "yes"})

-----------------------------------------------------------------------------
Step(s) ==
  \/ UpdateAppCommit(s)
  \/ UpdatePolicyConflict(s) \/ UpdatePolicyLock(s) \/ UpdatePolicyCommit(s)
  \/ PublishBegin(s) \/ PublishLock(s) \/ PublishCompile(s) \/ PublishCommit(s)

Request(s) ==
  \/ \E a \in Apps, b \in AppPatches : UpdateAppRead(s, a, b)
  \/ \E p \in Policies : GetPolicy(s, p) \/ PublishCheck(s, p)
  \/ \E b \in PolicyPatches : UpdatePolicyBegin(s, b)

Create ==
  \/ \E a \in Apps, hosts \in SUBSET Spellings, o \in Origins : CreateApp(a, hosts, o)
  \/ \E p \in Policies, m \in Modes, d \in Drafts : CreatePolicy(p, m, d)

Next ==
  \/ Create
  \/ \E s \in Sessions : Request(s) \/ Step(s) \/ Abort(s)

\* The server runs every request to its end unless it fails, and a row
\* lock passes to the transactions that wait for it.
Fairness ==
  \A s \in Sessions :
    /\ WF_vars(Step(s))
    /\ SF_vars(UpdatePolicyLock(s) \/ UpdatePolicyConflict(s))
    /\ SF_vars(PublishLock(s))

Safety == Init /\ [][Next]_vars

Spec == Safety /\ Fairness

-----------------------------------------------------------------------------
(***************************************************************************)
(* Properties                                                              *)
(***************************************************************************)

\* UpdatePolicy never overwrites a commit its client has not seen: a PATCH
\* that passed the expected_updated_at check changes exactly the revision
\* the client read, though updated_at is the time of BEGIN and may decrease
\* when a publication waited for the row.
NoLostDraft ==
  \A s \in Sessions :
    pc[s] = "patch_commit" => seen[s] = revision[target[s]]

\* From getPolicyForUpdate to COMMIT a publication works on the current
\* draft and on the next free version number, so that it never publishes a
\* draft already replaced nor runs into UNIQUE (policy_id, version).
PublishIsolated ==
  \A s \in Sessions :
    pc[s] \in {"compile", "publish_commit"} =>
      /\ row[s] = policy[target[s]]
      /\ number[s] = NextVersion(target[s])

\* policy_versions.version counts the publications of a policy from 1.
VersionsContiguous ==
  \A p \in Policies :
    {v.version : v \in versions[p]} = 1 .. Cardinality(versions[p])

\* policies.active_version_id and policy_deployments.policy_version_id
\* always name the same version, the one committed last.
PointersAgree ==
  \A p \in Policies : policy[p] # None =>
    /\ policy[p].active = deployment[p].version
    /\ versions[p] # {} =>
         \E v \in versions[p] :
           /\ v.id = policy[p].active
           /\ v.version = Cardinality(versions[p])

\* Whatever overlaps and aborts, the rows of the tables fit together: the
\* versions of a policy are numbered without gaps, and the policy's row and
\* its deployment point to the last of them.
TablesConsistent == TypeOK /\ VersionsContiguous /\ PointersAgree

\* No version holds a draft validatePolicySnapshot rejects, though
\* publishPolicy validates what it read before the transaction and
\* PublishPolicy compiles what it reads in it.
PublishedValid ==
  \A p \in Policies : \A v \in versions[p] :
    \E d \in ValidDrafts : d.rules = v.snapshot.rules

\* Every app has exactly one live origin, also after a PATCH with an
\* origin_url failed half way: getPrimaryOrigin always finds it.
OneLiveOrigin ==
  \A a \in Apps : app[a] # None => Cardinality(LiveOrigins(a)) = 1

\* A deployed policy of an active app is found under each hostname the app
\* was accepted with, however that is capitalised, and under no other.  The
\* exception is a hostname with a port or white space, which
\* validateHostnames accepts and no lookup can find.  Where one app alone
\* answers to a hostname, the gateway's query and the query by app agree.
HostsRouted ==
  /\ \A a \in Apps, h \in Hosts :
       Serving(h) # {} /\ (\A p \in Serving(h) : AppOf[p] = a) =>
         GatewayPolicy(h) = ActivePolicy(a)
  /\ \A p \in Policies, h \in Hosts :
    policy[p] # None /\ deployment[p].version # 0 /\ policy[p].enabled = "yes" =>
      LET owner == app[AppOf[p]]
          spelled == {t \in owner.hosts : NormalizeHost(t) = Plain(h)}
      IN /\ p \in Serving(h) => spelled # {} /\ owner.status = "active"
         /\ owner.status = "active" /\ (\E t \in spelled : t.pad = "no" /\ t.port = "no") =>
              p \in Serving(h)

\* A transaction that waits for a policy row gets it and ends.
TransactionsEnd ==
  \A s \in Sessions :
    pc[s] \in {"patch_lock", "publish_lock"} ~> pc[s] = "ready"

\* Documented: origin_url is a field PATCH /v1/apps/{app_id} can change.
\* A transaction of UpdateApp that got one leaves it live.
OriginReplaced ==
  [][\A s \in Sessions :
       UpdateAppCommit(s) /\ body[s].origin # None =>
         NewOrigin(body[s].origin) \in origins'[target[s]]]_vars
=============================================================================
