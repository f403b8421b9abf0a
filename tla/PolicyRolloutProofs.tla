------------------------- MODULE PolicyRolloutProofs -------------------------
(***************************************************************************)
(* Proofs about the control API's repository, for any number of clients,   *)
(* apps, policies and transactions, and about the control plane and a      *)
(* gateway together, for any number of hosts and lookups.                  *)
(*                                                                         *)
(* The first part is about ControlPlane alone.  The second adds what       *)
(* relates the answers the gateway has seen to the tables; the invariants  *)
(* of its parts are IInv below and that of PolicyProviderProofs.           *)
(***************************************************************************)
EXTENDS PolicyRollout, FiniteSetTheorems, WellFoundedInduction, TLAPS

-----------------------------------------------------------------------------
(***************************************************************************)
(* The repository: the inductive invariant.                                *)
(***************************************************************************)

\* A transaction is open, and the row it is about is locked.
InTransaction == {"patch_lock", "patch_commit", "publish_lock", "compile", "publish_commit"}

\* Where a transaction holds the row lock of its policy.
HoldsRow == {"patch_commit", "compile", "publish_commit"}

\* A row lock is held by the one session that is past SELECT ... FOR UPDATE.
LockInv ==
  /\ \A p \in Policies, s \in Sessions :
       lock[p] = s => pc[s] \in HoldsRow /\ target[s] = p
  /\ \A s \in Sessions : pc[s] \in HoldsRow =>
       target[s] \in Policies /\ lock[target[s]] = s

\* What a session's local variables hold at each place of its method.
LocalInv ==
  \A s \in Sessions :
    /\ pc[s] = "app_update" =>
         target[s] \in Apps /\ app[target[s]] # None /\ row[s] \in AppRow
    /\ pc[s] \in InTransaction \cup {"publish"} \/ token[s] # 0 =>
         target[s] \in Policies /\ policy[target[s]] # None
    /\ pc[s] \in {"patch_lock", "patch_commit"} => token[s] # 0
    /\ pc[s] = "patch_lock" =>
         /\ body[s] \in PolicyPatches
         /\ body[s].draft # None => body[s].draft \in ValidDrafts
    /\ pc[s] = "patch_commit" => row[s] \in PolicyRow /\ row[s].draft \in ValidDrafts
    /\ pc[s] \in {"compile", "publish_commit"} =>
         /\ row[s] = policy[target[s]]
         /\ number[s] = Cardinality(versions[target[s]]) + 1
    /\ pc[s] = "publish_commit" =>
         compiled[s] \in Snapshot /\ compiled[s].rules = row[s].draft.rules

\* now() of an open transaction is no other transaction's, is in no row, and
\* no client has read it.
ClockInv ==
  /\ \A p \in Policies : policy[p] # None => policy[p].updated \in 1 .. clock
  /\ \A s \in Sessions : pc[s] \in InTransaction =>
       /\ start[s] # 0
       /\ \A t \in Sessions : token[t] # start[s]
       /\ \A t \in Sessions : t # s /\ pc[t] \in InTransaction => start[t] # start[s]
       /\ \A p \in Policies : policy[p] # None => policy[p].updated # start[s]

\* Equal times mean that nothing was committed in between.
TokenInv ==
  \A s \in Sessions :
    token[s] # 0 /\ policy[target[s]].updated = token[s] =>
      revision[target[s]] = seen[s]

\* How the rows of the tables depend on each other.
TableInv ==
  /\ \A a \in Apps : app[a] # None =>
       \E o \in Origins : origins[a] = {NewOrigin(o)}
  /\ \A p \in Policies : policy[p] # None =>
       app[AppOf[p]] # None /\ policy[p].draft \in ValidDrafts
  /\ \A p \in Policies : policy[p] = None =>
       versions[p] = {} /\ deployment[p].version = 0
  /\ \A p \in Policies : IsFiniteSet(versions[p])

\* The inductive invariant.
IInv ==
  /\ TypeOK
  /\ LockInv
  /\ LocalInv
  /\ ClockInv
  /\ TokenInv
  /\ TableInv
  /\ VersionsContiguous
  /\ PointersAgree
  /\ PublishedValid
  /\ NoLostDraft

-----------------------------------------------------------------------------
(***************************************************************************)
(* Lemmas about the operators and about one session's step.                *)
(***************************************************************************)

\* A step of session s leaves the local variables of the others alone.
OthersKeep(s) ==
  \A t \in Sessions : t # s =>
    /\ pc'[t] = pc[t] /\ target'[t] = target[t] /\ start'[t] = start[t]
    /\ token'[t] = token[t] /\ body'[t] = body[t] /\ row'[t] = row[t]
    /\ number'[t] = number[t] /\ compiled'[t] = compiled[t] /\ seen'[t] = seen[t]

\* COALESCE(MAX(version), 0) + 1 is the number of versions and one.
LEMMA NextVersionIs ==
  ASSUME IInv, NEW p \in Policies
  PROVE  NextVersion(p) = Cardinality(versions[p]) + 1
<1> DEFINE n == Cardinality(versions[p])
<1>1. n \in Nat
  BY FS_CardinalityType DEF IInv, TableInv
<1>2. {v.version : v \in versions[p]} = 1 .. n
  BY DEF IInv, VersionsContiguous
<1> HIDE DEF n
<1>3. Max(1 .. n \cup {0}) = n
  BY <1>1 DEF Max
<1> QED
  BY <1>2, <1>3 DEF NextVersion, n

\* The merge of a PATCH body with a row is a row.
LEMMA MergeAppType ==
  ASSUME NEW r \in AppRow, NEW b \in AppPatches
  PROVE  MergeApp(r, b) \in AppRow
BY ControlPlaneAssumption DEF AppRow, AppPatch, MergeApp

\* So is the merge of a PATCH body with a policy; its draft was validated,
\* now or when it was stored.
LEMMA MergePolicyType ==
  ASSUME NEW r \in PolicyRow, r.draft \in ValidDrafts, NEW b \in PolicyPatches,
         b.draft # None => b.draft \in ValidDrafts
  PROVE  MergePolicy(r, b) \in PolicyRow /\ MergePolicy(r, b).draft \in ValidDrafts
BY ControlPlaneAssumption DEF PolicyRow, PolicyPatch, MergePolicy

\* A compiled policy holds the rules of the draft.
LEMMA CompileType ==
  ASSUME NEW r \in PolicyRow, NEW o \in Origins
  PROVE  Compile(r, o) \in Snapshot /\ Compile(r, o).rules = r.draft.rules
BY DEF PolicyRow, Draft, Snapshot, Compile, Modes

\* When a method returns, its session is ready and the others are untouched.
LEMMA ReturnFacts ==
  ASSUME NEW s \in Sessions, TypeOK, Return(s)
  PROVE  /\ pc'[s] = "ready" /\ OthersKeep(s)
         /\ UNCHANGED <<target, token, seen>>
         /\ pc' \in [Sessions -> SessionStates]
         /\ start' \in [Sessions -> 0 .. clock]
         /\ body' \in [Sessions -> AppPatches \cup PolicyPatches \cup {None}]
         /\ row' \in [Sessions -> AppRow \cup PolicyRow \cup {None}]
         /\ number' \in [Sessions -> Nat]
         /\ compiled' \in [Sessions -> Snapshot \cup {None}]
<1>1. pc'[s] = "ready" /\ UNCHANGED <<target, token, seen>>
  BY DEF TypeOK, Return
<1>2. OthersKeep(s)
  BY DEF TypeOK, Return, OthersKeep
<1>3. start' \in [Sessions -> 0 .. clock]
  BY DEF TypeOK, Return
<1>4. /\ pc' \in [Sessions -> SessionStates]
      /\ body' \in [Sessions -> AppPatches \cup PolicyPatches \cup {None}]
      /\ row' \in [Sessions -> AppRow \cup PolicyRow \cup {None}]
      /\ number' \in [Sessions -> Nat]
      /\ compiled' \in [Sessions -> Snapshot \cup {None}]
  BY DEF TypeOK, Return, SessionStates
<1> QED
  BY <1>1, <1>2, <1>3, <1>4

\* A row that is there has the fields of its table.
LEMMA RowTypes ==
  ASSUME IInv
  PROVE  /\ \A a \in Apps : app[a] # None => app[a] \in AppRow
         /\ \A p \in Policies : policy[p] # None => policy[p] \in PolicyRow
BY DEF IInv, TypeOK

\* The tables' own invariants hold as long as the tables are unchanged.
LEMMA TablesKept ==
  ASSUME IInv, UNCHANGED tables
  PROVE  TableInv' /\ VersionsContiguous' /\ PointersAgree' /\ PublishedValid'
<1>1. TableInv'
  BY DEF IInv, TableInv, tables
<1>2. VersionsContiguous'
  BY DEF IInv, VersionsContiguous, tables
<1>3. PointersAgree' /\ PublishedValid'
  BY DEF IInv, PointersAgree, PublishedValid, tables
<1> QED
  BY <1>1, <1>2, <1>3

\* A session that returns without touching the tables or the clock, and
\* without leaving a lock behind, keeps the invariant.
LEMMA ReturnKeeps ==
  ASSUME NEW s \in Sessions, IInv, Return(s), UNCHANGED <<tables, clock, revision>>,
         lock' \in [Policies -> Sessions \cup {None}],
         \A p \in Policies : lock[p] = s => lock'[p] = None,
         \A p \in Policies : lock[p] # s => lock'[p] = lock[p]
  PROVE  IInv'
<1> USE ControlPlaneAssumption
<1>1. UNCHANGED <<app, origins, policy, versions, deployment, clock, revision>>
  BY DEF tables
<1>2. pc'[s] = "ready" /\ OthersKeep(s) /\ UNCHANGED <<target, token, seen>>
  BY ReturnFacts DEF IInv
<1>3. TypeOK'
  BY <1>1, <1>2, ReturnFacts DEF IInv, TypeOK
<1>4. LockInv'
  BY <1>1, <1>2, SMTT(30) DEF IInv, TypeOK, LockInv, HoldsRow, OthersKeep
<1>5. LocalInv'
  BY <1>1, <1>2 DEF IInv, LocalInv, InTransaction, OthersKeep
<1>6. ClockInv'
  BY <1>1, <1>2 DEF IInv, ClockInv, InTransaction, OthersKeep
<1>7. TokenInv' /\ NoLostDraft'
  BY <1>1, <1>2 DEF IInv, TokenInv, NoLostDraft, OthersKeep
<1> QED
  BY <1>3, <1>4, <1>5, <1>6, <1>7, TablesKept DEF IInv

-----------------------------------------------------------------------------
(***************************************************************************)
(* Every action keeps the invariant.                                       *)
(***************************************************************************)

\* Initially there are no rows and no transactions.
LEMMA InitInv == Init => IInv
<1> SUFFICES ASSUME Init PROVE IInv
  OBVIOUS
<1> USE ControlPlaneAssumption DEF Init
<1>1. TypeOK
  BY DEF TypeOK, SessionStates, DeploymentRow
<1>2. LockInv /\ LocalInv /\ ClockInv /\ TokenInv /\ NoLostDraft
  BY DEF LockInv, HoldsRow, LocalInv, InTransaction, ClockInv, TokenInv, NoLostDraft
<1>3. TableInv
  BY FS_EmptySet DEF TableInv
<1>4. VersionsContiguous
  <2>1. \A p \in Policies : Cardinality(versions[p]) = 0
    BY FS_EmptySet
  <2> QED
    BY <2>1 DEF VersionsContiguous
<1>5. PointersAgree /\ PublishedValid
  BY DEF PointersAgree, PublishedValid
<1> QED
  BY <1>1, <1>2, <1>3, <1>4, <1>5 DEF IInv

\* createApp adds an app and its origin.
LEMMA CreateAppInv ==
  ASSUME NEW a \in Apps, NEW hosts \in SUBSET Spellings, NEW o \in Origins,
         IInv, CreateApp(a, hosts, o)
  PROVE  IInv'
<1> USE ControlPlaneAssumption, RowAssumption
<1>1. UNCHANGED <<policy, versions, deployment, lock, clock, locals, history>>
  BY DEF CreateApp
<1>2. /\ app'[a] \in AppRow /\ origins'[a] = {NewOrigin(o)}
      /\ \A c \in Apps : c # a => app'[c] = app[c] /\ origins'[c] = origins[c]
  BY DEF IInv, TypeOK, CreateApp, AppRow
<1>3. TypeOK'
  BY <1>1 DEF IInv, TypeOK, CreateApp, locals, history, AppRow, NewOrigin
<1>4. LockInv' /\ TokenInv' /\ NoLostDraft'
  BY <1>1 DEF IInv, LockInv, TokenInv, NoLostDraft, locals, history
<1>5. LocalInv'
  BY <1>1, <1>2 DEF IInv, LocalInv, locals
<1>6. ClockInv'
  BY <1>1 DEF IInv, ClockInv, locals
<1>7. TableInv'
  BY <1>1, <1>2 DEF IInv, TableInv, locals, history
<1>8. VersionsContiguous' /\ PointersAgree' /\ PublishedValid'
  BY <1>1 DEF IInv, VersionsContiguous, PointersAgree, PublishedValid
<1> QED
  BY <1>3, <1>4, <1>5, <1>6, <1>7, <1>8 DEF IInv

\* patchApp reads and merges, outside any transaction.
LEMMA UpdateAppReadInv ==
  ASSUME NEW s \in Sessions, NEW a \in Apps, NEW b \in AppPatches,
         IInv, UpdateAppRead(s, a, b)
  PROVE  IInv'
<1> USE ControlPlaneAssumption, RowAssumption
<1>1. UNCHANGED <<tables, app, origins, policy, versions, deployment, lock, clock, revision>>
  BY DEF UpdateAppRead, tables
<1>2. /\ pc[s] = "ready" /\ app[a] # None /\ pc'[s] = "app_update" /\ target'[s] = a
      /\ token'[s] = 0 /\ row'[s] = MergeApp(app[a], b)
  BY DEF IInv, TypeOK, UpdateAppRead
<1>3. OthersKeep(s)
  BY DEF IInv, TypeOK, UpdateAppRead, OthersKeep
<1>4. row'[s] \in AppRow
  BY <1>2, RowTypes, MergeAppType
<1>5. TypeOK'
  <2>1. clock \in Nat
    BY DEF IInv, TypeOK
  <2> QED
    BY <1>1, <1>2, <1>4, <2>1 DEF IInv, TypeOK, UpdateAppRead, SessionStates
<1>6. LockInv'
  BY <1>1, <1>2, <1>3 DEF IInv, LockInv, HoldsRow, OthersKeep
<1>7. LocalInv'
  BY <1>1, <1>2, <1>3, <1>4 DEF IInv, LocalInv, InTransaction, OthersKeep
<1>8. ClockInv'
  BY <1>1, <1>2, <1>3 DEF IInv, ClockInv, InTransaction, OthersKeep
<1>9. TokenInv' /\ NoLostDraft'
  BY <1>1, <1>2, <1>3 DEF IInv, TokenInv, NoLostDraft, OthersKeep
<1> QED
  BY <1>1, <1>5, <1>6, <1>7, <1>8, <1>9, TablesKept DEF IInv

\* The transaction of UpdateApp: the app has its origin, which keeps its
\* name, so that a body with an origin changes nothing.
LEMMA UpdateAppCommitInv ==
  ASSUME NEW s \in Sessions, IInv, UpdateAppCommit(s)
  PROVE  IInv'
<1> USE ControlPlaneAssumption, RowAssumption
<1> DEFINE a == target[s]
<1>1. /\ a \in Apps /\ app[a] # None /\ row[s] \in AppRow /\ pc[s] = "app_update"
      /\ origins[a] # {}
  <2>1. pc[s] = "app_update" /\ a \in Apps /\ app[a] # None /\ row[s] \in AppRow
    BY DEF IInv, LocalInv, UpdateAppCommit
  <2>2. \E o \in Origins : origins[a] = {NewOrigin(o)}
    BY <2>1 DEF IInv, TableInv
  <2> QED
    BY <2>1, <2>2
<1>2. UNCHANGED <<policy, versions, deployment, lock, clock, revision>>
  BY DEF UpdateAppCommit
<1>3. pc'[s] = "ready" /\ OthersKeep(s) /\ UNCHANGED <<target, token, seen>>
  BY ReturnFacts DEF IInv, UpdateAppCommit
<1>4. UNCHANGED origins
  BY <1>1 DEF IInv, TypeOK, UpdateAppCommit, OriginNameTaken, OriginsAfterRollback
<1>5. /\ app' \in [Apps -> AppRow \cup {None}]
      /\ \A c \in Apps : app[c] # None <=> app'[c] # None
  BY <1>1 DEF IInv, TypeOK, UpdateAppCommit
<1>6. TypeOK'
  BY <1>2, <1>3, <1>4, <1>5, ReturnFacts DEF IInv, TypeOK, UpdateAppCommit
<1>7. LockInv'
  BY <1>1, <1>2, <1>3 DEF IInv, LockInv, HoldsRow, OthersKeep
<1>8. LocalInv'
  BY <1>1, <1>2, <1>3, <1>5 DEF IInv, LocalInv, InTransaction, OthersKeep
<1>9. ClockInv'
  BY <1>1, <1>2, <1>3 DEF IInv, ClockInv, InTransaction, OthersKeep
<1>10. TokenInv' /\ NoLostDraft'
  BY <1>1, <1>2, <1>3 DEF IInv, TokenInv, NoLostDraft, OthersKeep
<1>11. TableInv'
  BY <1>2, <1>4, <1>5 DEF IInv, TableInv
<1>12. VersionsContiguous' /\ PointersAgree' /\ PublishedValid'
  BY <1>2 DEF IInv, VersionsContiguous, PointersAgree, PublishedValid
<1> QED
  BY <1>6, <1>7, <1>8, <1>9, <1>10, <1>11, <1>12 DEF IInv

\* createPolicy adds the first revision of a policy.
LEMMA CreatePolicyInv ==
  ASSUME NEW p \in Policies, NEW m \in Modes, NEW d \in Drafts,
         IInv, CreatePolicy(p, m, d)
  PROVE  IInv'
<1> USE ControlPlaneAssumption, RowAssumption
<1>1. /\ UNCHANGED <<app, origins, versions, deployment, lock, locals, seen>>
      /\ policy[p] = None /\ app[AppOf[p]] # None /\ d \in ValidDrafts
      /\ clock' = clock + 1 /\ clock' \in 0 .. MaxClock /\ clock \in Nat
  BY DEF IInv, TypeOK, CreatePolicy, Tick, DraftAccepted
<1>2. /\ policy'[p] = [mode |-> m, enabled |-> "yes", draft |-> d,
                       updated |-> clock + 1, active |-> 0]
      /\ policy'[p] \in PolicyRow
      /\ \A q \in Policies : q # p => policy'[q] = policy[q] /\ revision'[q] = revision[q]
  BY <1>1 DEF IInv, TypeOK, CreatePolicy, PolicyRow, Modes
<1>3. /\ policy'[p] # None /\ policy'[p].updated = clock + 1 /\ policy'[p].active = 0
      /\ policy'[p].draft = d
  BY <1>2
<1>4. TypeOK'
  <2>1. policy' \in [Policies -> PolicyRow \cup {None}] /\ revision' \in [Policies -> Nat]
    BY <1>2 DEF IInv, TypeOK, CreatePolicy
  <2>2. start' \in [Sessions -> 0 .. clock'] /\ token' \in [Sessions -> 0 .. clock']
    BY <1>1 DEF IInv, TypeOK, locals
  <2> QED
    BY <1>1, <2>1, <2>2 DEF IInv, TypeOK, locals
<1>5. LockInv'
  BY <1>1 DEF IInv, LockInv, locals
<1>6. ASSUME NEW s \in Sessions,
             pc[s] \in InTransaction \cup {"publish"} \/ token[s] # 0
      PROVE  target[s] \in Policies /\ target[s] # p /\ policy'[target[s]] = policy[target[s]]
               /\ revision'[target[s]] = revision[target[s]]
  BY <1>1, <1>2, <1>6 DEF IInv, LocalInv
<1>7. LocalInv'
  BY <1>1, <1>6 DEF IInv, LocalInv, locals, InTransaction
<1>8. ClockInv'
  BY <1>1, <1>2, <1>3 DEF IInv, TypeOK, ClockInv, locals, InTransaction
<1>9. TokenInv' /\ NoLostDraft'
  BY <1>1, <1>6 DEF IInv, TokenInv, NoLostDraft, locals, InTransaction
<1>10. TableInv'
  BY <1>1, <1>2, <1>3 DEF IInv, TableInv
<1>11. VersionsContiguous' /\ PublishedValid'
  BY <1>1 DEF IInv, VersionsContiguous, PublishedValid
<1>12. PointersAgree'
  <2>1. versions[p] = {} /\ deployment[p].version = 0
    BY <1>1 DEF IInv, TableInv
  <2> QED
    BY <1>1, <1>2, <1>3, <2>1 DEF IInv, PointersAgree
<1> QED
  BY <1>4, <1>5, <1>7, <1>8, <1>9, <1>10, <1>11, <1>12 DEF IInv

\* getPolicy hands out a token together with the revision it belongs to.
LEMMA GetPolicyInv ==
  ASSUME NEW s \in Sessions, NEW p \in Policies, IInv, GetPolicy(s, p)
  PROVE  IInv'
<1> USE ControlPlaneAssumption
<1>1. UNCHANGED <<tables, app, origins, policy, versions, deployment, lock, clock, revision, pc>>
  BY DEF GetPolicy, tables
<1>2. /\ pc[s] = "ready" /\ policy[p] # None /\ target'[s] = p
      /\ token'[s] = policy[p].updated /\ seen'[s] = revision[p]
  BY DEF IInv, TypeOK, GetPolicy
<1>3. OthersKeep(s)
  BY DEF IInv, TypeOK, GetPolicy, OthersKeep
<1>4. policy[p].updated \in 1 .. clock
  BY <1>2 DEF IInv, ClockInv
<1>5. TypeOK'
  <2>1. token' \in [Sessions -> 0 .. clock]
    BY <1>2, <1>4 DEF IInv, TypeOK, GetPolicy
  <2>2. seen' \in [Sessions -> Nat]
    BY DEF IInv, TypeOK, GetPolicy
  <2> QED
    BY <1>1, <2>1, <2>2 DEF IInv, TypeOK, GetPolicy
<1>6. LockInv'
  BY <1>1, <1>2, <1>3 DEF IInv, LockInv, HoldsRow, OthersKeep
<1>7. LocalInv'
  BY <1>1, <1>2, <1>3 DEF IInv, LocalInv, InTransaction, OthersKeep
<1>8. ClockInv'
  <2>1. start' = start
    BY DEF GetPolicy
  <2> QED
    BY <1>1, <1>2, <1>3, <2>1 DEF IInv, ClockInv, InTransaction, OthersKeep
<1>9. TokenInv' /\ NoLostDraft'
  BY <1>1, <1>2, <1>3 DEF IInv, TokenInv, NoLostDraft, OthersKeep
<1> QED
  BY <1>1, <1>5, <1>6, <1>7, <1>8, <1>9, TablesKept DEF IInv

\* BEGIN gives a session a time that nobody has.
LEMMA BeginFresh ==
  ASSUME NEW s \in Sessions, IInv, Tick, UNCHANGED <<policy, token>>,
         start' = [start EXCEPT ![s] = clock + 1],
         pc' \in [Sessions -> SessionStates],
         \A t \in Sessions : t # s => pc'[t] = pc[t]
  PROVE  /\ ClockInv' /\ clock' \in 0 .. MaxClock
         /\ start' \in [Sessions -> 0 .. clock'] /\ token' \in [Sessions -> 0 .. clock']
<1>1. clock \in Nat /\ clock' = clock + 1 /\ clock' \in 0 .. MaxClock
  BY ControlPlaneAssumption DEF IInv, TypeOK, Tick
<1>2. start'[s] = clock + 1 /\ \A t \in Sessions : t # s => start'[t] = start[t]
  BY DEF IInv, TypeOK
<1>3. \A t \in Sessions : start[t] \in 0 .. clock /\ token[t] \in 0 .. clock
  BY DEF IInv, TypeOK
<1>4. start' \in [Sessions -> 0 .. clock'] /\ token' \in [Sessions -> 0 .. clock']
  BY <1>1, <1>2, <1>3 DEF IInv, TypeOK
<1>5. \A p \in Policies : policy[p] # None => policy[p].updated \in 1 .. clock
  BY DEF IInv, ClockInv
<1>6. ClockInv'
  BY <1>1, <1>2, <1>3, <1>5 DEF IInv, ClockInv
<1> QED
  BY <1>1, <1>4, <1>6

\* A PATCH begins its transaction.
LEMMA UpdatePolicyBeginInv ==
  ASSUME NEW s \in Sessions, NEW b \in PolicyPatches, IInv, UpdatePolicyBegin(s, b)
  PROVE  IInv'
<1> USE ControlPlaneAssumption
<1>1. UNCHANGED <<tables, app, origins, policy, versions, deployment, lock, token, target, row,
                  number, compiled, revision, seen>>
  BY DEF UpdatePolicyBegin, tables, history
<1>2. /\ pc[s] = "ready" /\ token[s] # 0 /\ pc'[s] = "patch_lock" /\ body'[s] = b
      /\ b.draft # None => b.draft \in ValidDrafts
  BY DEF IInv, TypeOK, UpdatePolicyBegin, DraftAccepted
<1>3. OthersKeep(s)
  BY <1>1 DEF IInv, TypeOK, UpdatePolicyBegin, OthersKeep
<1>4. pc' \in [Sessions -> SessionStates]
  BY DEF IInv, TypeOK, UpdatePolicyBegin, SessionStates
<1>5. /\ ClockInv' /\ clock' \in 0 .. MaxClock
      /\ start' \in [Sessions -> 0 .. clock'] /\ token' \in [Sessions -> 0 .. clock']
  BY <1>1, <1>3, <1>4, BeginFresh DEF UpdatePolicyBegin, OthersKeep
<1>6. TypeOK'
  <2>1. body' \in [Sessions -> AppPatches \cup PolicyPatches \cup {None}]
    BY DEF IInv, TypeOK, UpdatePolicyBegin
  <2> QED
    BY <1>1, <1>4, <1>5, <2>1 DEF IInv, TypeOK
<1>7. LockInv'
  BY <1>1, <1>2, <1>3 DEF IInv, LockInv, HoldsRow, OthersKeep
<1>8. LocalInv'
  BY <1>1, <1>2, <1>3 DEF IInv, LocalInv, InTransaction, OthersKeep
<1>9. TokenInv' /\ NoLostDraft'
  BY <1>1, <1>2, <1>3 DEF IInv, TokenInv, NoLostDraft, OthersKeep
<1> QED
  BY <1>1, <1>5, <1>6, <1>7, <1>8, <1>9, TablesKept DEF IInv

\* A publication begins its transaction.
LEMMA PublishBeginInv ==
  ASSUME NEW s \in Sessions, IInv, PublishBegin(s)
  PROVE  IInv'
<1> USE ControlPlaneAssumption
<1>1. UNCHANGED <<tables, app, origins, policy, versions, deployment, lock, token, target, row,
                  number, compiled, body, revision, seen>>
  BY DEF PublishBegin, tables, history
<1>2. pc[s] = "publish" /\ pc'[s] = "publish_lock"
  BY DEF IInv, TypeOK, PublishBegin
<1>3. OthersKeep(s)
  BY <1>1 DEF IInv, TypeOK, PublishBegin, OthersKeep
<1>4. pc' \in [Sessions -> SessionStates]
  BY DEF IInv, TypeOK, PublishBegin, SessionStates
<1>5. /\ ClockInv' /\ clock' \in 0 .. MaxClock
      /\ start' \in [Sessions -> 0 .. clock'] /\ token' \in [Sessions -> 0 .. clock']
  BY <1>1, <1>3, <1>4, BeginFresh DEF PublishBegin, OthersKeep
<1>6. TypeOK'
  BY <1>1, <1>4, <1>5 DEF IInv, TypeOK
<1>7. LockInv'
  BY <1>1, <1>2, <1>3 DEF IInv, LockInv, HoldsRow, OthersKeep
<1>8. LocalInv'
  BY <1>1, <1>2, <1>3 DEF IInv, LocalInv, InTransaction, OthersKeep
<1>9. TokenInv' /\ NoLostDraft'
  BY <1>1, <1>2, <1>3 DEF IInv, TokenInv, NoLostDraft, OthersKeep
<1> QED
  BY <1>1, <1>5, <1>6, <1>7, <1>8, <1>9, TablesKept DEF IInv

\* publishPolicy validates the draft it reads.
LEMMA PublishCheckInv ==
  ASSUME NEW s \in Sessions, NEW p \in Policies, IInv, PublishCheck(s, p)
  PROVE  IInv'
<1> USE ControlPlaneAssumption
<1>1. UNCHANGED <<tables, app, origins, policy, versions, deployment, lock, clock, start, row,
                  number, compiled, body, revision>>
  BY DEF PublishCheck, tables
<1>2. /\ pc[s] = "ready" /\ policy[p] # None /\ pc'[s] = "publish" /\ target'[s] = p
      /\ token'[s] = 0
  BY DEF IInv, TypeOK, PublishCheck
<1>3. OthersKeep(s)
  BY DEF IInv, TypeOK, PublishCheck, OthersKeep
<1>4. TypeOK'
  <2>1. clock \in Nat
    BY DEF IInv, TypeOK
  <2>2. token' \in [Sessions -> 0 .. clock] /\ seen' \in [Sessions -> Nat]
    BY <2>1 DEF IInv, TypeOK, PublishCheck
  <2> QED
    BY <1>1, <2>2 DEF IInv, TypeOK, PublishCheck, SessionStates
<1>5. LockInv'
  BY <1>1, <1>2, <1>3 DEF IInv, LockInv, HoldsRow, OthersKeep
<1>6. LocalInv'
  BY <1>1, <1>2, <1>3 DEF IInv, LocalInv, InTransaction, OthersKeep
<1>7. ClockInv'
  BY <1>1, <1>2, <1>3 DEF IInv, ClockInv, InTransaction, OthersKeep
<1>8. TokenInv' /\ NoLostDraft'
  BY <1>1, <1>2, <1>3 DEF IInv, TokenInv, NoLostDraft, OthersKeep
<1> QED
  BY <1>1, <1>4, <1>5, <1>6, <1>7, <1>8, TablesKept DEF IInv

\* A PATCH that lost the race ends, and so does a transaction that fails.
LEMMA EndWithoutCommitInv ==
  ASSUME NEW s \in Sessions, IInv, UpdatePolicyConflict(s) \/ Abort(s)
  PROVE  IInv'
<1> USE ControlPlaneAssumption
<1>1. CASE UpdatePolicyConflict(s)
  <2>1. \A p \in Policies : lock[p] # s
    BY <1>1 DEF IInv, LockInv, HoldsRow, UpdatePolicyConflict
  <2> QED
    BY <1>1, <2>1, ReturnKeeps DEF IInv, TypeOK, UpdatePolicyConflict, LockAfterConflict
<1>2. CASE Abort(s)
  <2>1. lock' \in [Policies -> Sessions \cup {None}]
    BY <1>2 DEF IInv, TypeOK, Abort
  <2> QED
    BY <1>2, <2>1, ReturnKeeps DEF Abort
<1> QED
  BY <1>1, <1>2

\* A PATCH locks the row it found unmodified: nobody held it, and the time it
\* carries is that of the revision its client saw.
LEMMA UpdatePolicyLockInv ==
  ASSUME NEW s \in Sessions, IInv, UpdatePolicyLock(s)
  PROVE  IInv'
<1> USE ControlPlaneAssumption
<1> DEFINE p == target[s]
<1>1. UNCHANGED <<tables, app, origins, policy, versions, deployment, clock, start, token, target,
                  number, compiled, body, revision, seen>>
  BY DEF UpdatePolicyLock, tables, history
<1>2. /\ pc[s] = "patch_lock" /\ p \in Policies /\ policy[p] # None /\ token[s] # 0
      /\ body[s] \in PolicyPatches /\ (body[s].draft # None => body[s].draft \in ValidDrafts)
  BY DEF IInv, LocalInv, InTransaction, UpdatePolicyLock
<1>3. lock[p] = None /\ policy[p].updated = token[s]
  BY DEF UpdatePolicyLock, RowFree, Unmodified
<1>4. /\ pc'[s] = "patch_commit" /\ row'[s] = MergePolicy(policy[p], body[s])
      /\ lock'[p] = s /\ \A q \in Policies : q # p => lock'[q] = lock[q]
  BY <1>2 DEF IInv, TypeOK, UpdatePolicyLock
<1>5. OthersKeep(s)
  BY <1>1 DEF IInv, TypeOK, UpdatePolicyLock, OthersKeep
<1>6. row'[s] \in PolicyRow /\ row'[s].draft \in ValidDrafts
  <2>1. policy[p] \in PolicyRow /\ policy[p].draft \in ValidDrafts
    BY <1>2, RowTypes DEF IInv, TableInv
  <2> QED
    BY <1>2, <1>4, <2>1, MergePolicyType
<1>7. TypeOK'
  <2>1. lock' \in [Policies -> Sessions \cup {None}]
    BY <1>2 DEF IInv, TypeOK, UpdatePolicyLock
  <2>2. row' \in [Sessions -> AppRow \cup PolicyRow \cup {None}]
    BY <1>4, <1>6 DEF IInv, TypeOK, UpdatePolicyLock
  <2>3. pc' \in [Sessions -> SessionStates]
    BY DEF IInv, TypeOK, UpdatePolicyLock, SessionStates
  <2> QED
    BY <1>1, <2>1, <2>2, <2>3 DEF IInv, TypeOK
<1>8. LockInv'
  BY <1>1, <1>2, <1>3, <1>4, <1>5 DEF IInv, LockInv, HoldsRow, OthersKeep
<1>9. LocalInv'
  BY <1>1, <1>2, <1>4, <1>5, <1>6 DEF IInv, LocalInv, InTransaction, OthersKeep
<1>10. ClockInv'
  BY <1>1, <1>2, <1>4, <1>5 DEF IInv, ClockInv, InTransaction, OthersKeep
<1>11. TokenInv'
  BY <1>1 DEF IInv, TokenInv
<1>12. NoLostDraft'
  BY <1>1, <1>2, <1>3, <1>4, <1>5 DEF IInv, TokenInv, NoLostDraft, OthersKeep
<1> QED
  BY <1>1, <1>7, <1>8, <1>9, <1>10, <1>11, <1>12, TablesKept DEF IInv

\* A publication locks the row and numbers the version.
LEMMA PublishLockInv ==
  ASSUME NEW s \in Sessions, IInv, PublishLock(s)
  PROVE  IInv'
<1> USE ControlPlaneAssumption
<1> DEFINE p == target[s]
<1>1. UNCHANGED <<tables, app, origins, policy, versions, deployment, clock, start, token, target,
                  compiled, body, revision, seen>>
  BY DEF PublishLock, tables, history
<1>2. pc[s] = "publish_lock" /\ p \in Policies /\ policy[p] # None /\ lock[p] = None
  BY DEF IInv, LocalInv, InTransaction, PublishLock, RowFree
<1>3. /\ pc'[s] = "compile" /\ row'[s] = policy[p] /\ number'[s] = NextVersion(p)
      /\ lock'[p] = s /\ \A q \in Policies : q # p => lock'[q] = lock[q]
  BY <1>2 DEF IInv, TypeOK, PublishLock
<1>4. OthersKeep(s)
  BY <1>1 DEF IInv, TypeOK, PublishLock, OthersKeep
<1>5. NextVersion(p) = Cardinality(versions[p]) + 1 /\ NextVersion(p) \in Nat
  BY <1>2, NextVersionIs, FS_CardinalityType DEF IInv, TableInv
<1>6. TypeOK'
  <2>1. lock' \in [Policies -> Sessions \cup {None}]
    BY <1>2 DEF IInv, TypeOK, PublishLock
  <2>2. row' \in [Sessions -> AppRow \cup PolicyRow \cup {None}]
    BY <1>2 DEF IInv, TypeOK, PublishLock
  <2>3. number' \in [Sessions -> Nat]
    BY <1>5 DEF IInv, TypeOK, PublishLock
  <2>4. pc' \in [Sessions -> SessionStates]
    BY DEF IInv, TypeOK, PublishLock, SessionStates
  <2> QED
    BY <1>1, <2>1, <2>2, <2>3, <2>4 DEF IInv, TypeOK
<1>7. LockInv'
  BY <1>1, <1>2, <1>3, <1>4 DEF IInv, LockInv, HoldsRow, OthersKeep
<1>8. LocalInv'
  BY <1>1, <1>2, <1>3, <1>4, <1>5 DEF IInv, LocalInv, InTransaction, OthersKeep
<1>9. ClockInv'
  BY <1>1, <1>2, <1>3, <1>4 DEF IInv, ClockInv, InTransaction, OthersKeep
<1>10. TokenInv' /\ NoLostDraft'
  BY <1>1, <1>3, <1>4 DEF IInv, TokenInv, NoLostDraft, OthersKeep
<1> QED
  BY <1>1, <1>6, <1>7, <1>8, <1>9, <1>10, TablesKept DEF IInv

\* A publication compiles the row it holds with the app's live origin.
LEMMA PublishCompileInv ==
  ASSUME NEW s \in Sessions, IInv, PublishCompile(s)
  PROVE  IInv'
<1> USE ControlPlaneAssumption
<1> DEFINE p == target[s]
<1>1. UNCHANGED <<tables, app, origins, policy, versions, deployment, lock, clock, start, token,
                  target, row, number, body, revision, seen>>
  BY DEF PublishCompile, tables, history
<1>2. /\ pc[s] = "compile" /\ p \in Policies /\ policy[p] # None /\ row[s] = policy[p]
      /\ pc'[s] = "publish_commit"
  BY DEF IInv, TypeOK, LocalInv, InTransaction, PublishCompile
<1>3. OthersKeep(s)
  BY <1>1 DEF IInv, TypeOK, PublishCompile, OthersKeep
<1>4. PICK o \in LiveOrigins(AppOf[p]) : compiled' = [compiled EXCEPT ![s] = Compile(row[s], o.url)]
  BY DEF PublishCompile
<1>5. o.url \in Origins
  BY <1>2 DEF IInv, TypeOK, LiveOrigins
<1>6. Compile(row[s], o.url) \in Snapshot /\ Compile(row[s], o.url).rules = row[s].draft.rules
  BY <1>2, <1>5, CompileType, RowTypes
<1>7. compiled' \in [Sessions -> Snapshot \cup {None}] /\ compiled'[s] = Compile(row[s], o.url)
  BY <1>4, <1>6 DEF IInv, TypeOK
<1>8. TypeOK'
  <2>1. pc' \in [Sessions -> SessionStates]
    BY DEF IInv, TypeOK, PublishCompile, SessionStates
  <2> QED
    BY <1>1, <1>7, <2>1 DEF IInv, TypeOK
<1>9. LockInv'
  BY <1>1, <1>2, <1>3 DEF IInv, LockInv, HoldsRow, OthersKeep
<1>10. LocalInv'
  BY <1>1, <1>2, <1>3, <1>6, <1>7 DEF IInv, LocalInv, InTransaction, OthersKeep
<1>11. ClockInv'
  BY <1>1, <1>2, <1>3 DEF IInv, ClockInv, InTransaction, OthersKeep
<1>12. TokenInv' /\ NoLostDraft'
  BY <1>1, <1>2, <1>3 DEF IInv, TokenInv, NoLostDraft, OthersKeep
<1> QED
  BY <1>1, <1>8, <1>9, <1>10, <1>11, <1>12, TablesKept DEF IInv

\* COMMIT of a transaction that held the row: the time it leaves in the row
\* is nobody's token, so every token for the row is stale from now on.
LEMMA CommitFacts ==
  ASSUME NEW s \in Sessions, IInv, Return(s), pc[s] \in HoldsRow,
         policy' \in [Policies -> PolicyRow \cup {None}],
         policy'[target[s]] \in PolicyRow, policy'[target[s]].updated = start[s],
         \A q \in Policies : q # target[s] => policy'[q] = policy[q],
         lock' = [lock EXCEPT ![target[s]] = None],
         revision' = [revision EXCEPT ![target[s]] = @ + 1],
         UNCHANGED clock
  PROVE  LockInv' /\ ClockInv' /\ TokenInv' /\ NoLostDraft'
<1> USE ControlPlaneAssumption, RowAssumption
<1> DEFINE p == target[s]
<1>1. p \in Policies /\ lock[p] = s
  BY DEF IInv, LockInv
<1>2. pc'[s] = "ready" /\ OthersKeep(s) /\ UNCHANGED <<target, token, seen>>
  BY ReturnFacts DEF IInv
<1>3. lock'[p] = None /\ \A q \in Policies : q # p => lock'[q] = lock[q]
  BY <1>1 DEF IInv, TypeOK
<1>4. \A q \in Policies : q # p => revision'[q] = revision[q]
  BY <1>1 DEF IInv, TypeOK
<1>5. \A t \in Sessions : t # s /\ pc[t] \in HoldsRow => target[t] \in Policies /\ target[t] # p
  BY <1>1 DEF IInv, LockInv
<1>6. LockInv'
  BY <1>1, <1>2, <1>3, <1>5 DEF IInv, LockInv, HoldsRow, OthersKeep
<1>7. start[s] \in 1 .. clock /\ \A t \in Sessions : token[t] # start[s]
  BY DEF IInv, TypeOK, ClockInv, HoldsRow, InTransaction
<1>8. ClockInv'
  <2>1. \A q \in Policies : policy'[q] # None => policy'[q].updated \in 1 .. clock
    BY <1>7 DEF IInv, ClockInv
  <2>2. ASSUME NEW t \in Sessions, pc'[t] \in InTransaction
        PROVE  /\ start'[t] # 0
               /\ \A u \in Sessions : token'[u] # start'[t]
               /\ \A u \in Sessions : u # t /\ pc'[u] \in InTransaction => start'[u] # start'[t]
               /\ \A q \in Policies : policy'[q] # None => policy'[q].updated # start'[t]
    <3>1. t # s /\ pc[t] \in InTransaction /\ start'[t] = start[t]
      BY <1>2, <2>2 DEF OthersKeep, InTransaction
    <3>2. start[s] # start[t]
      BY <3>1 DEF IInv, ClockInv, HoldsRow, InTransaction
    <3>3. \A u \in Sessions : u # t /\ pc'[u] \in InTransaction =>
            pc[u] \in InTransaction /\ start'[u] = start[u]
      BY <1>2 DEF OthersKeep, InTransaction
    <3> QED
      BY <1>2, <3>1, <3>2, <3>3 DEF IInv, ClockInv
  <2> QED
    BY <2>1, <2>2 DEF ClockInv
<1>9. TokenInv'
  BY <1>1, <1>2, <1>4, <1>7 DEF IInv, LocalInv, TokenInv
<1>10. NoLostDraft'
  BY <1>2, <1>4, <1>5 DEF IInv, NoLostDraft, HoldsRow, OthersKeep
<1> QED
  BY <1>6, <1>8, <1>9, <1>10

\* A PATCH commits the row it merged under the lock.
LEMMA UpdatePolicyCommitInv ==
  ASSUME NEW s \in Sessions, IInv, UpdatePolicyCommit(s)
  PROVE  IInv'
<1> USE ControlPlaneAssumption, RowAssumption
<1> DEFINE p == target[s]
<1>1. UNCHANGED <<app, origins, versions, deployment, clock>>
  BY DEF UpdatePolicyCommit
<1>2. /\ pc[s] = "patch_commit" /\ p \in Policies /\ policy[p] # None /\ lock[p] = s
      /\ row[s] \in PolicyRow /\ row[s].draft \in ValidDrafts
  BY DEF IInv, LocalInv, LockInv, HoldsRow, InTransaction, UpdatePolicyCommit
<1>3. pc'[s] = "ready" /\ OthersKeep(s) /\ UNCHANGED <<target, token, seen>>
  BY ReturnFacts DEF IInv, UpdatePolicyCommit
<1>4. policy[p] \in PolicyRow /\ start[s] \in Nat
  BY <1>2 DEF IInv, TypeOK
<1>5. /\ policy'[p] = [row[s] EXCEPT !.updated = start[s], !.active = policy[p].active]
      /\ \A q \in Policies : q # p => policy'[q] = policy[q]
  BY <1>2 DEF IInv, TypeOK, UpdatePolicyCommit
<1>6. /\ policy'[p] \in PolicyRow /\ policy'[p].updated = start[s]
      /\ policy'[p].active = policy[p].active /\ policy'[p].draft = row[s].draft
  BY <1>2, <1>4, <1>5 DEF PolicyRow
<1>7. /\ policy' \in [Policies -> PolicyRow \cup {None}]
      /\ revision' \in [Policies -> Nat]
      /\ lock' \in [Policies -> Sessions \cup {None}]
  BY <1>2, <1>5, <1>6 DEF IInv, TypeOK, UpdatePolicyCommit
<1>8. TypeOK'
  BY <1>1, <1>3, <1>7, ReturnFacts DEF IInv, TypeOK, UpdatePolicyCommit
<1>9. LockInv' /\ ClockInv' /\ TokenInv' /\ NoLostDraft'
  BY <1>2, <1>5, <1>6, <1>7, CommitFacts DEF UpdatePolicyCommit, HoldsRow
<1>10. \A t \in Sessions : t # s /\ pc[t] \in HoldsRow => target[t] # p
  BY <1>2 DEF IInv, LockInv
<1>11. LocalInv'
  BY <1>1, <1>2, <1>3, <1>5, <1>6, <1>10 DEF IInv, LocalInv, HoldsRow, InTransaction, OthersKeep
<1>12. TableInv'
  BY <1>1, <1>2, <1>5, <1>6, ZenonT(40) DEF IInv, TableInv
<1>13. VersionsContiguous' /\ PublishedValid'
  BY <1>1 DEF IInv, VersionsContiguous, PublishedValid
<1>14. PointersAgree'
  <2> SUFFICES ASSUME NEW q \in Policies, policy'[q] # None
               PROVE  /\ policy'[q].active = deployment[q].version
                      /\ versions[q] # {} =>
                           \E v \in versions[q] : /\ v.id = policy'[q].active
                                                 /\ v.version = Cardinality(versions[q])
    BY <1>1 DEF PointersAgree
  <2>1. policy[q] # None /\ policy'[q].active = policy[q].active
    BY <1>2, <1>5, <1>6
  <2> QED
    BY <2>1 DEF IInv, PointersAgree
<1> QED
  BY <1>8, <1>9, <1>11, <1>12, <1>13, <1>14 DEF IInv

\* A publication commits: one version more, numbered next, and the policy
\* and its deployment both point to it.
LEMMA PublishCommitInv ==
  ASSUME NEW s \in Sessions, IInv, PublishCommit(s)
  PROVE  IInv'
<1> USE ControlPlaneAssumption, RowAssumption
<1> DEFINE p == target[s]
           n == Cardinality(versions[p])
           v == [id |-> start[s], version |-> number[s], mode |-> row[s].mode,
                 snapshot |-> compiled[s]]
<1>1. UNCHANGED <<app, origins, clock>>
  BY DEF PublishCommit
<1>2. /\ pc[s] = "publish_commit" /\ p \in Policies /\ policy[p] # None /\ lock[p] = s
      /\ row[s] = policy[p] /\ number[s] = n + 1
      /\ compiled[s] \in Snapshot /\ compiled[s].rules = row[s].draft.rules
  BY DEF IInv, LocalInv, LockInv, HoldsRow, InTransaction, PublishCommit
<1>3. pc'[s] = "ready" /\ OthersKeep(s) /\ UNCHANGED <<target, token, seen>>
  BY ReturnFacts DEF IInv, PublishCommit
<1>4. /\ policy[p] \in PolicyRow /\ start[s] \in Nat /\ number[s] \in Nat
      /\ policy[p].draft \in ValidDrafts /\ versions[p] \subseteq VersionRow
  BY <1>2 DEF IInv, TypeOK, TableInv
<1>5. /\ policy'[p] = [policy[p] EXCEPT !.active = start[s], !.updated = start[s]]
      /\ \A q \in Policies : q # p => policy'[q] = policy[q]
  BY <1>2 DEF IInv, TypeOK, PublishCommit
<1>6. /\ policy'[p] \in PolicyRow /\ policy'[p].updated = start[s]
      /\ policy'[p].active = start[s] /\ policy'[p].draft = policy[p].draft
  BY <1>4, <1>5 DEF PolicyRow
<1>7. /\ versions'[p] = versions[p] \cup {v}
      /\ \A q \in Policies : q # p => versions'[q] = versions[q]
  BY <1>2 DEF IInv, TypeOK, PublishCommit
<1>8. /\ deployment'[p] = [version |-> start[s], at |-> start[s]]
      /\ \A q \in Policies : q # p => deployment'[q] = deployment[q]
  BY <1>2 DEF IInv, TypeOK, PublishCommit, NewDeployment
<1>9. v \in VersionRow
  BY <1>2, <1>4 DEF VersionRow, PolicyRow
<1>10. /\ policy' \in [Policies -> PolicyRow \cup {None}]
       /\ revision' \in [Policies -> Nat]
       /\ lock' \in [Policies -> Sessions \cup {None}]
  <2>1. policy' = [policy EXCEPT ![p] = policy'[p]]
    BY <1>2, <1>5 DEF IInv, TypeOK, PublishCommit
  <2>2. policy' \in [Policies -> PolicyRow \cup {None}]
    BY <1>6, <2>1 DEF IInv, TypeOK
  <2> QED
    BY <1>2, <2>2 DEF IInv, TypeOK, PublishCommit
<1>11. TypeOK'
  <2>1. versions' \in [Policies -> SUBSET VersionRow]
    BY <1>4, <1>9 DEF IInv, TypeOK, PublishCommit
  <2>2. deployment' \in [Policies -> DeploymentRow]
    BY <1>4 DEF IInv, TypeOK, PublishCommit, NewDeployment, DeploymentRow
  <2> QED
    BY <1>1, <1>3, <1>10, <2>1, <2>2, ReturnFacts DEF IInv, TypeOK, PublishCommit
<1>12. LockInv' /\ ClockInv' /\ TokenInv' /\ NoLostDraft'
  BY <1>1, <1>2, <1>5, <1>6, <1>10, CommitFacts DEF PublishCommit, HoldsRow
<1>13. \A t \in Sessions : t # s /\ pc[t] \in HoldsRow => target[t] # p
  BY <1>2 DEF IInv, LockInv
<1>14. LocalInv'
  <2>1. \A q \in Policies : policy[q] # None => policy'[q] # None
    BY <1>5, <1>6
  <2> QED
    BY <1>1, <1>2, <1>3, <1>5, <1>7, <1>13, <2>1
       DEF IInv, LocalInv, HoldsRow, InTransaction, OthersKeep
<1>15. /\ v \notin versions[p] /\ v.version = n + 1 /\ v.id = start[s]
       /\ v.snapshot.rules = policy[p].draft.rules
  <2>1. v \notin versions[p]
    BY DEF PublishCommit
  <2> QED
    BY <1>2, <2>1
<1>16. IsFiniteSet(versions[p]) /\ n \in Nat /\ {w.version : w \in versions[p]} = 1 .. n
  BY <1>2, FS_CardinalityType DEF IInv, TableInv, VersionsContiguous
<1> HIDE DEF v
<1>17. IsFiniteSet(versions'[p]) /\ Cardinality(versions'[p]) = n + 1
  <2>1. IsFiniteSet(versions[p] \cup {v}) /\ Cardinality(versions[p] \cup {v}) = n + 1
    BY <1>15, <1>16, FS_AddElement
  <2> QED
    BY <1>7, <2>1
<1> HIDE DEF n
<1>18. TableInv'
  <2> SUFFICES ASSUME NEW q \in Policies
               PROVE  /\ policy'[q] # None =>
                           app[AppOf[q]] # None /\ policy'[q].draft \in ValidDrafts
                      /\ policy'[q] = None => versions'[q] = {} /\ deployment'[q].version = 0
                      /\ IsFiniteSet(versions'[q])
    BY <1>1 DEF IInv, TableInv
  <2>1. CASE q = p
    BY <1>2, <1>4, <1>6, <1>17, <2>1 DEF IInv, TableInv
  <2>2. CASE q # p
    BY <1>5, <1>7, <1>8, <2>2 DEF IInv, TableInv
  <2> QED
    BY <2>1, <2>2
<1>19. VersionsContiguous'
  <2>1. {w.version : w \in versions'[p]} = 1 .. n + 1
    <3>1. {w.version : w \in versions'[p]} = {w.version : w \in versions[p]} \cup {n + 1}
      BY <1>7, <1>15
    <3> QED
      BY <1>16, <3>1
  <2> QED
    BY <1>7, <1>17, <2>1 DEF IInv, VersionsContiguous
<1>20. PointersAgree'
  <2> SUFFICES ASSUME NEW q \in Policies, policy'[q] # None
               PROVE  /\ policy'[q].active = deployment'[q].version
                      /\ versions'[q] # {} =>
                           \E w \in versions'[q] : /\ w.id = policy'[q].active
                                                  /\ w.version = Cardinality(versions'[q])
    BY DEF PointersAgree
  <2>1. CASE q = p
    <3>1. policy'[p].active = deployment'[p].version
      BY <1>6, <1>8
    <3>2. v \in versions'[p] /\ v.id = policy'[p].active /\ v.version = Cardinality(versions'[p])
      BY <1>6, <1>7, <1>15, <1>17
    <3> QED
      BY <2>1, <3>1, <3>2
  <2>2. CASE q # p
    <3>1. policy'[q] = policy[q] /\ versions'[q] = versions[q] /\ deployment'[q] = deployment[q]
      BY <1>5, <1>7, <1>8, <2>2
    <3> QED
      BY <3>1 DEF IInv, PointersAgree
  <2> QED
    BY <2>1, <2>2
<1>21. PublishedValid'
  BY <1>4, <1>7, <1>15 DEF IInv, PublishedValid
<1> QED
  BY <1>11, <1>12, <1>14, <1>18, <1>19, <1>20, <1>21 DEF IInv

\* Every step keeps the invariant.
LEMMA NextInv == IInv /\ [Next]_vars => IInv'
<1> SUFFICES ASSUME IInv, [Next]_vars PROVE IInv'
  OBVIOUS
<1>1. CASE Create
  BY <1>1, CreateAppInv, CreatePolicyInv DEF Create
<1>2. ASSUME NEW s \in Sessions, Request(s) PROVE IInv'
  BY <1>2, UpdateAppReadInv, GetPolicyInv, PublishCheckInv, UpdatePolicyBeginInv DEF Request
<1>3. ASSUME NEW s \in Sessions, Step(s) PROVE IInv'
  BY <1>3, UpdateAppCommitInv, EndWithoutCommitInv, UpdatePolicyLockInv, UpdatePolicyCommitInv,
     PublishBeginInv, PublishLockInv, PublishCompileInv, PublishCommitInv DEF Step
<1>4. ASSUME NEW s \in Sessions, Abort(s) PROVE IInv'
  BY <1>4, EndWithoutCommitInv
<1>5. CASE UNCHANGED vars
  <2>1. UNCHANGED <<app, origins, policy, versions, deployment, lock, clock, pc, target, start,
                    token, body, row, number, compiled, revision, seen>>
    BY <1>5 DEF vars, tables, locals, history
  <2>2. TypeOK'
    BY <2>1 DEF IInv, TypeOK
  <2>3. LockInv' /\ LocalInv' /\ ClockInv' /\ TokenInv' /\ NoLostDraft'
    BY <2>1 DEF IInv, LockInv, LocalInv, ClockInv, TokenInv, NoLostDraft
  <2> QED
    BY <2>1, <2>2, <2>3, TablesKept DEF IInv, tables
<1> QED
  BY <1>1, <1>2, <1>3, <1>4, <1>5 DEF Next

-----------------------------------------------------------------------------

\* The invariant holds of the repository.
THEOREM Invariance == Safety => []IInv
<1> QED
  BY InitInv, NextInv, PTL DEF Safety

\* Versions are numbered without gaps, and the policy row and its deployment
\* always point to the last one.
THEOREM TablesConsistentHolds == Safety => []TablesConsistent
<1>1. IInv => TablesConsistent
  BY DEF IInv, TablesConsistent
<1> QED
  BY <1>1, Invariance, PTL

\* A PATCH that passed the expected_updated_at check overwrites exactly the
\* revision its client has read.
THEOREM NoLostDraftHolds == Safety => []NoLostDraft
<1>1. IInv => NoLostDraft
  BY DEF IInv
<1> QED
  BY <1>1, Invariance, PTL

\* From the row lock to COMMIT a publication works on the current draft and
\* the next free number.
THEOREM PublishIsolatedHolds == Safety => []PublishIsolated
<1>1. IInv => PublishIsolated
  BY NextVersionIs DEF IInv, LocalInv, InTransaction, PublishIsolated
<1> QED
  BY <1>1, Invariance, PTL

\* No version holds rules that validatePolicySnapshot rejects.
THEOREM PublishedValidHolds == Safety => []PublishedValid
<1>1. IInv => PublishedValid
  BY DEF IInv
<1> QED
  BY <1>1, Invariance, PTL

\* Every app has exactly one live origin at all times.
THEOREM OneLiveOriginHolds == Safety => []OneLiveOrigin
<1>1. IInv => OneLiveOrigin
  <2> SUFFICES ASSUME IInv, NEW a \in Apps, app[a] # None
               PROVE  Cardinality(LiveOrigins(a)) = 1
    BY DEF OneLiveOrigin
  <2>1. PICK o \in Origins : origins[a] = {NewOrigin(o)}
    BY DEF IInv, TableInv
  <2>2. LiveOrigins(a) = {NewOrigin(o)}
    BY <2>1 DEF LiveOrigins, NewOrigin
  <2> QED
    BY <2>2, FS_Singleton
<1> QED
  BY <1>1, Invariance, PTL

\* A deployed policy of an active app is found under the hostnames the app
\* was accepted with and under no other, and the two queries agree.
THEOREM HostsRoutedHolds == Safety => []HostsRouted
<1>1. IInv => HostsRouted
  <2> SUFFICES ASSUME IInv PROVE HostsRouted
    OBVIOUS
  <2> USE ControlPlaneAssumption
  <2>1. ASSUME NEW a \in Apps, NEW h \in Hosts,
               Serving(h) # {}, \A p \in Serving(h) : AppOf[p] = a
        PROVE  GatewayPolicy(h) = ActivePolicy(a)
    <3>1. Serving(h) = {p \in Policies : /\ AppOf[p] = a /\ deployment[p].version # 0
                                         /\ policy[p].enabled = "yes"}
      BY <2>1 DEF Serving
    <3> QED
      BY <3>1 DEF GatewayPolicy, ActivePolicy
  <2>2. ASSUME NEW p \in Policies, NEW h \in Hosts, policy[p] # None,
               deployment[p].version # 0, policy[p].enabled = "yes"
        PROVE  LET owner == app[AppOf[p]]
                   spelled == {t \in owner.hosts : NormalizeHost(t) = Plain(h)}
               IN /\ p \in Serving(h) => spelled # {} /\ owner.status = "active"
                  /\ owner.status = "active" /\ (\E t \in spelled : t.pad = "no" /\ t.port = "no") =>
                       p \in Serving(h)
    <3>1. AppOf[p] \in Apps /\ app[AppOf[p]] # None /\ app[AppOf[p]] \in AppRow
      BY <2>2, RowTypes DEF IInv, TableInv
    <3>2. \A t \in app[AppOf[p]].hosts : t \in Text({u.name : u \in Spellings})
      BY <3>1 DEF AppRow
    <3>3. \A t \in app[AppOf[p]].hosts :
            /\ Lower(t) = Plain(h) => NormalizeHost(t) = Plain(h)
            /\ NormalizeHost(t) = Plain(h) /\ t.pad = "no" /\ t.port = "no" => Lower(t) = Plain(h)
      BY <3>2 DEF Text, Lower, Trimmed, NormalizeHost, Plain
    <3> QED
      BY <2>2, <3>1, <3>3 DEF Serving, SameHost
  <2> QED
    BY <2>1, <2>2 DEF HostsRouted
<1> QED
  BY <1>1, Invariance, PTL

-----------------------------------------------------------------------------
(***************************************************************************)
(* The control plane and a gateway.                                        *)
(***************************************************************************)

\* PolicyProvider's proofs, with PolicyRollout's substitution.
PP == INSTANCE PolicyProviderProofs WITH
  Hosts <- Asked, NoHost <- None, NoLock <- None,
  MaxClock <- MaxTime, MaxRevision <- MaxChanges,
  clock <- time, locks <- mutex,
  deployments <- [x \in Asked |-> [i \in DOMAIN changes[x] |->
    [at |-> changes[x][i].at, status |-> changes[x][i].status]]]

-----------------------------------------------------------------------------
(***************************************************************************)
(* The composition: the inductive invariant.                               *)
(***************************************************************************)

\* An id names one version of one policy; the transaction that will use it
\* next has not written a row with it.
IdInv ==
  /\ \A p \in Policies : \A v \in versions[p] : v.id \in 1 .. clock
  /\ \A p, q \in Policies : \A v \in versions[p], w \in versions[q] :
       v.id = w.id => p = q /\ v = w
  /\ \A s \in Sessions : pc[s] \in InTransaction =>
       \A p \in Policies : \A v \in versions[p] : v.id # start[s]
  /\ \A p \in Policies : versions[p] = {} => deployment[p].version = 0
  /\ \A p \in Policies : deployment[p].at <= clock

Change == [at : Nat, version : Nat, status : {"usable", "unusable"}]

\* A recorded answer is a stored version, and its status says whether that
\* version loads; or it is 404.
Recorded(c) ==
  /\ c.version = 0 => c.status = "unusable"
  /\ c.version # 0 =>
       \E p \in Policies : \E v \in versions[p] :
         /\ v.id = c.version
         /\ c.status = "usable" <=> v.snapshot.rules \notin Unloadable

\* Of one policy, the second id names no earlier version than the first.
Forward(a, b) ==
  \A p \in Policies : \A v, w \in versions[p] :
    v.id = a /\ w.id = b => v.version <= w.version

\* The answers c, recorded for a host, are in the order of their times and,
\* policy by policy, of their versions.
InOrder(c) ==
  /\ \A i \in 1 .. Len(c) : c[i].at <= time /\ Recorded(c[i])
  /\ \A i, j \in 1 .. Len(c) : i <= j =>
       c[i].at <= c[j].at /\ Forward(c[i].version, c[j].version)

\* The last recorded answer is the one the tables give.
ChangesInv ==
  /\ changes \in [Asked -> Seq(Change)]
  /\ time \in Nat
  /\ \A x \in Asked :
       ApiAnswer(x) = IF changes[x] = <<>> THEN 0 ELSE changes[x][Len(changes[x])].version
  /\ \A x \in Asked : InOrder(changes[x])

\* The inductive invariant.
RolloutInv == IInv /\ IdInv /\ ChangesInv /\ PP!IInv /\ PP!UsableInv

-----------------------------------------------------------------------------
(***************************************************************************)
(* The control plane: ids and answers.                                     *)
(***************************************************************************)

\* A step that writes no version and begins no transaction keeps the ids.
LEMMA SameIds ==
  ASSUME IdInv, UNCHANGED <<versions, deployment>>, clock \in Nat, clock' \in Nat, clock <= clock',
         IInv,
         \A s \in Sessions : pc'[s] \in InTransaction =>
           \/ pc[s] \in InTransaction /\ start'[s] = start[s]
           \/ start'[s] \notin 1 .. clock
  PROVE  IdInv'
<1>1. \A p \in Policies : deployment[p].at \in Nat
  BY DEF IInv, TypeOK, DeploymentRow
<1>2. \A p \in Policies : deployment'[p].at <= clock'
  BY <1>1 DEF IdInv
<1>3. \A p \in Policies : \A v \in versions[p] : v.id \in 1 .. clock'
  BY DEF IdInv
<1>4. \A s \in Sessions : pc'[s] \in InTransaction =>
        \A p \in Policies : \A v \in versions[p] : v.id # start'[s]
  BY DEF IdInv
<1> QED
  BY <1>2, <1>3, <1>4 DEF IdInv

\* COMMIT of a publication writes one version, under the time of its BEGIN.
LEMMA PublishIds ==
  ASSUME IInv, IdInv, NEW s \in Sessions, PublishCommit(s)
  PROVE  IdInv' /\ \A p \in Policies : versions[p] \subseteq versions'[p]
<1> DEFINE p == target[s]
           v == [id |-> start[s], version |-> number[s], mode |-> row[s].mode,
                 snapshot |-> compiled[s]]
<1>1. pc[s] = "publish_commit" /\ pc[s] \in InTransaction /\ p \in Policies
  BY DEF IInv, LockInv, HoldsRow, InTransaction, PublishCommit
<1>2. /\ versions'[p] = versions[p] \cup {v}
      /\ \A q \in Policies : q # p => versions'[q] = versions[q]
  BY <1>1 DEF IInv, TypeOK, PublishCommit
<1>3. /\ deployment'[p] = [version |-> start[s], at |-> start[s]]
      /\ \A q \in Policies : q # p => deployment'[q] = deployment[q]
  BY <1>1 DEF IInv, TypeOK, PublishCommit, NewDeployment
<1>4. pc'[s] = "ready" /\ OthersKeep(s) /\ clock' = clock
  BY ReturnFacts DEF IInv, PublishCommit
<1>5. start[s] \in 1 .. clock /\ clock \in Nat
  BY <1>1 DEF IInv, TypeOK, ClockInv
<1>6. v.id = start[s]
  OBVIOUS
<1> HIDE DEF v
<1>7. \A q \in Policies : \A w \in versions[q] : w.id # v.id
  BY <1>1, <1>6 DEF IdInv
<1>8. \A q \in Policies : \A w \in versions'[q] : w.id \in 1 .. clock'
  BY <1>2, <1>4, <1>5, <1>6 DEF IdInv
<1>9. \A q, r \in Policies : \A w \in versions'[q], u \in versions'[r] : w.id = u.id => q = r /\ w = u
  BY <1>1, <1>2, <1>7 DEF IdInv
<1>10. \A t \in Sessions : pc'[t] \in InTransaction =>
         \A q \in Policies : \A w \in versions'[q] : w.id # start'[t]
  <2> SUFFICES ASSUME NEW t \in Sessions, pc'[t] \in InTransaction
               PROVE  \A q \in Policies : \A w \in versions'[q] : w.id # start'[t]
    OBVIOUS
  <2>1. t # s /\ pc[t] \in InTransaction /\ start'[t] = start[t]
    BY <1>4 DEF OthersKeep, InTransaction
  <2>2. start[t] # start[s]
    BY <1>1, <2>1 DEF IInv, ClockInv
  <2> QED
    BY <1>2, <1>6, <2>1, <2>2 DEF IdInv
<1>11. \A q \in Policies : versions'[q] = {} => deployment'[q].version = 0
  BY <1>2, <1>3 DEF IdInv
<1>12. \A q \in Policies : deployment'[q].at <= clock'
  BY <1>3, <1>4, <1>5 DEF IdInv
<1>13. \A q \in Policies : versions[q] \subseteq versions'[q]
  BY <1>2
<1> QED
  BY <1>8, <1>9, <1>10, <1>11, <1>12, <1>13 DEF IdInv

\* No step loses a version or uses an id twice.
LEMMA NextIds ==
  ASSUME IInv, IdInv, Next
  PROVE  IdInv' /\ \A p \in Policies : versions[p] \subseteq versions'[p]
<1> USE ControlPlaneAssumption
<1>0. /\ clock \in Nat
      /\ pc \in [Sessions -> SessionStates]
      /\ start \in [Sessions -> 0 .. clock]
  BY DEF IInv, TypeOK
<1>1. ASSUME UNCHANGED <<versions, deployment>>,
             clock' = clock \/ clock' = clock + 1,
             \A s \in Sessions : pc'[s] \in InTransaction =>
               \/ pc[s] \in InTransaction /\ start'[s] = start[s]
               \/ start'[s] = clock + 1
      PROVE  IdInv' /\ \A p \in Policies : versions[p] \subseteq versions'[p]
  <2>1. clock' \in Nat /\ clock <= clock' /\ clock + 1 \notin 1 .. clock
    BY <1>0, <1>1
  <2>2. IdInv'
    BY <1>0, <1>1, <2>1, SameIds
  <2> QED
    BY <1>1, <2>2
<1>2. CASE Create
  BY <1>1, <1>2 DEF Create, CreateApp, CreatePolicy, Tick, locals
<1>3. ASSUME NEW s \in Sessions, Request(s) \/ PublishBegin(s)
      PROVE  /\ UNCHANGED <<versions, deployment>>
             /\ clock' = clock \/ clock' = clock + 1
             /\ \A t \in Sessions : pc'[t] \in InTransaction =>
                  \/ pc[t] \in InTransaction /\ start'[t] = start[t]
                  \/ start'[t] = clock + 1
  BY <1>0, <1>3 DEF Request, UpdateAppRead, GetPolicy, PublishCheck, UpdatePolicyBegin, PublishBegin,
       Tick, tables, InTransaction
<1>4. ASSUME NEW s \in Sessions,
             \/ UpdateAppCommit(s) \/ UpdatePolicyConflict(s) \/ UpdatePolicyCommit(s) \/ Abort(s)
      PROVE  /\ UNCHANGED <<versions, deployment>>
             /\ clock' = clock
             /\ \A t \in Sessions : pc'[t] \in InTransaction =>
                  pc[t] \in InTransaction /\ start'[t] = start[t]
  <2>1. Return(s) /\ UNCHANGED <<versions, deployment, clock>>
    BY <1>4 DEF UpdateAppCommit, UpdatePolicyConflict, UpdatePolicyCommit, Abort, tables
  <2>2. pc'[s] = "ready" /\ OthersKeep(s)
    BY <2>1, ReturnFacts DEF IInv
  <2> QED
    BY <2>1, <2>2 DEF OthersKeep, InTransaction
<1>5. ASSUME NEW s \in Sessions, UpdatePolicyLock(s) \/ PublishLock(s) \/ PublishCompile(s)
      PROVE  /\ UNCHANGED <<versions, deployment>>
             /\ clock' = clock
             /\ \A t \in Sessions : pc'[t] \in InTransaction =>
                  pc[t] \in InTransaction /\ start'[t] = start[t]
  BY <1>0, <1>5 DEF UpdatePolicyLock, PublishLock, PublishCompile, tables, InTransaction
<1> QED
  BY <1>1, <1>2, <1>3, <1>4, <1>5, PublishIds DEF Next, Step

\* The natural numbers up to a bound have a greatest one among any of them.
LEMMA Greatest ==
  ASSUME NEW S \in SUBSET Nat, S # {}, NEW n \in Nat, \A x \in S : x <= n
  PROVE  \E x \in S : \A y \in S : y <= x
<1> DEFINE T == {n - x : x \in S}
           R == OpToRel(<, Nat)
           Lt(x, y) == <<x, y>> \in R
<1>1. T \in SUBSET Nat /\ T # {}
  <2>1. \A x \in S : n - x \in Nat
    OBVIOUS
  <2> QED BY <2>1, Zenon
<1>2. \A x, y \in Nat : x < y => Lt(x, y)
  BY Zenon DEF OpToRel
<1>3. IsWellFoundedOn(R, Nat)
  BY NatLessThanWellFounded
<1> HIDE DEF R
<1>4. \E x \in T : \A y \in T : ~Lt(y, x)
  BY <1>1, <1>3, WFMin
<1> HIDE DEF Lt
<1>5. PICK t \in T : \A u \in T : ~(u < t)
  BY <1>1, <1>2, <1>4
<1>6. PICK x \in S : t = n - x
  BY <1>5
<1>7. \A y \in S : ~(n - y < n - x)
  BY <1>5, <1>6
<1> QED
  BY <1>6, <1>7

\* Row and PolicyOf find the version an id names and its policy.
LEMMA RowIs ==
  ASSUME IdInv
  PROVE  \A p \in Policies : \A v \in versions[p] : Row(v.id) = v /\ PolicyOf(v.id) = p
<1> SUFFICES ASSUME NEW p \in Policies, NEW v \in versions[p]
             PROVE  Row(v.id) = v /\ PolicyOf(v.id) = p
  OBVIOUS
<1>1. \A w \in UNION {versions[q] : q \in Policies} : w.id = v.id => w = v
  BY DEF IdInv
<1>2. v \in UNION {versions[q] : q \in Policies}
  OBVIOUS
<1>3. Row(v.id) = v
  BY <1>1, <1>2 DEF Row
<1>4. \A q \in Policies : (\E w \in versions[q] : w.id = v.id) => q = p
  BY DEF IdInv
<1> QED
  BY <1>3, <1>4 DEF PolicyOf

\* What GET /v1/gateway/apps/{hostname}/policy answers is 404 or the last
\* version of a policy.
LEMMA AnswerLatest ==
  ASSUME IInv, IdInv
  PROVE  \A x : ApiAnswer(x) # 0 =>
           \E p \in Policies : \E v \in versions[p] :
             v.id = ApiAnswer(x) /\ v.version = Cardinality(versions[p])
<1> SUFFICES ASSUME NEW x, ApiAnswer(x) # 0
             PROVE  \E p \in Policies : \E v \in versions[p] :
                      v.id = ApiAnswer(x) /\ v.version = Cardinality(versions[p])
  OBVIOUS
<1> DEFINE rows == Serving(x.name)
<1>1. ApiAnswer(x) = NewestDeployed(rows) /\ rows # {}
  BY DEF ApiAnswer, GatewayPolicy, NewestDeployed
<1>2. rows \subseteq Policies /\ \A p \in rows : deployment[p].version # 0
  BY DEF Serving
<1> HIDE DEF rows
<1>3. \A p \in rows : deployment[p].at \in Nat /\ deployment[p].at <= clock
  BY <1>2 DEF IInv, IdInv, TypeOK, DeploymentRow
<1>4. \E q \in rows : \A r \in rows : deployment[r].at <= deployment[q].at
  <2> DEFINE S == {deployment[p].at : p \in rows}
  <2>1. S \in SUBSET Nat /\ S # {} /\ clock \in Nat /\ \A t \in S : t <= clock
    BY <1>1, <1>3, ControlPlaneAssumption DEF IInv, TypeOK
  <2>2. PICK t \in S : \A u \in S : u <= t
    BY <2>1, Greatest
  <2> QED BY <2>2
<1>5. PICK p \in rows : ApiAnswer(x) = deployment[p].version
  <2>1. ApiAnswer(x) =
          deployment[CHOOSE q \in rows : \A r \in rows : deployment[r].at <= deployment[q].at].version
    BY <1>1 DEF NewestDeployed
  <2>2. (CHOOSE q \in rows : \A r \in rows : deployment[r].at <= deployment[q].at) \in rows
    BY <1>4
  <2> QED BY <2>1, <2>2
<1>6. p \in Policies /\ versions[p] # {} /\ policy[p] # None
  BY <1>2, <1>5 DEF IInv, IdInv, TableInv
<1> QED
  BY <1>5, <1>6 DEF IInv, PointersAgree

\* The same, with what Loads says of that version.
AnswersLatest ==
  \A x \in Asked :
    /\ ApiAnswer(x) = 0 => ~Loads(ApiAnswer(x))
    /\ ApiAnswer(x) # 0 =>
         \E p \in Policies : \E v \in versions[p] :
           /\ v.id = ApiAnswer(x) /\ v.version = Cardinality(versions[p])
           /\ Loads(ApiAnswer(x)) <=> v.snapshot.rules \notin Unloadable

\* Every state's answers are such.
LEMMA AnswersLatestHolds == IInv /\ IdInv => AnswersLatest
<1> SUFFICES ASSUME IInv, IdInv, NEW x \in Asked
             PROVE  /\ ApiAnswer(x) = 0 => ~Loads(ApiAnswer(x))
                    /\ ApiAnswer(x) # 0 =>
                         \E p \in Policies : \E v \in versions[p] :
                           /\ v.id = ApiAnswer(x) /\ v.version = Cardinality(versions[p])
                           /\ Loads(ApiAnswer(x)) <=> v.snapshot.rules \notin Unloadable
  BY DEF AnswersLatest
<1>1. CASE ApiAnswer(x) = 0
  BY <1>1 DEF Loads
<1>2. CASE ApiAnswer(x) # 0
  <2>0. PICK p \in Policies : \E v \in versions[p] :
          v.id = ApiAnswer(x) /\ v.version = Cardinality(versions[p])
    BY <1>2, AnswerLatest
  <2>1. PICK v \in versions[p] : v.id = ApiAnswer(x) /\ v.version = Cardinality(versions[p])
    BY <2>0
  <2>2. Row(ApiAnswer(x)) = v
    BY <2>1, RowIs
  <2>3. Loads(ApiAnswer(x)) <=> v.snapshot.rules \notin Unloadable
    BY <1>2, <2>2 DEF Loads
  <2> QED
    BY <1>2, <2>1, <2>3
<1> QED
  BY <1>1, <1>2

\* And those of the next state.
LEMMA AnswersLatestNext == (IInv /\ IdInv => AnswersLatest)'
BY AnswersLatestHolds, PTL

\* Of a policy's versions none is numbered above their number.
NumbersOK ==
  \A p \in Policies : \A v \in versions[p] :
    v.version \in Nat /\ v.id \in Nat /\ v.version <= Cardinality(versions[p])

\* VersionsContiguous has it.
LEMMA NumbersBounded == IInv => NumbersOK
<1> SUFFICES ASSUME IInv, NEW p \in Policies, NEW v \in versions[p]
             PROVE  v.version \in Nat /\ v.id \in Nat /\ v.version <= Cardinality(versions[p])
  BY DEF NumbersOK
<1>1. v \in VersionRow
  BY DEF IInv, TypeOK
<1>2. v.version \in {w.version : w \in versions[p]}
  OBVIOUS
<1>3. v.version \in 1 .. Cardinality(versions[p])
  BY <1>2 DEF IInv, VersionsContiguous
<1>4. Cardinality(versions[p]) \in Nat
  BY FS_CardinalityType DEF IInv, TableInv
<1> QED
  BY <1>1, <1>3, <1>4 DEF VersionRow

\* In the next state too.
LEMMA NumbersBoundedNext == (IInv => NumbersOK)'
BY NumbersBounded, PTL

-----------------------------------------------------------------------------
(***************************************************************************)
(* The recorded answers.                                                   *)
(***************************************************************************)

\* What PolicyProvider sees of the recorded answers.
Image(c) ==
  [x \in Asked |-> [i \in DOMAIN c[x] |-> [at |-> c[x][i].at, status |-> c[x][i].status]]]

\* The image has the length, the times and the statuses of the answers.
LEMMA ImageFacts ==
  ASSUME NEW c \in [Asked -> Seq(Change)]
  PROVE  /\ Image(c) \in [Asked -> Seq(PP!Deployment)]
         /\ \A x \in Asked :
              /\ Len(Image(c)[x]) = Len(c[x])
              /\ \A i \in 1 .. Len(c[x]) :
                   Image(c)[x][i].at = c[x][i].at /\ Image(c)[x][i].status = c[x][i].status
<1> SUFFICES ASSUME NEW x \in Asked
             PROVE  /\ Image(c)[x] \in Seq(PP!Deployment)
                    /\ Len(Image(c)[x]) = Len(c[x])
                    /\ \A i \in 1 .. Len(c[x]) :
                         Image(c)[x][i].at = c[x][i].at /\ Image(c)[x][i].status = c[x][i].status
  BY DEF Image
<1>1. /\ Len(c[x]) \in Nat /\ DOMAIN c[x] = 1 .. Len(c[x])
      /\ \A i \in 1 .. Len(c[x]) : c[x][i] \in Change
  OBVIOUS
<1>2. Image(c)[x] = [i \in 1 .. Len(c[x]) |-> [at |-> c[x][i].at, status |-> c[x][i].status]]
  BY <1>1 DEF Image
<1>3. \A i \in 1 .. Len(c[x]) : [at |-> c[x][i].at, status |-> c[x][i].status] \in PP!Deployment
  BY <1>1 DEF PP!Deployment, PP!Statuses, Change
<1>4. Image(c)[x] \in Seq(PP!Deployment)
  BY <1>1, <1>2, <1>3
<1> QED
  BY <1>1, <1>2, <1>4

\* Recording an answer appends its image.
LEMMA ImageAppend ==
  ASSUME NEW c \in [Asked -> Seq(Change)], NEW d \in [Asked -> Seq(Change)],
         NEW x \in Asked, NEW e \in Change, d[x] = Append(c[x], e)
  PROVE  Image(d)[x] = Append(Image(c)[x], [at |-> e.at, status |-> e.status])
<1>1. /\ Len(c[x]) \in Nat /\ Len(d[x]) = Len(c[x]) + 1
      /\ DOMAIN c[x] = 1 .. Len(c[x]) /\ DOMAIN d[x] = 1 .. Len(c[x]) + 1
      /\ d[x][Len(c[x]) + 1] = e /\ \A i \in 1 .. Len(c[x]) : d[x][i] = c[x][i]
  OBVIOUS
<1>2. Image(c)[x] = [i \in 1 .. Len(c[x]) |-> [at |-> c[x][i].at, status |-> c[x][i].status]]
  BY <1>1 DEF Image
<1>3. Image(d)[x] = [i \in 1 .. Len(c[x]) + 1 |-> [at |-> d[x][i].at, status |-> d[x][i].status]]
  BY <1>1 DEF Image
<1>4. Image(c)[x] \in Seq(PP!Deployment) /\ Len(Image(c)[x]) = Len(c[x])
  BY ImageFacts
<1>5. [at |-> e.at, status |-> e.status] \in PP!Deployment
  BY DEF PP!Deployment, PP!Statuses, Change
<1> QED
  BY <1>1, <1>2, <1>3, <1>4, <1>5

\* The answer e is recorded in the next state and is no earlier version of
\* its policy than any there is.
NewAnswer(e) ==
  /\ e \in Change /\ Recorded(e)'
  /\ \A p \in Policies : \A v, w \in versions'[p] : w.id = e.version => v.version <= w.version

\* A change of the answer is recorded with the version the tables now give.
LEMMA ControlRecords ==
  ASSUME IInv', IdInv', ChangesInv, ControlStep
  PROVE  \A x \in Asked :
           \/ changes'[x] = changes[x] /\ ApiAnswer(x)' = ApiAnswer(x)
           \/ \E e : /\ NewAnswer(e) /\ e.at = time /\ e.version = ApiAnswer(x)'
                     /\ changes'[x] = Append(changes[x], e)
<1> SUFFICES ASSUME NEW x \in Asked, ApiAnswer(x)' # ApiAnswer(x)
             PROVE  \E e : /\ NewAnswer(e) /\ e.at = time /\ e.version = ApiAnswer(x)'
                           /\ changes'[x] = Append(changes[x], e)
  BY DEF ControlStep
<1>1. AnswersLatest'
  BY AnswersLatestNext
<1>2. PICK a : a = ApiAnswer(x)'
  OBVIOUS
<1>3. PICK status : status = IF Loads(ApiAnswer(x))' THEN "usable" ELSE "unusable"
  OBVIOUS
<1> DEFINE e == [at |-> time, version |-> a, status |-> status]
<1>4. changes'[x] = Append(changes[x], e)
  BY <1>2, <1>3 DEF ControlStep
<1>5. time \in Nat /\ status \in {"usable", "unusable"}
  BY <1>3 DEF ChangesInv
<1>6. NewAnswer(e)
  <2>1. CASE a = 0
    <3>1. status = "unusable"
      BY <1>1, <1>2, <1>3, <2>1 DEF AnswersLatest
    <3>2. \A p \in Policies : \A w \in versions'[p] : w.id # 0
      BY DEF IdInv
    <3> QED
      BY <1>5, <2>1, <3>1, <3>2 DEF NewAnswer, Recorded, Change
  <2>2. CASE a # 0
    <3>1. PICK p \in Policies : \E v \in versions'[p] :
            /\ v.id = a /\ v.version = Cardinality(versions'[p])
            /\ status = "usable" <=> v.snapshot.rules \notin Unloadable
      BY <1>1, <1>2, <1>3, <2>2 DEF AnswersLatest
    <3>2. PICK v \in versions'[p] :
            /\ v.id = a /\ v.version = Cardinality(versions'[p])
            /\ status = "usable" <=> v.snapshot.rules \notin Unloadable
      BY <3>1
    <3>3. \A q \in Policies : \A u \in versions'[q] : u.id = a => q = p /\ u = v
      BY <3>2 DEF IdInv
    <3>4. \A u \in versions'[p] : u.version <= v.version
      BY <3>2, NumbersBoundedNext DEF NumbersOK
    <3>5. a \in Nat
      BY <3>2, NumbersBoundedNext DEF NumbersOK
    <3>6. Recorded(e)'
      BY <2>2, <3>2 DEF Recorded
    <3> QED
      BY <1>5, <3>3, <3>4, <3>5, <3>6 DEF NewAnswer, Change
  <2> QED
    BY <2>1, <2>2
<1> QED
  BY <1>2, <1>4, <1>6

\* Versions are only added: what was recorded stays recorded, and in order.
LEMMA RecordsStay ==
  ASSUME IdInv', \A p \in Policies : versions[p] \subseteq versions'[p]
  PROVE  /\ \A c \in Change : Recorded(c) => Recorded(c)'
         /\ \A c, d \in Change : Recorded(c) /\ Recorded(d) /\ Forward(c.version, d.version)
              => Forward(c.version, d.version)'
<1>1. ASSUME NEW c \in Change, Recorded(c) PROVE Recorded(c)'
  BY <1>1 DEF Recorded
<1>2. ASSUME NEW c \in Change, NEW d \in Change, Recorded(c), Recorded(d),
             Forward(c.version, d.version)
      PROVE  Forward(c.version, d.version)'
  <2> SUFFICES ASSUME NEW p \in Policies, NEW v \in versions'[p], NEW w \in versions'[p],
                      v.id = c.version, w.id = d.version
               PROVE  v.version <= w.version
    BY DEF Forward
  <2>1. v.id # 0 /\ w.id # 0
    BY DEF IdInv
  <2>2. v \in versions[p] /\ w \in versions[p]
    BY <1>2, <2>1 DEF Recorded, IdInv
  <2> QED
    BY <1>2, <2>2 DEF Forward
<1> QED
  BY <1>1, <1>2

\* Recorded answers stay in order, ...
LEMMA OrderStays ==
  ASSUME NEW c \in Seq(Change), InOrder(c), IdInv', UNCHANGED time,
         \A p \in Policies : versions[p] \subseteq versions'[p]
  PROVE  InOrder(c)'
<1>1. Len(c) \in Nat /\ \A i \in 1 .. Len(c) : c[i] \in Change /\ Recorded(c[i])
  BY DEF InOrder
<1>2. \A i \in 1 .. Len(c) : Recorded(c[i])'
  BY <1>1, RecordsStay
<1>3. \A i, j \in 1 .. Len(c) : i <= j => Forward(c[i].version, c[j].version)'
  BY <1>1, RecordsStay DEF InOrder
<1> QED
  BY <1>2, <1>3 DEF InOrder

\* ... also when a new answer is recorded at the present time.
LEMMA OrderAppend ==
  ASSUME NEW c \in Seq(Change), InOrder(c), IdInv', UNCHANGED time, time \in Nat,
         \A p \in Policies : versions[p] \subseteq versions'[p],
         NEW e, NewAnswer(e), e.at = time
  PROVE  InOrder(Append(c, e))'
<1>1. /\ \A i \in 1 .. Len(c) : c[i].at <= time /\ Recorded(c[i])'
      /\ \A i, j \in 1 .. Len(c) : i <= j =>
           c[i].at <= c[j].at /\ Forward(c[i].version, c[j].version)'
  BY OrderStays DEF InOrder
<1>2. e \in Change /\ Recorded(e)' /\ \A a : Forward(a, e.version)'
  BY DEF NewAnswer, Forward
<1>3. PICK n \in Nat : n = Len(c)
  OBVIOUS
<1>4. PICK d : d = Append(c, e)
  OBVIOUS
<1>5. Len(d) = n + 1 /\ d[n + 1] = e /\ \A i \in 1 .. n : d[i] = c[i]
  BY <1>2, <1>3, <1>4
<1>6. \A i \in 1 .. n + 1 : i \in 1 .. n \/ i = n + 1
  OBVIOUS
<1>7. \A i \in 1 .. n + 1 : d[i].at <= time /\ Recorded(d[i])'
  BY <1>1, <1>2, <1>3, <1>5, <1>6
<1>8. ASSUME NEW i \in 1 .. n + 1, NEW j \in 1 .. n + 1, i <= j
      PROVE  d[i].at <= d[j].at /\ Forward(d[i].version, d[j].version)'
  <2>1. CASE j = n + 1
    BY <1>2, <1>5, <1>7, <2>1
  <2>2. CASE j # n + 1
    <3>1. i \in 1 .. n /\ j \in 1 .. n
      BY <1>8, <2>2
    <3> QED
      BY <1>1, <1>3, <1>5, <1>8, <3>1
  <2> QED
    BY <2>1, <2>2
<1> QED
  BY <1>4, <1>5, <1>7, <1>8 DEF InOrder

\* A step of the control plane: the gateway sees deployments, and the
\* recorded answers stay in order.
LEMMA ControlKeeps ==
  ASSUME IInv, IdInv, ChangesInv, ControlStep
  PROVE  IInv' /\ IdInv' /\ ChangesInv' /\ PP!Extended
<1>1. Next /\ UNCHANGED <<time, cache, mutex, phase, host, now, reply, res, served, floor>>
  BY DEF ControlStep, gateway
<1>2. IInv'
  BY <1>1, NextInv
<1>3. IdInv' /\ \A p \in Policies : versions[p] \subseteq versions'[p]
  BY <1>1, NextIds
<1>4. \A x \in Asked :
        \/ changes'[x] = changes[x] /\ ApiAnswer(x)' = ApiAnswer(x)
        \/ \E e : /\ NewAnswer(e) /\ e.at = time /\ e.version = ApiAnswer(x)'
                  /\ changes'[x] = Append(changes[x], e)
  BY <1>2, <1>3, ControlRecords
<1>5. /\ changes \in [Asked -> Seq(Change)] /\ time \in Nat
      /\ DOMAIN changes' = Asked /\ changes' = [x \in Asked |-> changes'[x]]
  BY DEF ChangesInv, ControlStep
<1>6. \A x \in Asked : changes'[x] \in Seq(Change)
  <2> SUFFICES ASSUME NEW x \in Asked, changes'[x] # changes[x]
               PROVE  changes'[x] \in Seq(Change)
    BY <1>5
  <2>1. PICK e : NewAnswer(e) /\ changes'[x] = Append(changes[x], e)
    BY <1>4
  <2>2. e \in Change /\ changes[x] \in Seq(Change)
    BY <1>5, <2>1 DEF NewAnswer
  <2> QED
    BY <2>1, <2>2
<1>7. changes' \in [Asked -> Seq(Change)]
  BY <1>5, <1>6
<1>8. ASSUME NEW x \in Asked
      PROVE  /\ ApiAnswer(x)' = IF changes'[x] = <<>> THEN 0
                                ELSE changes'[x][Len(changes'[x])].version
             /\ InOrder(changes[x])'
  <2>1. PICK c : c = changes[x]
    OBVIOUS
  <2>2. PICK d : d = changes'[x]
    OBVIOUS
  <2>3. c \in Seq(Change) /\ Len(c) \in Nat /\ InOrder(c)
    BY <1>5, <2>1 DEF ChangesInv
  <2>4. InOrder(d)' => InOrder(changes[x])'
    BY <2>2 DEF InOrder
  <2>5. CASE d = c /\ ApiAnswer(x)' = ApiAnswer(x)
    <3>1. ApiAnswer(x)' = IF c = <<>> THEN 0 ELSE c[Len(c)].version
      BY <2>1, <2>5 DEF ChangesInv
    <3>2. InOrder(c)'
      BY <1>1, <1>3, <2>3, OrderStays
    <3> QED
      BY <2>2, <2>4, <2>5, <3>1, <3>2
  <2>6. CASE ~(d = c /\ ApiAnswer(x)' = ApiAnswer(x))
    <3>1. PICK e : NewAnswer(e) /\ e.at = time /\ e.version = ApiAnswer(x)' /\ d = Append(c, e)
      BY <1>4, <2>1, <2>2, <2>6
    <3>2. InOrder(d)'
      BY <1>1, <1>3, <1>5, <2>3, <3>1, OrderAppend
    <3>3. d # <<>> /\ d[Len(d)] = e
      <4>1. e \in Change
        BY <3>1 DEF NewAnswer
      <4> QED BY <2>3, <3>1, <4>1
    <3> QED
      BY <2>2, <2>4, <3>1, <3>2, <3>3
  <2> QED
    BY <2>5, <2>6
<1>9. ChangesInv'
  BY <1>1, <1>5, <1>7, <1>8 DEF ChangesInv
<1>10. PP!Extended
  <2>1. Image(changes') \in [Asked -> Seq(PP!Deployment)]
    BY <1>7, ImageFacts
  <2>2. ASSUME NEW x \in Asked
        PROVE  \/ Image(changes')[x] = Image(changes)[x]
               \/ \E status \in PP!Statuses :
                    Image(changes')[x] = Append(Image(changes)[x], [at |-> time, status |-> status])
    <3>1. CASE changes'[x] = changes[x]
      BY <3>1 DEF Image
    <3>2. CASE changes'[x] # changes[x]
      <4>1. PICK e : NewAnswer(e) /\ e.at = time /\ changes'[x] = Append(changes[x], e)
        BY <1>4, <3>2
      <4>2. e \in Change /\ e.status \in PP!Statuses
        BY <4>1 DEF NewAnswer, Change, PP!Statuses
      <4>3. Image(changes')[x] = Append(Image(changes)[x], [at |-> time, status |-> e.status])
        <5>1. PICK c : c = changes
          OBVIOUS
        <5>2. PICK d : d = changes'
          OBVIOUS
        <5>3. /\ c \in [Asked -> Seq(Change)] /\ d \in [Asked -> Seq(Change)]
              /\ d[x] = Append(c[x], e)
          BY <1>5, <1>7, <4>1, <5>1, <5>2
        <5>4. Image(d)[x] = Append(Image(c)[x], [at |-> e.at, status |-> e.status])
          BY ONLY <4>2, <5>3, x \in Asked, ImageAppend
        <5> QED BY <4>1, <5>1, <5>2, <5>4
      <4> QED
        BY <4>2, <4>3
    <3> QED
      BY <3>1, <3>2
  <2> QED
    BY <1>1, <2>1, <2>2 DEF PP!Extended, Image
<1> QED
  BY <1>2, <1>3, <1>9, <1>10

-----------------------------------------------------------------------------
(***************************************************************************)
(* The gateway's steps are PolicyProvider's.                               *)
(***************************************************************************)

\* What PolicyProvider assumes of its constants.
LEMMA ProviderConstants == PP!ProviderAssumption
BY RolloutAssumption DEF PP!ProviderAssumption, PP!FailBehaviors

\* A step of the gateway leaves the tables and the answers alone.
LEMMA GatewayKeeps ==
  ASSUME IInv, IdInv, ChangesInv, GatewayStep, time' \in Nat, time <= time'
  PROVE  IInv' /\ IdInv' /\ ChangesInv'
<1>1. UNCHANGED vars /\ UNCHANGED changes
  BY DEF GatewayStep
<1>2. UNCHANGED <<app, origins, policy, versions, deployment, lock, clock, pc, target, start>>
  BY <1>1 DEF vars, tables, locals
<1>3. IInv'
  BY <1>1, NextInv
<1>4. IdInv'
  BY <1>2 DEF IdInv
<1>5. \A x \in Asked : ApiAnswer(x)' = ApiAnswer(x)
  BY <1>2 DEF ApiAnswer, GatewayPolicy, NewestDeployed, Serving
<1>6. \A x \in Asked : InOrder(changes[x])'
  <2> SUFFICES ASSUME NEW x \in Asked PROVE InOrder(changes[x])'
    OBVIOUS
  <2>1. InOrder(changes[x]) /\ changes[x] \in Seq(Change) /\ time \in Nat
    BY DEF ChangesInv
  <2>2. \A i \in 1 .. Len(changes[x]) : changes[x][i].at \in Nat
    <3>1. \A i \in 1 .. Len(changes[x]) : changes[x][i] \in Change
      BY <2>1
    <3> QED BY <3>1 DEF Change
  <2>3. \A i \in 1 .. Len(changes[x]) : changes[x][i].at <= time'
    BY <2>1, <2>2 DEF InOrder
  <2>4. \A i \in 1 .. Len(changes[x]) : Recorded(changes[x][i])'
    BY <1>1, <1>2, <2>1 DEF InOrder, Recorded
  <2>5. \A i, j \in 1 .. Len(changes[x]) : i <= j =>
          /\ changes[x][i].at <= changes[x][j].at
          /\ Forward(changes[x][i].version, changes[x][j].version)'
    BY <1>1, <1>2, <2>1 DEF InOrder, Forward
  <2> QED
    BY <1>1, <2>3, <2>4, <2>5 DEF InOrder
<1> QED
  BY <1>1, <1>3, <1>4, <1>5, <1>6 DEF ChangesInv

\* A step of a lookup is one of PolicyProvider's.
LEMMA LookupIs ==
  ASSUME NEW r \in Requests, Provider!Lookup(r)
  PROVE  PP!Lookup(r)
<1>1. Provider!Check(r) => PP!Check(r)
  BY DEF Provider!Check, PP!Check, Provider!Fresh, PP!Fresh, Provider!HasEntry, PP!HasEntry,
     Provider!Return, PP!Return
<1>2. Provider!Acquire(r) => PP!Acquire(r)
  BY DEF Provider!Acquire, PP!Acquire, Provider!MutexFree, PP!MutexFree
<1>3. Provider!Recheck(r) => PP!Recheck(r)
  BY DEF Provider!Recheck, PP!Recheck, Provider!RecheckHit, PP!RecheckHit, Provider!Fresh, PP!Fresh,
     Provider!HasEntry, PP!HasEntry, Provider!Return, PP!Return, Provider!Unlock, PP!Unlock
<1>4. Provider!ControlAnswer(r) => PP!ControlAnswer(r)
  BY DEF Provider!ControlAnswer, PP!ControlAnswer, Provider!ActiveRevision, PP!ActiveRevision
<1>5. Provider!FetchSuccess(r) => PP!FetchSuccess(r)
  BY DEF Provider!FetchSuccess, PP!FetchSuccess, Provider!Store, PP!Store, Provider!Expiry,
     PP!Expiry, Provider!Return, PP!Return, Provider!Unlock, PP!Unlock
<1>6. Provider!FetchFailure(r) => PP!FetchFailure(r)
  BY DEF Provider!FetchFailure, PP!FetchFailure, Provider!StaleAvailable, PP!StaleAvailable,
     Provider!HasEntry, PP!HasEntry, Provider!Return, PP!Return, Provider!Unlock, PP!Unlock
<1> QED
  BY <1>1, <1>2, <1>3, <1>4, <1>5, <1>6 DEF Provider!Lookup, PP!Lookup

\* A step of the gateway is one of PolicyProvider's.
LEMMA GatewayIs == ASSUME GatewayStep PROVE PP!Next
<1>1. CASE Provider!Tick
  BY <1>1 DEF Provider!Tick, PP!Tick, PP!Next
<1>2. ASSUME NEW r \in Requests, NEW t \in RequestHosts, Arrive(r, t) PROVE PP!Next
  <2>1. NormalizeHost(t) \in Asked
    BY <1>2 DEF Arrive, Asked
  <2>2. PP!Begin(r, NormalizeHost(t))
    BY <1>2 DEF Arrive, Provider!Begin, PP!Begin, Provider!NoResult, PP!NoResult
  <2> QED
    BY <2>1, <2>2 DEF PP!Next
<1>3. ASSUME NEW r \in Requests, Provider!Lookup(r) PROVE PP!Next
  BY <1>3, LookupIs DEF PP!Next
<1> QED
  BY <1>1, <1>2, <1>3 DEF GatewayStep

\* The clock of the gateway does not go back.
LEMMA TimeForward == ASSUME GatewayStep, time \in Nat PROVE time' \in Nat /\ time <= time'
BY DEF GatewayStep, Arrive, Provider!Tick, Provider!Begin, Provider!Lookup, Provider!Check,
   Provider!Acquire, Provider!Recheck, Provider!ControlAnswer, Provider!FetchSuccess,
   Provider!FetchFailure

-----------------------------------------------------------------------------
(***************************************************************************)
(* The theorems.                                                           *)
(***************************************************************************)

\* Nothing is published and nothing cached.
LEMMA RolloutInitInv == RolloutInit => RolloutInv
<1> SUFFICES ASSUME RolloutInit PROVE RolloutInv
  OBVIOUS
<1>1. Init /\ Provider!Init /\ changes = [x \in Asked |-> <<>>]
  BY DEF RolloutInit
<1>2. IInv
  BY <1>1, InitInv
<1>3. IdInv
  BY <1>1 DEF Init, IdInv, InTransaction
<1>4. ChangesInv
  <2>1. \A x \in Asked : ApiAnswer(x) = 0
    BY <1>1 DEF Init, ApiAnswer, GatewayPolicy, NewestDeployed, Serving
  <2>2. time \in Nat
    BY <1>1 DEF Provider!Init
  <2>3. \A x \in Asked : changes[x] = <<>> /\ Len(changes[x]) = 0
    BY <1>1
  <2>4. \A x \in Asked : InOrder(changes[x])
    BY <2>3 DEF InOrder
  <2>5. changes \in [Asked -> Seq(Change)]
    BY <1>1
  <2> QED
    BY <2>1, <2>2, <2>3, <2>4, <2>5 DEF ChangesInv
<1>5. PP!Init
  BY <1>1 DEF Provider!Init, PP!Init, Provider!NoEntry, PP!NoEntry, Provider!NoResult, PP!NoResult
<1> QED
  BY <1>2, <1>3, <1>4, <1>5, ProviderConstants, PP!InitIInv, PP!InitUsable DEF RolloutInv

\* Every step of either part keeps the invariant.
LEMMA RolloutNextInv ==
  RolloutInv /\ [RolloutNext]_<<vars, gateway, changes>> => RolloutInv'
<1> SUFFICES ASSUME RolloutInv, [RolloutNext]_<<vars, gateway, changes>> PROVE RolloutInv'
  OBVIOUS
<1>0. IInv /\ IdInv /\ ChangesInv /\ PP!IInv /\ PP!UsableInv
  BY DEF RolloutInv
<1>1. CASE ControlStep
  <2>1. IInv' /\ IdInv' /\ ChangesInv' /\ PP!Extended
    BY <1>0, <1>1, ControlKeeps
  <2>2. PP!IInv' /\ PP!UsableInv'
    BY <1>0, <2>1, ProviderConstants, PP!ExtendedKeeps, PP!ExtendedUsable
  <2> QED
    BY <2>1, <2>2 DEF RolloutInv
<1>2. CASE GatewayStep
  <2>1. IInv' /\ IdInv' /\ ChangesInv'
    BY <1>0, <1>2, TimeForward, GatewayKeeps DEF ChangesInv
  <2>2. PP!IInv' /\ PP!UsableInv'
    BY <1>0, <1>2, ProviderConstants, GatewayIs, PP!NextIInv, PP!NextUsable
  <2> QED
    BY <2>1, <2>2 DEF RolloutInv
<1>3. CASE UNCHANGED <<vars, gateway, changes>>
  <2>1. /\ UNCHANGED <<app, policy, versions, deployment, clock, pc, start, time, changes>>
        /\ UNCHANGED vars /\ UNCHANGED gateway
    BY <1>3 DEF vars, tables, locals, gateway
  <2>2. IInv'
    BY <1>0, <2>1, NextInv
  <2>3. IdInv'
    BY <1>0, <2>1 DEF IdInv
  <2>4. \A x \in Asked : ApiAnswer(x)' = ApiAnswer(x)
    BY <2>1 DEF ApiAnswer, GatewayPolicy, NewestDeployed, Serving
  <2>5. ChangesInv'
    BY <1>0, <2>1, <2>4 DEF ChangesInv, InOrder, Recorded, Forward
  <2>6. UNCHANGED PP!vars
    BY <2>1 DEF gateway, PP!vars
  <2> QED
    BY <1>0, <2>2, <2>3, <2>5, <2>6, ProviderConstants, PP!NextIInv, PP!NextUsable DEF RolloutInv
<1> QED
  BY <1>1, <1>2, <1>3 DEF RolloutNext

\* The invariant holds of the control plane and the gateway together.
THEOREM RolloutInvariance == RolloutSpec => []RolloutInv
<1> QED
  BY RolloutInitInv, RolloutNextInv, PTL DEF RolloutSpec

\* A gateway changes nothing in the tables, whenever it asks and whatever
\* becomes of the answer: the composition implements ControlPlane, so all
\* that is proved of the repository holds of it with gateways running.
THEOREM ControlRefinement == RolloutSpec => Safety
<1>1. RolloutInit => Init
  BY DEF RolloutInit
<1>2. [RolloutNext]_<<vars, gateway, changes>> => [Next]_vars
  BY DEF RolloutNext, ControlStep, GatewayStep
<1> QED
  BY <1>1, <1>2, PTL DEF RolloutSpec, Safety

\* What the invariant says of a result: it is one of the recorded answers
\* for its host, a version that loads, and no answer up to it is newer.
LEMMA ResultFacts ==
  ASSUME RolloutInv, NEW r \in Requests, res[r].rev # 0
  PROVE  /\ host[r] \in Asked /\ res[r].kind # "none"
         /\ res[r].rev \in 1 .. Len(changes[host[r]])
         /\ floor[r] \in Nat /\ floor[r] <= res[r].rev
         /\ Row(Returned(r)).snapshot.rules \notin Unloadable
         /\ \A n \in 1 .. res[r].rev : NotNewer(host[r], n, Returned(r))
<1> DEFINE x == host[r]
           k == res[r].rev
           id == changes[x][k].version
<1>0. IInv /\ IdInv /\ ChangesInv /\ PP!IInv /\ PP!UsableInv
  BY DEF RolloutInv
<1>1. res[r].kind # "none" /\ PP!Usable(x, k)
  BY <1>0 DEF PP!UsableInv
<1>2. x \in Asked /\ k >= floor[r]
  BY <1>0, <1>1 DEF PP!IInv, PP!ResultInv
<1>3. floor[r] \in Nat /\ k \in Nat
  BY <1>0 DEF PP!IInv, PP!TypeOK, PP!Result
<1>4. changes \in [Asked -> Seq(Change)] /\ InOrder(changes[x])
  BY <1>0, <1>2 DEF ChangesInv
<1>5. k \in 1 .. Len(Image(changes)[x]) /\ Image(changes)[x][k].status = "usable"
  BY <1>1 DEF PP!Usable, Image
<1>6. k \in 1 .. Len(changes[x]) /\ changes[x][k].status = "usable"
  BY <1>2, <1>4, <1>5, ImageFacts
<1>7. Returned(r) = id
  BY DEF Returned
<1> HIDE DEF id
<1>8. PICK p \in Policies : \E v \in versions[p] : v.id = id /\ v.snapshot.rules \notin Unloadable
  BY <1>4, <1>6 DEF InOrder, Recorded, id
<1>9. PICK v \in versions[p] : v.id = id /\ v.snapshot.rules \notin Unloadable
  BY <1>8
<1>10. Row(id) = v /\ PolicyOf(id) = p
  BY <1>0, <1>9, RowIs
<1>11. ASSUME NEW n \in 1 .. k PROVE NotNewer(x, n, id)
  <2> DEFINE old == changes[x][n].version
  <2>1. n \in 1 .. Len(changes[x]) /\ n <= k
    BY <1>3, <1>4, <1>6, <1>11
  <2>2. Forward(old, id) /\ Recorded(changes[x][n])
    BY <1>4, <1>6, <2>1 DEF InOrder, id
  <2> HIDE DEF old
  <2> SUFFICES ASSUME old # 0, PolicyOf(old) = PolicyOf(id)
               PROVE  Row(old).version <= Row(id).version
    BY DEF NotNewer, old
  <2>3. PICK q \in Policies : \E w \in versions[q] : w.id = old
    BY <2>2 DEF Recorded, old
  <2>4. PICK w \in versions[q] : w.id = old
    BY <2>3
  <2>5. Row(old) = w /\ PolicyOf(old) = q
    BY <1>0, <2>4, RowIs
  <2> QED
    BY <1>9, <1>10, <2>2, <2>4, <2>5 DEF Forward
<1> QED
  BY <1>1, <1>2, <1>3, <1>6, <1>7, <1>9, <1>10, <1>11

\* Provider.Lookup and PublishPolicy together: no lookup returns an older
\* version of a policy than one an earlier lookup of that host returned, for
\* any number of clients publishing and patching while lookups, fetches and
\* answers overlap.
THEOREM ServedForwardHolds == RolloutSpec => []ServedForward
<1>1. RolloutInv => ServedForward
  <2> SUFFICES ASSUME RolloutInv, NEW r \in Requests, res[r].rev # 0, NEW n \in 1 .. floor[r]
               PROVE  NotNewer(host[r], n, Returned(r))
    BY DEF ServedForward
  <2>1. n \in 1 .. res[r].rev
    BY ResultFacts
  <2> QED
    BY <2>1, ResultFacts
<1> QED
  BY <1>1, RolloutInvariance, PTL

\* Lookup's TTL seen from PublishPolicy: a lookup answered as fresh at time t
\* returns no older version of a policy than the API served at t - TTL.
THEOREM RolloutBoundedHolds == RolloutSpec => []RolloutBounded
<1>1. RolloutInv => RolloutBounded
  <2> SUFFICES ASSUME RolloutInv, NEW r \in Requests, res[r].kind = "found",
                      NEW n \in DOMAIN changes[host[r]],
                      changes[host[r]][n].at + TTL <= res[r].at
               PROVE  NotNewer(host[r], n, Returned(r))
    BY DEF RolloutBounded
  <2> DEFINE x == host[r]
             k == res[r].rev
             t == res[r].at
  <2>0. ChangesInv /\ PP!IInv /\ PP!UsableInv
    BY DEF RolloutInv
  <2>1. k # 0
    BY <2>0 DEF PP!UsableInv
  <2>2. x \in Asked /\ k \in 1 .. Len(changes[x])
    BY <2>1, ResultFacts
  <2>3. /\ changes \in [Asked -> Seq(Change)]
        /\ \A i, j \in 1 .. Len(changes[x]) : i <= j => changes[x][i].at <= changes[x][j].at
    BY <2>0, <2>2 DEF ChangesInv, InOrder
  <2>4. n \in 1 .. Len(changes[x]) /\ Len(changes[x]) \in Nat
    BY <2>2, <2>3
  <2>5. t \in Nat /\ TTL \in Nat
    BY <2>0, RolloutAssumption DEF PP!IInv, PP!TypeOK, PP!Result
  <2>6. k < Len(Image(changes)[x]) => Image(changes)[x][k + 1].at >= t - TTL + 1
    BY <2>0 DEF PP!IInv, PP!ResultInv, PP!NotBefore, Image
  <2>7. k + 1 \in 1 .. Len(changes[x]) => changes[x][k + 1].at >= t - TTL + 1
    BY <2>2, <2>3, <2>4, <2>6, ImageFacts
  <2>8. \A i \in 1 .. Len(changes[x]) : changes[x][i].at \in Nat
    <3>1. \A i \in 1 .. Len(changes[x]) : changes[x][i] \in Change
      BY <2>2, <2>3
    <3> QED BY <3>1 DEF Change
  <2>9. n \in 1 .. k
    <3> SUFFICES ASSUME n > k PROVE FALSE
      BY <2>2, <2>4
    <3>1. k + 1 \in 1 .. Len(changes[x]) /\ k + 1 <= n
      BY <2>2, <2>4
    <3>2. changes[x][k + 1].at <= changes[x][n].at
      BY <2>3, <2>4, <3>1
    <3>3. changes[x][k + 1].at \in Nat /\ changes[x][n].at \in Nat
      BY <2>4, <2>8, <3>1
    <3>4. changes[x][k + 1].at >= t - TTL + 1 /\ changes[x][n].at + TTL <= t
      BY <2>7, <3>1
    <3>5. \A a, b, c, d \in Nat : ~(a <= b /\ b + c <= d /\ a >= d - c + 1)
      OBVIOUS
    <3> HIDE DEF t, k, x
    <3> QED
      BY <2>5, <3>2, <3>3, <3>4, <3>5
  <2> QED
    BY <2>1, <2>9, ResultFacts
<1> QED
  BY <1>1, RolloutInvariance, PTL

\* What Lookup returns is a version PublishPolicy stored and toApp accepts,
\* and a host once served is never answered without a policy.
THEOREM ServedLoadsHolds == RolloutSpec => []ServedLoads
<1>1. RolloutInv => ServedLoads
  <2> SUFFICES ASSUME RolloutInv PROVE ServedLoads
    OBVIOUS
  <2>0. ChangesInv /\ PP!IInv /\ PP!UsableInv
    BY DEF RolloutInv
  <2>1. Provider!TypeOK
    BY <2>0 DEF PP!IInv, PP!TypeOK, Provider!TypeOK, PP!Deployment, Provider!Deployment,
       PP!Statuses, Provider!Statuses, PP!Entry, Provider!Entry, PP!Result, Provider!Result,
       PP!Kinds, Provider!Kinds, PP!Phases, Provider!Phases
  <2>2. RolloutTypeOK
    BY <2>0, <2>1 DEF ChangesInv, RolloutTypeOK
  <2>3. ASSUME NEW r \in Requests, floor[r] # 0, res[r].kind # "none" PROVE res[r].rev # 0
    <3>1. res[r].rev >= floor[r]
      BY <2>0, <2>3 DEF PP!IInv, PP!ResultInv
    <3>2. floor[r] \in Nat
      BY <2>0 DEF PP!IInv, PP!TypeOK
    <3> QED
      BY <2>3, <3>1, <3>2
  <2> QED
    BY <2>2, <2>3, ResultFacts DEF ServedLoads
<1> QED
  BY <1>1, RolloutInvariance, PTL
=============================================================================
