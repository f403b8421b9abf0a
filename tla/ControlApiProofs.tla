-------------------------- MODULE ControlApiProofs --------------------------
(***************************************************************************)
(* Proofs about the control API's server, for all tenants, slugs, keys and *)
(* events, any list of requests and every value of the search limits.      *)
(*                                                                         *)
(* Isolation, AccessHeld and AnswerTruthful compare the tables with what   *)
(* they were when the request came in, so they are not inductive: patchApp *)
(* commits in one step and answers in another.  InProgress says what the   *)
(* tables may be like until then.  SearchExact is about one answer of the  *)
(* event store: it rests on the shape of BuildSearchQuery's result, a      *)
(* longest sorted prefix, which Answers describes.  SummaryExact is about  *)
(* one answer too: the loop of BuildSimulationSummary, turn by turn, keeps *)
(* accumulators that tally with the events seen, and the sort and topPaths *)
(* put the entries in the order of their counts.                           *)
(***************************************************************************)
EXTENDS ControlApi, FiniteSetTheorems, WellFoundedInduction, TLAPS

-----------------------------------------------------------------------------
(***************************************************************************)
(* The inductive invariant.                                                *)
(***************************************************************************)

\* Only rows of the tenant the request names differ from what they were.
Confined ==
  \A t \in Tenants : RowsOf(t, db) # RowsOf(t, before) => t = TenantID(req)

\* A request that is being served has changed nothing, but for patchApp
\* after its COMMIT.
InProgress ==
  /\ pc # "idle" => req \in Requests
  /\ pc = "received" => db = before
  /\ pc = "committed" =>
       /\ req.route = "patchApp" /\ Accepted(req) /\ req.id[1] = TenantID(req)
       /\ db # before /\ Confined

\* AnswerTruthful without the types.
Truthful ==
  Answered =>
    /\ reply.status \in 400 .. 499 => db = before
    /\ reply.status \in {200, 201} /\ req.route \in WithBody \cup {"publishPolicy"} =>
         db # before

\* The inductive invariant.
IInv ==
  TypeOK /\ IsFiniteSet(table) /\ InProgress /\ Isolation /\ AccessHeld /\ Truthful

-----------------------------------------------------------------------------
(***************************************************************************)
(* Lemmas.                                                                 *)
(***************************************************************************)

\* requireTenant: a request that passes names one tenant.
LEMMA OneTenant ==
  ASSUME NEW q, TenantGiven(q) PROVE Named(q) = {TenantID(q)} /\ TenantID(q) # ""
BY DEF TenantGiven, TenantID, Named

\* The answers of the handlers.
LEMMA ReplyFields ==
  ASSUME NEW st, NEW ow
  PROVE  /\ [NoReply EXCEPT !.status = st].status = st
         /\ [NoReply EXCEPT !.status = st].owners = {}
         /\ [NoReply EXCEPT !.status = st].rows = <<>>
         /\ [NoReply EXCEPT !.status = st, !.owners = ow].status = st
         /\ [NoReply EXCEPT !.status = st, !.owners = ow].owners = ow
         /\ [NoReply EXCEPT !.status = st, !.owners = ow].rows = <<>>
BY DEF NoReply

\* Tables that differ only in rows of other tenants.
LEMMA OtherTenants ==
  ASSUME NEW t, NEW T, NEW A, NEW P, NEW D, NEW A2, NEW P2, NEW D2,
         \A i : i[1] = t => /\ i \in DOMAIN A2 <=> i \in DOMAIN A
                            /\ i \in DOMAIN A => A2[i] = A[i]
                            /\ i \in DOMAIN P2 <=> i \in DOMAIN P
                            /\ i \in DOMAIN P => P2[i] = P[i]
                            /\ i \in D2 <=> i \in D
  PROVE  RowsOf(t, <<T, A2, P2, D2>>) = RowsOf(t, <<T, A, P, D>>)
<1> DEFINE own(ids) == {i \in ids : i[1] = t}
<1>1. own(DOMAIN A2) = own(DOMAIN A) /\ own(DOMAIN P2) = own(DOMAIN P) /\ own(D2) = own(D)
  OBVIOUS
<1>2. [i \in own(DOMAIN A2) |-> A2[i]] = [i \in own(DOMAIN A) |-> A[i]]
  BY <1>1
<1>3. [i \in own(DOMAIN P2) |-> P2[i]] = [i \in own(DOMAIN P) |-> P[i]]
  BY <1>1
<1> QED
  BY <1>1, <1>2, <1>3 DEF RowsOf

\* None of these is a 4xx.
LEMMA NotClientError ==
  ASSUME NEW x, x = 200 \/ x = 201 \/ x = 500 PROVE ~(x \in 400 .. 499)
OBVIOUS

\* Before the first request.
LEMMA InitHolds == Init => IInv
<1> SUFFICES ASSUME Init PROVE IInv
  OBVIOUS
<1>1. ToSet(reply.rows) = {} /\ reply.status = 0
  BY DEF Init, NoReply, ToSet
<1>5. /\ DOMAIN apps = {} /\ DOMAIN policies = {}
      /\ apps \in [DOMAIN apps -> Nat] /\ policies \in [DOMAIN policies -> Nat]
  BY DEF Init
<1>6. tenants \subseteq Tenants /\ deployed = {} /\ table = {} /\ asked = {}
      /\ pc = "idle" /\ req = None
  BY ControlApiAssumption DEF Init
<1>7. writes \in 0 .. MaxWrites
  <2>1. MaxWrites \in Nat
    BY ControlApiAssumption, Zenon
  <2> QED
    BY <2>1 DEF Init
<1>2. TypeOK
  BY <1>1, <1>5, <1>6, <1>7 DEF TypeOK
<1>3. IsFiniteSet(table)
  BY FS_EmptySet DEF Init
<1>4. InProgress /\ Isolation /\ AccessHeld /\ Truthful
  BY DEF Init, InProgress, Isolation, AccessHeld, Truthful, Answered
<1> QED
  BY <1>2, <1>3, <1>4 DEF IInv

-----------------------------------------------------------------------------
(***************************************************************************)
(* The steps.                                                              *)
(***************************************************************************)

\* A handler that answers and has changed nothing.
LEMMA ReadKeeps ==
  ASSUME IInv, pc = "received", NEW r, Reply(r), UNCHANGED <<db, table, writes>>,
         r.status \in {0, 200, 201, 202, 204, 400, 401, 404, 409, 500, 503},
         ToSet(r.rows) \subseteq asked', asked' \subseteq table,
         r.owners # {} => Accepted(req) /\ req.route \notin Public,
         req.route \in PerTenant => r.owners \subseteq {TenantID(req)},
         r.status \in {200, 201} => req.route \notin WithBody \cup {"publishPolicy"}
  PROVE  IInv'
<1>1. /\ pc' = "answered" /\ reply' = r /\ req' = req /\ before' = before
      /\ tenants' = tenants /\ apps' = apps /\ policies' = policies
      /\ deployed' = deployed /\ table' = table /\ writes' = writes
  BY DEF Reply, db
<1>2. db' = before' /\ req \in Requests
  BY <1>1 DEF IInv, InProgress, db
<1>3. TypeOK'
  BY <1>1, <1>2 DEF IInv, TypeOK
<1>4. InProgress'
  BY <1>1, <1>2 DEF InProgress
<1>5. Isolation'
  <2> SUFFICES ASSUME req.route \in PerTenant, NEW t \in r.owners PROVE Named(req) = {t}
    BY <1>1, <1>2 DEF Isolation
  <2>1. TenantGiven(req) /\ t = TenantID(req)
    BY DEF Accepted
  <2> QED
    BY <2>1, OneTenant, ZenonT(40)
<1>6. AccessHeld'
  BY <1>1, <1>2 DEF AccessHeld, Accepted, Authorized, KeyFor, ForGateway
<1>7. Truthful'
  BY <1>1, <1>2 DEF Truthful
<1> QED
  BY <1>1, <1>3, <1>4, <1>5, <1>6, <1>7 DEF IInv

\* A handler that answers after its write.
LEMMA WriteKeeps ==
  ASSUME IInv, pc = "received", NEW r, Reply(r), Accepted(req), req.route \notin Public,
         r.status \in {200, 201}, r.rows = <<>>,
         req.route \in PerTenant => r.owners \subseteq {TenantID(req)} /\ Confined',
         TypeOK', UNCHANGED <<table, asked>>, db' # db
  PROVE  IInv'
<1>1. /\ pc' = "answered" /\ reply' = r /\ req' = req /\ before' = before
  BY DEF Reply
<1>2. db' # before' /\ req \in Requests
  BY <1>1 DEF IInv, InProgress
<1>3. InProgress'
  BY <1>1, <1>2 DEF InProgress
<1>4. Isolation'
  <2> SUFFICES ASSUME req.route \in PerTenant
               PROVE  /\ \A t \in r.owners : Named(req) = {t}
                      /\ \A t \in Tenants :
                           RowsOf(t, db)' # RowsOf(t, before)' => Named(req) = {t}
    BY <1>1 DEF Isolation
  <2>1. TenantGiven(req)
    BY DEF Accepted
  <2>2. Named(req) = {TenantID(req)} /\ TenantID(req)' = TenantID(req)
    BY <1>1, <2>1, OneTenant DEF TenantID
  <2> QED
    BY <2>2 DEF Confined
<1>5. AccessHeld'
  BY <1>1, <1>2 DEF AccessHeld, Accepted, Authorized, KeyFor, ForGateway
<1>6. Truthful'
  <2>2. reply'.status \notin 400 .. 499
    <3>1. reply'.status = r.status
      BY <1>1, Zenon
    <3>2. r.status = 200 \/ r.status = 201 \/ r.status = 500
      OBVIOUS
    <3>3. r.status \notin 400 .. 499
      BY ONLY <3>2, NotClientError
    <3> QED
      BY ONLY <3>1, <3>3, Zenon
  <2> QED
    BY <1>2, <2>2, Zenon DEF Truthful
<1> QED
  BY <1>1, <1>3, <1>4, <1>5, <1>6 DEF IInv

\* The statuses the handlers answer with.
Statuses == {0, 200, 201, 202, 204, 400, 401, 404, 409, 500, 503}

\* An answer without rows.
LEMMA AnswerKeeps ==
  ASSUME IInv, pc = "received", NEW st \in Statuses, Answer(st),
         UNCHANGED <<db, table, writes, asked>>,
         st \in {200, 201} => req.route \notin WithBody \cup {"publishPolicy"}
  PROVE  IInv'
<1> DEFINE r == [NoReply EXCEPT !.status = st]
<1>1. Reply(r)
  BY DEF Answer
<1>2. r.status = st /\ r.owners = {} /\ r.rows = <<>>
  BY ReplyFields
<1>3. ToSet(r.rows) = {}
  BY <1>2 DEF ToSet
<1>4. asked' = asked /\ asked \subseteq table
  BY DEF IInv, TypeOK
<1> HIDE DEF r
<1> QED
  BY <1>1, <1>2, <1>3, <1>4, ReadKeeps DEF Statuses

\* An answer that shows rows of the tables.
LEMMA ShowKeeps ==
  ASSUME IInv, pc = "received", NEW ow, Show(200, ow), Accepted(req),
         UNCHANGED <<db, table, writes, asked>>, req.route \notin Public,
         req.route \in PerTenant => ow \subseteq {TenantID(req)},
         req.route \notin WithBody \cup {"publishPolicy"}
  PROVE  IInv'
<1> DEFINE r == [NoReply EXCEPT !.status = 200, !.owners = ow]
<1>1. Reply(r)
  BY DEF Show
<1>2. r.status = 200 /\ r.owners = ow /\ r.rows = <<>>
  BY ReplyFields
<1>3. ToSet(r.rows) = {}
  BY <1>2 DEF ToSet
<1> HIDE DEF r
<1> QED
  BY <1>1, <1>2, <1>3, ReadKeeps DEF IInv, TypeOK

\* The mux takes a request.
LEMMA ReceiveKeeps == ASSUME IInv, NEW q \in Requests, Receive(q) PROVE IInv'
<1>1. /\ pc' = "received" /\ req' = q /\ before' = db
      /\ UNCHANGED <<tenants, apps, policies, deployed, table, writes, reply, asked>>
  BY DEF Receive, db
<1>2. TypeOK'
  BY <1>1 DEF IInv, TypeOK
<1>3. InProgress'
  BY <1>1 DEF InProgress, db
<1> QED
  BY <1>1, <1>2, <1>3 DEF IInv, Isolation, AccessHeld, Truthful, Answered

\* The handler has returned.
LEMMA ReturnKeeps == ASSUME IInv, Return PROVE IInv'
<1>1. /\ pc' = "idle" /\ req' = None /\ reply' = NoReply /\ asked' = {}
      /\ UNCHANGED <<tenants, apps, policies, deployed, table, writes, before>>
  BY DEF Return, db
<1>2. ToSet(reply'.rows) = {} /\ reply'.status = 0
  BY <1>1 DEF NoReply, ToSet
<1>3. TypeOK'
  BY <1>1, <1>2 DEF IInv, TypeOK
<1> QED
  BY <1>1, <1>3 DEF IInv, InProgress, Isolation, AccessHeld, Truthful, Answered

\* requireAuth, requireTenant, requireGatewayAuth and the decoders refuse.
LEMMA RefuseKeeps == ASSUME IInv, Refuse PROVE IInv'
<1> DEFINE st == IF Authorized(req) THEN 400 ELSE 401
<1>1. pc = "received" /\ Answer(st) /\ UNCHANGED <<db, table, writes, asked>>
  BY DEF Refuse
<1>2. st \in Statuses /\ st \notin {200, 201}
  BY DEF Statuses
<1> HIDE DEF st
<1> QED
  BY <1>1, <1>2, AnswerKeeps

\* Routes that touch no table.
LEMMA ServeKeeps == ASSUME IInv, Serve PROVE IInv'
<1> DEFINE st == CASE req.route = "options" -> 204
                   [] req.route = "unknown" -> 404
                   [] OTHER -> 200
<1>1. /\ pc = "received" /\ Answer(st) /\ UNCHANGED <<db, table, writes, asked>>
      /\ req.route \in Served
  BY DEF Serve, At
<1>2. st \in Statuses /\ req.route \notin WithBody \cup {"publishPolicy"}
  BY <1>1 DEF Statuses, Served, WithBody
<1> HIDE DEF st
<1> QED
  BY <1>1, <1>2, AnswerKeeps

\* A statement or the event store fails before anything is written.
LEMMA FailKeeps == ASSUME IInv, Fail PROVE IInv'
<1> DEFINE st == CASE req.route = "readyz" -> 503
                   [] req.route \in Searches -> 400
                   [] OTHER -> 500
<1>1. pc = "received" /\ Answer(st) /\ UNCHANGED <<db, table, writes, asked>>
  BY DEF Fail
<1>2. st \in Statuses /\ st \notin {200, 201}
  BY DEF Statuses, Searches
<1> HIDE DEF st
<1> QED
  BY <1>1, <1>2, AnswerKeeps

\* patchApp after COMMIT, and its panic.
LEMMA LateKeeps ==
  ASSUME IInv, pc = "committed", NEW r, Reply(r), UNCHANGED <<db, table, writes, asked>>,
         r.status \in {200, 500}, r.rows = <<>>, r.owners \subseteq {TenantID(req)}
  PROVE  IInv'
<1>1. /\ pc' = "answered" /\ reply' = r /\ req' = req /\ before' = before
      /\ UNCHANGED <<tenants, apps, policies, deployed, table, writes, asked>>
  BY DEF Reply, db
<1>2. /\ req \in Requests /\ req.route = "patchApp" /\ Accepted(req)
      /\ db # before /\ Confined
  BY DEF IInv, InProgress
<1>3. db' # before' /\ req.route \notin Public /\ req.route \in PerTenant
      /\ req.route \notin ForGateway
  BY <1>1, <1>2 DEF db, Public, PerTenant, ForGateway
<1>4. ToSet(r.rows) = {}
  BY DEF ToSet
<1>5. TypeOK'
  BY <1>1, <1>4 DEF IInv, TypeOK
<1>6. InProgress'
  BY <1>1, <1>2 DEF InProgress
<1>7. Named(req) = {TenantID(req)}
  BY <1>2, <1>3, OneTenant DEF Accepted
<1>8. Isolation'
  BY <1>1, <1>2, <1>7 DEF Isolation, Confined, db
<1>9. AccessHeld'
  BY <1>1, <1>2, <1>3 DEF AccessHeld, Accepted, Authorized, KeyFor
<1>10. Truthful'
  <2>2. reply'.status \notin 400 .. 499
    <3>1. reply'.status = r.status
      BY <1>1, Zenon
    <3>2. r.status = 200 \/ r.status = 201 \/ r.status = 500
      OBVIOUS
    <3>3. r.status \notin 400 .. 499
      BY ONLY <3>2, NotClientError
    <3> QED
      BY ONLY <3>1, <3>3, Zenon
  <2> QED
    BY <1>3, <2>2, Zenon DEF Truthful
<1> QED
  BY <1>1, <1>5, <1>6, <1>8, <1>9, <1>10 DEF IInv

\* recoveryMiddleware, also after the commit of patchApp.
LEMMA PanicKeeps == ASSUME IInv, Panic PROVE IInv'
<1>1. Answer(500) /\ UNCHANGED <<db, table, writes, asked>>
  BY DEF Panic
<1>2. CASE pc = "received"
  BY <1>1, <1>2, AnswerKeeps DEF Statuses
<1>3. CASE pc = "committed"
  <2> DEFINE r == [NoReply EXCEPT !.status = 500]
  <2>1. Reply(r) /\ r.status = 500 /\ r.owners = {} /\ r.rows = <<>>
    BY <1>1, ReplyFields DEF Answer
  <2> HIDE DEF r
  <2> QED
    BY <1>1, <1>3, <2>1, LateKeeps
<1> QED
  BY <1>2, <1>3 DEF Panic

\* UpdateApp reads the row again after its commit, and may fail to.
LEMMA PatchAppAnswerKeeps == ASSUME IInv, PatchAppAnswer PROVE IInv'
<1>1. pc = "committed" /\ UNCHANGED <<db, table, writes, asked>>
  BY DEF PatchAppAnswer
<1>2. CASE Show(200, {req.id[1]})
  <2> DEFINE r == [NoReply EXCEPT !.status = 200, !.owners = {req.id[1]}]
  <2>1. Reply(r) /\ r.status = 200 /\ r.owners = {req.id[1]} /\ r.rows = <<>>
    BY <1>2, ReplyFields DEF Show
  <2>2. req.id[1] = TenantID(req)
    BY <1>1 DEF IInv, InProgress
  <2> HIDE DEF r
  <2> QED
    BY <1>1, <2>1, <2>2, LateKeeps
<1>3. CASE Answer(LateStatus)
  <2> DEFINE r == [NoReply EXCEPT !.status = 500]
  <2>1. Reply(r) /\ r.status = 500 /\ r.owners = {} /\ r.rows = <<>>
    BY <1>3, ReplyFields DEF Answer, LateStatus
  <2> HIDE DEF r
  <2> QED
    BY <1>1, <2>1, LateKeeps
<1> QED
  BY <1>2, <1>3 DEF PatchAppAnswer

-----------------------------------------------------------------------------
(***************************************************************************)
(* Routes that read.                                                       *)
(***************************************************************************)

\* readyz.
LEMMA ReadyKeeps == ASSUME IInv, Ready PROVE IInv'
<1>1. /\ pc = "received" /\ req.route = "readyz" /\ Answer(200)
      /\ UNCHANGED <<db, table, writes, asked>>
  BY DEF Ready, At
<1> QED
  BY <1>1, AnswerKeeps DEF Statuses, WithBody

\* listTenants, listApps and listPolicies.
LEMMA ListKeeps == ASSUME IInv, List PROVE IInv'
<1>1. /\ pc = "received" /\ Accepted(req) /\ UNCHANGED <<db, table, writes, asked>>
      /\ req.route \in {"listTenants", "listApps", "listPolicies"}
  BY DEF List, At
<1>2. req.route \notin Public /\ req.route \notin WithBody \cup {"publishPolicy"}
  BY <1>1 DEF Public, WithBody
<1>3. CASE At("listTenants") /\ Show(200, tenants)
  <2>1. req.route \notin PerTenant
    BY <1>3 DEF At, PerTenant, Searches
  <2> QED
    BY <1>1, <1>2, <1>3, <2>1, ShowKeeps
<1>4. CASE Show(200, {i[1] : i \in {j \in DOMAIN apps : j[1] = TenantID(req)}})
  <2> DEFINE ow == {i[1] : i \in {j \in DOMAIN apps : j[1] = TenantID(req)}}
  <2>1. ow \subseteq {TenantID(req)} /\ Show(200, ow)
    BY <1>4
  <2> HIDE DEF ow
  <2> QED
    BY <1>1, <1>2, <2>1, ShowKeeps
<1>5. CASE Show(200, IF Found(policies, req.id) THEN {req.id[1]} ELSE {})
  <2> DEFINE ow == IF Found(policies, req.id) THEN {req.id[1]} ELSE {}
  <2>1. ow \subseteq {TenantID(req)} /\ Show(200, ow)
    BY <1>5 DEF Found
  <2> HIDE DEF ow
  <2> QED
    BY <1>1, <1>2, <2>1, ShowKeeps
<1> QED
  BY <1>3, <1>4, <1>5 DEF List

\* The routes of managed rules, which show no tenant's rows.
LEMMA ManagedRulesKeeps == ASSUME IInv, ManagedRules PROVE IInv'
<1>1. /\ pc = "received" /\ UNCHANGED <<db, table, writes, asked>>
      /\ req.route \in RuleSets
  BY DEF ManagedRules, At
<1>2. req.route \notin WithBody \cup {"publishPolicy"}
  BY <1>1 DEF RuleSets, WithBody
<1>3. Answer(202) \/ Answer(404) \/ Answer(200)
  BY DEF ManagedRules
<1> QED
  BY <1>1, <1>2, <1>3, AnswerKeeps DEF Statuses

\* getApp, getPolicy and getActivePolicy.
LEMMA GetKeeps == ASSUME IInv, Get PROVE IInv'
<1>1. /\ pc = "received" /\ Accepted(req) /\ UNCHANGED <<db, table, writes, asked>>
      /\ req.route \in {"getApp", "getPolicy", "getActivePolicy"}
  BY DEF Get, At
<1>2. req.route \notin Public /\ req.route \notin WithBody \cup {"publishPolicy"}
  BY <1>1 DEF Public, WithBody
<1>3. \/ req.id[1] = TenantID(req) /\ Show(200, {req.id[1]})
      \/ Answer(404)
  BY DEF Get, Found
<1>4. CASE Answer(404)
  BY <1>1, <1>2, <1>4, AnswerKeeps DEF Statuses
<1>5. CASE req.id[1] = TenantID(req) /\ Show(200, {req.id[1]})
  BY <1>1, <1>2, <1>5, ShowKeeps
<1> QED
  BY <1>3, <1>4, <1>5

\* The gateways' route, which needs no tenant.
LEMMA GetGatewayPolicyKeeps == ASSUME IInv, GetGatewayPolicy PROVE IInv'
<1>1. /\ pc = "received" /\ Accepted(req) /\ UNCHANGED <<db, table, writes, asked>>
      /\ req.route = "getGatewayPolicy"
  BY DEF GetGatewayPolicy, At
<1>2. /\ req.route \notin Public /\ req.route \notin WithBody \cup {"publishPolicy"}
      /\ req.route \notin PerTenant
  BY <1>1 DEF Public, WithBody, PerTenant, Searches
<1>3. (\E ow : Show(200, ow)) \/ Answer(404)
  BY DEF GetGatewayPolicy
<1>4. CASE Answer(404)
  BY <1>1, <1>2, <1>4, AnswerKeeps DEF Statuses
<1>5. CASE \E ow : Show(200, ow)
  BY <1>1, <1>2, <1>5, ShowKeeps
<1> QED
  BY <1>3, <1>4, <1>5

\* getEvent.
LEMMA GetEventKeeps == ASSUME IInv, GetEvent PROVE IInv'
<1>1. /\ pc = "received" /\ Accepted(req) /\ UNCHANGED <<db, table, writes>>
      /\ req.route = "getEvent" /\ asked' = table
  BY DEF GetEvent, At
<1>2. /\ req.route \notin Public /\ req.route \notin WithBody \cup {"publishPolicy"}
      /\ req.route \in PerTenant
  BY <1>1 DEF Public, WithBody, PerTenant, Searches
<1>3. CASE Answer(404)
  <2> DEFINE r == [NoReply EXCEPT !.status = 404]
  <2>1. Reply(r) /\ r.status = 404 /\ r.owners = {} /\ r.rows = <<>>
    BY <1>3, ReplyFields DEF Answer
  <2>2. ToSet(r.rows) = {}
    BY <2>1 DEF ToSet
  <2> HIDE DEF r
  <2> QED
    BY <1>1, <2>1, <2>2, ReadKeeps
<1>4. CASE \E e \in ById(table, TenantID(req), req.number) :
             Reply([NoReply EXCEPT !.status = 200, !.rows = <<e>>, !.owners = {e.tenant}])
  <2>1. PICK e \in ById(table, TenantID(req), req.number) :
          Reply([NoReply EXCEPT !.status = 200, !.rows = <<e>>, !.owners = {e.tenant}])
    BY <1>4
  <2>2. e \in table /\ e.tenant = TenantID(req)
    BY DEF ById
  <2> DEFINE r == [NoReply EXCEPT !.status = 200, !.rows = <<e>>, !.owners = {e.tenant}]
  <2>3. Reply(r) /\ r.status = 200 /\ r.owners = {e.tenant} /\ r.rows = <<e>>
    BY <2>1 DEF NoReply
  <2>4. ToSet(r.rows) = {e}
    BY <2>3 DEF ToSet
  <2> HIDE DEF r
  <2> QED
    BY <1>1, <1>2, <2>2, <2>3, <2>4, ReadKeeps
<1> QED
  BY <1>3, <1>4 DEF GetEvent

\* A gateway writes an event while a request is in progress.
LEMMA RecordEventKeeps == ASSUME IInv, NEW e \in NewEvents, RecordEvent(e) PROVE IInv'
<1>1. /\ writes < MaxWrites /\ writes' = writes + 1 /\ table' = table \cup {e}
      /\ UNCHANGED <<tenants, apps, policies, deployed, pc, req, reply, before, asked>>
  BY DEF RecordEvent, Write, db
<1>2. writes' \in 0 .. MaxWrites
  <2>1. MaxWrites \in Nat
    BY ControlApiAssumption, Zenon
  <2> QED
    BY <1>1, <2>1 DEF IInv, TypeOK
<1>3. TypeOK'
  BY <1>1, <1>2 DEF IInv, TypeOK
<1>4. IsFiniteSet(table')
  BY <1>1, FS_AddElement DEF IInv
<1>5. db' = db /\ before' = before
  BY <1>1 DEF db
<1>6. InProgress'
  <2>1. Confined' <=> Confined
    BY <1>1, <1>5 DEF Confined, TenantID
  <2>2. Accepted(req)' <=> Accepted(req)
    BY <1>1
  <2> QED
    BY <1>1, <1>5, <2>1, <2>2 DEF IInv, InProgress, TenantID
<1>7. Isolation' /\ AccessHeld' /\ Truthful'
  <2>1. Isolation'
    BY <1>1, <1>5 DEF IInv, Isolation, Answered
  <2>2. AccessHeld'
    BY <1>1, <1>5 DEF IInv, AccessHeld, Answered
  <2>3. Truthful'
    BY <1>1, <1>5 DEF IInv, Truthful, Answered
  <2> QED
    BY <2>1, <2>2, <2>3
<1> QED
  BY <1>3, <1>4, <1>6, <1>7 DEF IInv

-----------------------------------------------------------------------------
(***************************************************************************)
(* Routes that write.                                                      *)
(***************************************************************************)

\* A write of rows with one id, of the tenant the request names.
LEMMA ConfinedWrite ==
  ASSUME IInv, pc = "received", UNCHANGED <<tenants, req, before>>,
         NEW id, id[1] = TenantID(req),
         \A i : i # id => /\ i \in DOMAIN apps' <=> i \in DOMAIN apps
                          /\ i \in DOMAIN apps => apps'[i] = apps[i]
                          /\ i \in DOMAIN policies' <=> i \in DOMAIN policies
                          /\ i \in DOMAIN policies => policies'[i] = policies[i]
                          /\ i \in deployed' <=> i \in deployed
  PROVE  Confined'
<1>1. before' = <<tenants, apps, policies, deployed>>
  BY DEF IInv, InProgress, db
<1> SUFFICES ASSUME NEW t \in Tenants, t # TenantID(req)
             PROVE  RowsOf(t, <<tenants', apps', policies', deployed'>>) =
                      RowsOf(t, <<tenants, apps, policies, deployed>>)
  BY <1>1 DEF Confined, TenantID, db
<1>2. \A i : i[1] = t => i # id
  OBVIOUS
<1>3. \A i : i[1] = t =>
        /\ i \in DOMAIN apps' <=> i \in DOMAIN apps
        /\ i \in DOMAIN apps => apps'[i] = apps[i]
        /\ i \in DOMAIN policies' <=> i \in DOMAIN policies
        /\ i \in DOMAIN policies => policies'[i] = policies[i]
        /\ i \in deployed' <=> i \in deployed
  BY <1>2
<1> QED
  BY <1>3, OtherTenants

\* Counters of writes, and what inserts and updates do to a table.
LEMMA WriteType == ASSUME IInv, Write PROVE writes' \in 0 .. MaxWrites
<1>1. MaxWrites \in Nat
  BY ControlApiAssumption, Zenon
<1> QED
  BY <1>1 DEF IInv, TypeOK, Write

\* INSERT of one row.
LEMMA Inserted ==
  ASSUME NEW rows, rows \in [DOMAIN rows -> Nat], NEW id, id \notin DOMAIN rows
  PROVE  /\ Insert(rows, id) \in [DOMAIN rows \cup {id} -> Nat]
         /\ Insert(rows, id) # rows
         /\ \A i : i # id => (i \in DOMAIN Insert(rows, id) <=> i \in DOMAIN rows)
         /\ \A i \in DOMAIN rows : Insert(rows, id)[i] = rows[i]
<1>1. Insert(rows, id) \in [DOMAIN rows \cup {id} -> Nat]
  BY DEF Insert
<1>2. DOMAIN Insert(rows, id) = DOMAIN rows \cup {id}
  BY DEF Insert
<1>3. \A i \in DOMAIN rows : Insert(rows, id)[i] = rows[i]
  BY DEF Insert
<1> QED
  BY <1>1, <1>2, <1>3

\* UPDATE of one row.
LEMMA Updated ==
  ASSUME NEW rows, rows \in [DOMAIN rows -> Nat], NEW id \in DOMAIN rows
  PROVE  LET new == [rows EXCEPT ![id] = @ + 1]
         IN /\ DOMAIN new = DOMAIN rows /\ new \in [DOMAIN new -> Nat] /\ new # rows
            /\ \A i \in DOMAIN rows : i # id => new[i] = rows[i]
<1> DEFINE new == [rows EXCEPT ![id] = @ + 1]
<1>1. DOMAIN new = DOMAIN rows
  OBVIOUS
<1>2. new[id] = rows[id] + 1 /\ rows[id] \in Nat
  OBVIOUS
<1>3. new \in [DOMAIN rows -> Nat] /\ \A i \in DOMAIN rows : i # id => new[i] = rows[i]
  BY <1>2
<1>4. new[id] # rows[id]
  BY <1>2
<1> QED
  BY <1>1, <1>3, <1>4

\* A step that answers 404.
LEMMA MissingKeeps ==
  ASSUME IInv, pc = "received", NEW rows, Missing(rows), UNCHANGED <<table, asked>>
  PROVE  IInv'
BY AnswerKeeps DEF Missing, Statuses

\* The id of a request is a pair.
LEMMA RequestId == ASSUME IInv, pc # "idle" PROVE req.id \in Tenants \X Slugs
<1>1. req \in Requests
  BY DEF IInv, InProgress
<1>2. req \in Request
  BY <1>1, ControlApiAssumption, Zenon
<1> QED
  BY <1>2 DEF Request, Ids

\* createTenant.
LEMMA CreateTenantKeeps == ASSUME IInv, CreateTenant PROVE IInv'
<1> DEFINE t == req.id[1]
           r == [NoReply EXCEPT !.status = 201, !.owners = {t}]
<1>1. /\ pc = "received" /\ Accepted(req) /\ req.route = "createTenant"
      /\ t \notin tenants /\ Write /\ tenants' = tenants \cup {t} /\ Reply(r)
      /\ UNCHANGED <<apps, policies, deployed, table, asked>>
  BY DEF CreateTenant, At, Show
<1>2. r.status = 201 /\ r.owners = {t} /\ r.rows = <<>> /\ ToSet(r.rows) = {}
  BY ReplyFields DEF ToSet
<1>3. pc' = "answered" /\ reply' = r /\ UNCHANGED <<req, before>>
  BY <1>1 DEF Reply
<1>4. t \in Tenants
  BY <1>1, RequestId
<1> HIDE DEF r
<1>5. DOMAIN apps \subseteq tenants' \X Slugs
  BY <1>1 DEF IInv, TypeOK
<1>6. writes' \in 0 .. MaxWrites
  BY <1>1, WriteType
<1> HIDE DEF t
<1>7. TypeOK'
  BY <1>1, <1>2, <1>3, <1>4, <1>5, <1>6 DEF IInv, TypeOK
<1>8. db' # db
  BY <1>1 DEF db
<1>9. req.route \notin Public /\ req.route \notin PerTenant
  BY <1>1 DEF Public, PerTenant, Searches
<1> QED
  BY <1>1, <1>2, <1>7, <1>8, <1>9, WriteKeeps

\* createApp.
LEMMA CreateAppKeeps == ASSUME IInv, CreateApp PROVE IInv'
<1> DEFINE t == TenantID(req)
           id == <<t, req.id[2]>>
           r == [NoReply EXCEPT !.status = 201, !.owners = {t}]
<1>1. /\ pc = "received" /\ Accepted(req) /\ req.route = "createApp"
      /\ t \in tenants /\ id \notin DOMAIN apps /\ Write
      /\ apps' = Insert(apps, id) /\ Reply(r)
      /\ UNCHANGED <<tenants, policies, deployed, table, asked>>
  BY DEF CreateApp, At, Show
<1>2. r.status = 201 /\ r.owners = {t} /\ r.rows = <<>> /\ ToSet(r.rows) = {}
  BY ReplyFields DEF ToSet
<1>3. pc' = "answered" /\ reply' = r /\ UNCHANGED <<req, before>>
  BY <1>1 DEF Reply
<1>4. id \in tenants \X Slugs /\ id[1] = t
  BY <1>1, RequestId
<1> HIDE DEF r, id
<1>5. /\ DOMAIN apps' = DOMAIN apps \cup {id} /\ apps' \in [DOMAIN apps' -> Nat]
      /\ apps' # apps
      /\ \A i : i # id => /\ i \in DOMAIN apps' <=> i \in DOMAIN apps
                          /\ i \in DOMAIN apps => apps'[i] = apps[i]
  <2>1. apps \in [DOMAIN apps -> Nat]
    BY DEF IInv, TypeOK
  <2>2. /\ Insert(apps, id) \in [DOMAIN apps \cup {id} -> Nat]
        /\ Insert(apps, id) # apps
        /\ \A i : i # id => (i \in DOMAIN Insert(apps, id) <=> i \in DOMAIN apps)
        /\ \A i \in DOMAIN apps : Insert(apps, id)[i] = apps[i]
    BY <1>1, <2>1, Inserted
  <2> QED
    BY <1>1, <2>2
<1>6. writes' \in 0 .. MaxWrites
  BY <1>1, WriteType
<1>7. TypeOK'
  BY <1>1, <1>2, <1>3, <1>4, <1>5, <1>6 DEF IInv, TypeOK
<1>8. db' # db
  BY <1>5 DEF db
<1>9. req.route \notin Public
  BY <1>1 DEF Public
<1>10. Confined'
  BY <1>1, <1>3, <1>4, <1>5, ConfinedWrite
<1> QED
  BY <1>1, <1>2, <1>7, <1>8, <1>9, <1>10, WriteKeeps

\* patchApp up to its commit: the answer comes in a later step.
LEMMA PatchAppKeeps == ASSUME IInv, PatchApp PROVE IInv'
<1>1. /\ pc = "received" /\ Accepted(req) /\ req.route = "patchApp"
      /\ UNCHANGED <<table, asked>>
  BY DEF PatchApp, At
<1>2. CASE Missing(apps)
  BY <1>1, <1>2, MissingKeeps
<1>3. CASE ~Missing(apps)
  <2>1. /\ Found(apps, req.id) /\ Write
        /\ apps' = [apps EXCEPT ![req.id] = @ + 1]
        /\ pc' = "committed"
        /\ UNCHANGED <<tenants, policies, deployed, req, reply, before>>
    BY <1>3 DEF PatchApp
  <2>2. req.id \in DOMAIN apps /\ req.id[1] = TenantID(req)
    BY <2>1 DEF Found
  <2>3. apps \in [DOMAIN apps -> Nat]
    BY DEF IInv, TypeOK
  <2>4. /\ DOMAIN apps' = DOMAIN apps /\ apps' \in [DOMAIN apps' -> Nat] /\ apps' # apps
        /\ \A i \in DOMAIN apps : i # req.id => apps'[i] = apps[i]
    BY <2>1, <2>2, <2>3, Updated
  <2>5. writes' \in 0 .. MaxWrites
    BY <2>1, WriteType
  <2>6. TypeOK'
    BY <1>1, <2>1, <2>4, <2>5 DEF IInv, TypeOK
  <2>7. Confined'
    BY <1>1, <2>1, <2>2, <2>4, ConfinedWrite
  <2>8. db' # before'
    BY <1>1, <2>1, <2>4 DEF IInv, InProgress, db
  <2>9. InProgress'
    <3>1. Accepted(req)' /\ req'.id[1] = TenantID(req)'
      BY <1>1, <2>1, <2>2 DEF TenantID
    <3> QED
      BY <1>1, <2>1, <2>7, <2>8, <3>1 DEF IInv, InProgress
  <2>10. Isolation' /\ AccessHeld' /\ Truthful'
    BY <2>1 DEF Isolation, AccessHeld, Truthful, Answered
  <2> QED
    BY <1>1, <2>6, <2>9, <2>10 DEF IInv
<1> QED
  BY <1>2, <1>3

\* createPolicy.
LEMMA CreatePolicyKeeps == ASSUME IInv, CreatePolicy PROVE IInv'
<1>1. /\ pc = "received" /\ Accepted(req) /\ req.route = "createPolicy"
      /\ UNCHANGED <<table, asked>>
  BY DEF CreatePolicy, At
<1>2. CASE Missing(apps)
  BY <1>1, <1>2, MissingKeeps
<1>3. CASE ~Missing(apps)
  <2> DEFINE r == [NoReply EXCEPT !.status = 201, !.owners = {req.id[1]}]
  <2>1. /\ Found(apps, req.id) /\ req.id \notin DOMAIN policies /\ Write
        /\ policies' = Insert(policies, req.id) /\ Reply(r)
        /\ UNCHANGED <<tenants, apps, deployed>>
    BY <1>3 DEF CreatePolicy, Show
  <2>2. req.id \in DOMAIN apps /\ req.id[1] = TenantID(req)
    BY <2>1 DEF Found
  <2>3. r.status = 201 /\ r.owners = {req.id[1]} /\ r.rows = <<>> /\ ToSet(r.rows) = {}
    BY ReplyFields DEF ToSet
  <2>4. pc' = "answered" /\ reply' = r /\ UNCHANGED <<req, before>>
    BY <2>1 DEF Reply
  <2> HIDE DEF r
  <2>5. /\ DOMAIN policies' = DOMAIN policies \cup {req.id}
        /\ policies' \in [DOMAIN policies' -> Nat] /\ policies' # policies
        /\ \A i : i # req.id => /\ i \in DOMAIN policies' <=> i \in DOMAIN policies
                                /\ i \in DOMAIN policies => policies'[i] = policies[i]
    <3>1. policies \in [DOMAIN policies -> Nat]
      BY DEF IInv, TypeOK
    <3>2. /\ Insert(policies, req.id) \in [DOMAIN policies \cup {req.id} -> Nat]
          /\ Insert(policies, req.id) # policies
          /\ \A i : i # req.id =>
               (i \in DOMAIN Insert(policies, req.id) <=> i \in DOMAIN policies)
          /\ \A i \in DOMAIN policies : Insert(policies, req.id)[i] = policies[i]
      BY <2>1, <3>1, Inserted
    <3> QED
      BY <2>1, <3>2
  <2>6. writes' \in 0 .. MaxWrites
    BY <2>1, WriteType
  <2>7. TypeOK'
    BY <1>1, <2>1, <2>2, <2>3, <2>4, <2>5, <2>6 DEF IInv, TypeOK
  <2>8. db' # db /\ req.route \notin Public
    BY <1>1, <2>5 DEF db, Public
  <2>9. Confined'
    BY <1>1, <2>1, <2>2, <2>4, <2>5, ConfinedWrite
  <2> QED
    BY <1>1, <2>1, <2>2, <2>3, <2>7, <2>8, <2>9, WriteKeeps
<1> QED
  BY <1>2, <1>3

\* patchPolicy and publishPolicy write the row of a policy, and publishPolicy
\* a deployment.
LEMMA PolicyWriteKeeps ==
  ASSUME IInv, pc = "received", Accepted(req), req.route \in {"patchPolicy", "publishPolicy"},
         Found(policies, req.id), Write, NEW st \in {200, 201}, Show(st, {req.id[1]}),
         policies' = [policies EXCEPT ![req.id] = @ + 1],
         deployed' \in {deployed, deployed \cup {req.id}},
         UNCHANGED <<tenants, apps, table, asked>>
  PROVE  IInv'
<1> DEFINE r == [NoReply EXCEPT !.status = st, !.owners = {req.id[1]}]
<1>1. req.id \in DOMAIN policies /\ req.id[1] = TenantID(req)
  BY DEF Found
<1>2. /\ Reply(r) /\ r.status = st /\ r.owners = {req.id[1]} /\ r.rows = <<>>
      /\ ToSet(r.rows) = {}
  BY ReplyFields DEF ToSet, Show
<1>3. pc' = "answered" /\ reply' = r /\ UNCHANGED <<req, before>>
  BY <1>2 DEF Reply
<1> HIDE DEF r
<1>4. policies \in [DOMAIN policies -> Nat]
  BY DEF IInv, TypeOK
<1>5. /\ DOMAIN policies' = DOMAIN policies /\ policies' \in [DOMAIN policies' -> Nat]
      /\ policies' # policies
      /\ \A i \in DOMAIN policies : i # req.id => policies'[i] = policies[i]
  BY <1>1, <1>4, Updated
<1>6. writes' \in 0 .. MaxWrites
  BY WriteType
<1>7. TypeOK'
  BY <1>1, <1>2, <1>3, <1>5, <1>6 DEF IInv, TypeOK
<1>8. db' # db /\ req.route \notin Public
  BY <1>5 DEF db, Public
<1>9. Confined'
  BY <1>1, <1>3, <1>5, ConfinedWrite
<1> QED
  BY <1>1, <1>2, <1>7, <1>8, <1>9, WriteKeeps

\* patchPolicy.
LEMMA PatchPolicyKeeps == ASSUME IInv, PatchPolicy PROVE IInv'
<1>1. /\ pc = "received" /\ Accepted(req) /\ req.route = "patchPolicy"
      /\ UNCHANGED <<table, asked>>
  BY DEF PatchPolicy, At
<1>2. CASE Missing(policies)
  BY <1>1, <1>2, MissingKeeps
<1>3. CASE Answer(409) /\ UNCHANGED <<db, writes>>
  BY <1>1, <1>3, AnswerKeeps DEF Statuses
<1>4. CASE /\ Found(policies, req.id) /\ Write
           /\ policies' = [policies EXCEPT ![req.id] = @ + 1]
           /\ Show(200, {req.id[1]})
           /\ UNCHANGED <<tenants, apps, deployed>>
  BY <1>1, <1>4, PolicyWriteKeeps
<1> QED
  BY <1>2, <1>3, <1>4 DEF PatchPolicy

\* publishPolicy.
LEMMA PublishPolicyKeeps == ASSUME IInv, PublishPolicy PROVE IInv'
<1>1. /\ pc = "received" /\ Accepted(req) /\ req.route = "publishPolicy"
      /\ UNCHANGED <<table, asked>>
  BY DEF PublishPolicy, At
<1>2. CASE Missing(policies)
  BY <1>1, <1>2, MissingKeeps
<1>3. CASE Answer(400) /\ UNCHANGED <<db, writes>>
  BY <1>1, <1>3, AnswerKeeps DEF Statuses
<1>4. CASE /\ Found(policies, req.id) /\ Write
           /\ policies' = [policies EXCEPT ![req.id] = @ + 1]
           /\ deployed' = deployed \cup {req.id}
           /\ Show(201, {req.id[1]})
           /\ UNCHANGED <<tenants, apps>>
  BY <1>1, <1>4, PolicyWriteKeeps
<1> QED
  BY <1>2, <1>3, <1>4 DEF PublishPolicy

-----------------------------------------------------------------------------
(***************************************************************************)
(* BuildSearchQuery: what a search finds.                                  *)
(***************************************************************************)

\* A set of naturals that is not empty has a least element.
LEMMA LeastNat ==
  ASSUME NEW S \in SUBSET Nat, S # {}
  PROVE  \E x \in S : \A y \in S : x <= y
<1> DEFINE R == OpToRel(<, Nat)
           Lt(x, y) == <<x, y>> \in R
<1>1. \A x, y \in Nat : x < y => Lt(x, y)
  BY Zenon DEF OpToRel
<1>2. IsWellFoundedOn(R, Nat)
  BY NatLessThanWellFounded
<1> HIDE DEF R
<1>3. \E x \in S : \A y \in S : ~Lt(y, x)
  BY <1>2, WFMin
<1> HIDE DEF Lt
<1> QED
  BY <1>1, <1>3

\* A finite set of events has a newest one.
LEMMA NewestExists ==
  ASSUME NEW S, IsFiniteSet(S), S # {}, \A e \in S : e.at \in Nat
  PROVE  \E m \in S : \A d \in S : m.at >= d.at
<1> DEFINE n == Cardinality(S)
<1>1. n \in Nat /\ n # 0
  BY FS_CardinalityType, FS_EmptySet
<1>2. PICK f : f \in Bijection(1 .. n, S)
  BY FS_CardinalityType DEF ExistsBijection
<1>3. f \in [1 .. n -> S] /\ \A e \in S : \E i \in 1 .. n : f[i] = e
  BY <1>2 DEF Bijection, Injection, Surjection
<1> HIDE DEF n
<1> DEFINE at(i) == f[i].at
           Top(k, m) == m \in 1 .. k /\ \A j \in 1 .. k : at(m) >= at(j)
           D == {k \in 1 .. n : ~\E m \in 1 .. k : Top(k, m)}
<1>4. \A i \in 1 .. n : at(i) \in Nat
  BY <1>3
<1> HIDE DEF at
<1>5. D = {}
  <2> SUFFICES ASSUME D # {} PROVE FALSE
    OBVIOUS
  <2>1. D \in SUBSET Nat
    BY <1>1
  <2>2. PICK k \in D : \A j \in D : k <= j
    <3> HIDE DEF D
    <3> QED BY <2>1, LeastNat
  <2>3. CASE k = 1
    <3>1. Top(1, 1)
      BY <1>1, <1>4, <2>3
    <3> QED
      BY <2>2, <2>3, <3>1
  <2>4. CASE k # 1
    <3>0. k \in 1 .. n /\ k \in Nat /\ k - 1 \in 1 .. n /\ ~(k <= k - 1)
      BY <1>1, <2>2, <2>4
    <3>1. k - 1 \in 1 .. n /\ k - 1 \notin D
      <4> HIDE DEF D
      <4> QED BY <2>2, <3>0
    <3>2. PICK m \in 1 .. k - 1 : Top(k - 1, m)
      BY <3>1
    <3>3. CASE at(m) >= at(k)
      <4>1. Top(k, m)
        BY <1>1, <1>4, <3>2, <3>3, <2>2
      <4> QED
        BY <2>2, <4>1
    <3>4. CASE ~(at(m) >= at(k))
      <4>1. Top(k, k)
        <5> SUFFICES ASSUME NEW j \in 1 .. k PROVE at(k) >= at(j)
          BY <3>0
        <5>1. at(k) \in Nat /\ at(m) \in Nat /\ at(j) \in Nat
          BY <1>1, <1>4, <3>0
        <5>2. j = k \/ at(m) >= at(j)
          BY <3>0, <3>2
        <5> QED
          BY <3>4, <5>1, <5>2
      <4> QED
        BY <2>2, <4>1
    <3> QED
      BY <3>3, <3>4
  <2> QED
    BY <2>3, <2>4
<1>6. n \in 1 .. n
  BY <1>1
<1>7. PICK m \in 1 .. n : Top(n, m)
  BY <1>5, <1>6
<1>8. f[m] \in S /\ \A j \in 1 .. n : f[m].at >= f[j].at
  BY <1>3, <1>7 DEF at
<1> QED
  BY <1>3, <1>8

\* A list that is ordered from each element to the next is ordered.
LEMMA Ordered ==
  ASSUME NEW n \in Nat, NEW s, \A i \in 1 .. n : s[i].at \in Nat,
         \A i \in 1 .. n - 1 : s[i].at >= s[i + 1].at
  PROVE  \A i, j \in 1 .. n : i < j => s[i].at >= s[j].at
<1> DEFINE at(i) == s[i].at
           D == {j \in 1 .. n : \E i \in 1 .. j - 1 : ~(at(i) >= at(j))}
<1>1. /\ \A i \in 1 .. n : at(i) \in Nat
      /\ \A i \in 1 .. n - 1 : at(i) >= at(i + 1)
  OBVIOUS
<1> HIDE DEF at
<1>2. D = {}
  <2> SUFFICES ASSUME D # {} PROVE FALSE
    OBVIOUS
  <2>1. D \in SUBSET Nat
    OBVIOUS
  <2>2. PICK j \in D : \A i \in D : j <= i
    <3> HIDE DEF D
    <3> QED BY <2>1, LeastNat
  <2>3. PICK i \in 1 .. j - 1 : ~(at(i) >= at(j))
    BY <2>2
  <2>4. j \in 2 .. n /\ j - 1 \in 1 .. n - 1 /\ j - 1 \in 1 .. n /\ (j - 1) + 1 = j
    BY <2>2, <2>3
  <2>5. at(j - 1) >= at(j)
    BY <1>1, <2>4
  <2>6. CASE i = j - 1
    BY <2>3, <2>5, <2>6
  <2>7. CASE i # j - 1
    <3>1. j - 1 \notin D /\ i \in 1 .. (j - 1) - 1
      BY <2>2, <2>4, <2>7
    <3>2. at(i) >= at(j - 1)
      BY <2>4, <3>1
    <3>3. at(i) \in Nat /\ at(j - 1) \in Nat /\ at(j) \in Nat
      BY <1>1, <2>4
    <3> QED
      BY <2>3, <2>5, <3>2, <3>3
  <2> QED
    BY <2>6, <2>7
<1>3. \A i, j \in 1 .. n : i < j => at(i) >= at(j)
  <2> SUFFICES ASSUME NEW i \in 1 .. n, NEW j \in 1 .. n, i < j PROVE at(i) >= at(j)
    OBVIOUS
  <2>1. i \in 1 .. j - 1 /\ j \notin D
    BY <1>2
  <2> QED
    BY <2>1
<1> QED
  BY <1>3 DEF at

\* ORDER BY timestamp DESC LIMIT: rows of the table, each once, newest first,
\* and one that is left out is no newer and is left out for the limit.
LEMMA AnswerShape ==
  ASSUME NEW T, IsFiniteSet(T), \A e \in T : e.at \in Nat,
         NEW f, LimitOf(f) \in Nat \ {0}, NEW s \in Answers(T, f)
  PROVE  /\ s \in Seq(Rows(T, f)) /\ Len(s) <= LimitOf(f)
         /\ \A i, j \in 1 .. Len(s) : i # j => s[i] # s[j]
         /\ \A i, j \in 1 .. Len(s) : i < j => s[i].at >= s[j].at
         /\ \A e \in Rows(T, f) \ ToSet(s) :
              Len(s) = LimitOf(f) /\ \A i \in 1 .. Len(s) : s[i].at >= e.at
<1> DEFINE rows == Rows(T, f)
           c == Cardinality(rows)
           limit == LimitOf(f)
           n == IF c < limit THEN c ELSE limit
<1>1. IsFiniteSet(rows) /\ c \in Nat /\ rows \subseteq T
  <2>1. rows \in SUBSET T
    BY DEF Rows
  <2>2. IsFiniteSet(rows)
    BY <2>1, FS_Subset
  <2> QED
    BY <2>1, <2>2, FS_CardinalityType
<1>2. PICK pick \in SUBSET rows :
        /\ Cardinality(pick) = n /\ s \in SetToSeqs(pick)
        /\ \A i \in 1 .. n - 1 : InOrder(s[i], s[i + 1])
        /\ n > 0 => \A e \in rows \ ToSet(s) : InOrder(s[n], e)
  BY DEF Answers
<1>3. n \in Nat /\ n <= limit /\ n <= c /\ (n = c \/ n = limit)
  BY <1>1
<1>4. s \in [1 .. n -> pick] /\ \A i, j \in 1 .. n : i # j => s[i] # s[j]
  BY <1>2 DEF SetToSeqs
<1> HIDE DEF n, c, limit, rows
<1>5. s \in Seq(pick) /\ Len(s) = n /\ s \in Seq(rows)
  BY <1>2, <1>3, <1>4
<1>6. \A i \in 1 .. n : s[i].at \in Nat
  BY <1>1, <1>4
<1>7. \A i, j \in 1 .. n : i < j => s[i].at >= s[j].at
  <2>1. \A i \in 1 .. n - 1 : s[i].at >= s[i + 1].at
    BY <1>2 DEF InOrder
  <2> QED
    BY <1>3, <1>6, <2>1, Ordered
<1>8. ASSUME NEW e \in rows \ ToSet(s)
      PROVE  n = limit /\ \A i \in 1 .. n : s[i].at >= e.at
  <2>1. n # c
    <3> SUFFICES ASSUME n = c PROVE FALSE
      OBVIOUS
    <3>1. pick = rows
      BY <1>1, <1>2, FS_Subset DEF c
    <3>2. IsFiniteSet(1 .. n) /\ Cardinality(1 .. n) = n
      BY <1>3, FS_Interval
    <3>3. s \in Injection(1 .. n, rows)
      BY <1>4, <3>1 DEF Injection, IsInjective
    <3>4. s \in Surjection(1 .. n, rows)
      BY <1>1, <3>2, <3>3, FS_Injection DEF c
    <3>5. \E i \in 1 .. n : s[i] = e
      BY <3>4 DEF Surjection
    <3>6. e \in ToSet(s)
      BY <1>4, <3>5 DEF ToSet
    <3> QED
      BY <1>8, <3>6
  <2>2. n = limit /\ n > 0
    BY <1>3, <2>1 DEF limit
  <2>3. s[n].at >= e.at
    BY <1>2, <1>8, <2>2 DEF InOrder
  <2>4. e.at \in Nat /\ n \in 1 .. n
    BY <1>1, <1>3, <1>8, <2>2
  <2>5. ASSUME NEW i \in 1 .. n PROVE s[i].at >= e.at
    <3>1. i = n \/ s[i].at >= s[n].at
      BY <1>3, <1>7, <2>4
    <3>2. s[i].at \in Nat /\ s[n].at \in Nat
      BY <1>6, <2>4
    <3> QED
      BY <2>3, <2>4, <3>1, <3>2
  <2> QED
    BY <2>2, <2>5
<1> QED
  BY <1>3, <1>4, <1>5, <1>7, <1>8 DEF rows, limit

\* The limit of a request that passes parseEventFilters or
\* parseSimulationFilters.
LEMMA SearchLimit ==
  ASSUME NEW q \in Request, q.route \in Searches, FiltersParse(q)
  PROVE  /\ q.route = "listEvents" =>
              LimitOf(FiltersOf(q)) = IF q.limit = None THEN DefaultLimit ELSE q.limit
         /\ q.route = "simulation" => LimitOf(FiltersOf(q)) = MaxLimit
         /\ LimitOf(FiltersOf(q)) \in Nat \ {0}
<1> DEFINE n == IF q.limit = None THEN DefaultLimit ELSE q.limit
<1>1. DefaultLimit \in 1 .. MaxLimit /\ MaxLimit \in Nat
  BY EventSearchAssumption
<1>2. CASE q.route = "listEvents"
  <2>1. q.limit \in 1 .. MaxLimit \cup {None}
    BY <1>2 DEF FiltersParse
  <2>2. n \in Nat \ {0}
    BY <1>1, <2>1
  <2>3. FiltersOf(q).limit = n
    BY <1>2 DEF FiltersOf, Filters
  <2> HIDE DEF n
  <2> QED
    BY <1>2, <2>2, <2>3 DEF LimitOf, n
<1>3. CASE q.route = "simulation"
  <2>1. MaxLimit \in Nat \ {0}
    BY <1>1
  <2>2. FiltersOf(q).limit = MaxLimit
    BY <1>3 DEF FiltersOf, Filters
  <2> QED
    BY <1>3, <2>1, <2>2 DEF LimitOf
<1> QED
  BY <1>2, <1>3 DEF Searches

\* The events that the filters and BuildSearchQuery select are the ones the
\* request is about.
LEMMA RowsWanted ==
  ASSUME NEW q \in Request, q.route \in Searches, TenantGiven(q), FiltersParse(q),
         NEW e, e.at \in Nat
  PROVE  Where(FiltersOf(q), e) <=> Wanted(q, e)
<1> DEFINE f == FiltersOf(q)
<1>1. /\ f.tenant = TenantID(q) /\ f.from = q.from /\ f.to = q.to
      /\ q.route = "listEvents" => f.policy = 0 /\ f.rule = q.rule
      /\ q.route = "simulation" => f.policy = q.number /\ f.policy # 0 /\ f.rule = 0
  BY DEF FiltersOf, Filters, FiltersParse
<1>2. Named(q) = {TenantID(q)} /\ TenantID(q) # ""
  BY OneTenant
<1>3. q.from \in Int \cup {None} /\ q.to \in Int \cup {None}
  BY DEF Request
<1>4. TenantClause(f, e) <=> Named(q) = {e.tenant}
  BY <1>1, <1>2 DEF TenantClause
<1>5. (f.policy # 0 => e.policy = f.policy) /\ (f.rule # 0 => e.rule = f.rule)
      <=> IF q.route = "simulation" THEN e.policy = q.number ELSE q.rule \in {0, e.rule}
  BY <1>1 DEF Searches
<1>6. (f.from # None => e.at >= f.from) <=> (q.from # None => q.from <= e.at)
  BY <1>1, <1>3
<1>7. UpperClause(f, e) <=> (q.to # None => e.at <= q.to)
  BY <1>1 DEF UpperClause
<1> HIDE DEF f
<1>8. Where(f, e) <=> Wanted(q, e)
  BY <1>4, <1>5, <1>6, <1>7 DEF Where, Wanted
<1> QED
  BY <1>8 DEF f

\* decodeEvents: what is delivered of an answer.
LEMMA DeliveredShape ==
  ASSUME NEW R, NEW s \in Seq(R)
  PROVE  /\ Delivered(s) \in Seq(R) /\ Len(Delivered(s)) <= Len(s)
         /\ \A i \in 1 .. Len(Delivered(s)) : Delivered(s)[i] = s[i]
         /\ Len(Delivered(s)) = Len(s) \/ Len(Delivered(s)) = BodyRows
<1> DEFINE m == IF Len(s) < BodyRows THEN Len(s) ELSE BodyRows
<1>1. BodyRows \in Nat
  BY EventSearchAssumption
<1>2. m \in Nat /\ m <= Len(s) /\ (m = Len(s) \/ m = BodyRows)
  BY <1>1
<1>3. Delivered(s) = SubSeq(s, 1, m)
  BY DEF Delivered
<1> HIDE DEF m
<1> QED
  BY <1>2, <1>3

\* What a search answers: the newest events it is about, each once.
LEMMA SearchFinds ==
  ASSUME NEW q \in Request, q.route \in Searches, TenantGiven(q), FiltersParse(q),
         NEW T, IsFiniteSet(T), \A e \in T : e.at \in Nat,
         NEW s \in Answers(T, FiltersOf(q))
  PROVE  LET got == Delivered(s)
             limit == LimitOf(FiltersOf(q))
             wanted == {e \in T : Wanted(q, e)}
         IN /\ got \in Seq(wanted) /\ \A i, j \in 1 .. Len(got) : i # j => got[i] # got[j]
            /\ Len(got) <= limit
            /\ Cardinality(ToSet(got)) = Len(got) /\ ToSet(got) \subseteq wanted
            /\ \A i, j \in DOMAIN got : i < j => got[i].at >= got[j].at
            /\ \A e \in wanted \ ToSet(got) :
                 /\ Len(got) \in {limit, BodyRows}
                 /\ \A d \in ToSet(got) : d.at >= e.at
<1> DEFINE f == FiltersOf(q)
           got == Delivered(s)
           limit == LimitOf(f)
           wanted == {e \in T : Wanted(q, e)}
           m == Len(got)
           n == Len(s)
<1>1. limit \in Nat \ {0}
  BY SearchLimit
<1>2. Rows(T, f) = wanted
  BY RowsWanted DEF Rows
<1>3. /\ s \in Seq(wanted) /\ n <= limit
      /\ \A i, j \in 1 .. n : i # j => s[i] # s[j]
      /\ \A i, j \in 1 .. n : i < j => s[i].at >= s[j].at
      /\ \A e \in wanted \ ToSet(s) :
           n = limit /\ \A i \in 1 .. n : s[i].at >= e.at
  <2> HIDE DEF wanted, f
  <2>1. s \in Answers(T, f)
    BY DEF f
  <2> QED
    BY <1>1, <1>2, <2>1, AnswerShape
<1>4. /\ got \in Seq(wanted) /\ m <= n
      /\ \A i \in 1 .. m : got[i] = s[i]
      /\ m = n \/ m = BodyRows
  BY <1>3, DeliveredShape
<1>5. m \in Nat /\ n \in Nat /\ limit \in Nat
  BY <1>1, <1>3, <1>4
<1> HIDE DEF got, limit, wanted, f
<1>6. DOMAIN got = 1 .. m /\ DOMAIN s = 1 .. n /\ got \in [1 .. m -> wanted]
  BY <1>3, <1>4
<1> HIDE DEF m, n
<1>7. m <= limit
  BY <1>3, <1>4, <1>5
<1>8. Cardinality(ToSet(got)) = m
  <2>1. IsFiniteSet(1 .. m) /\ Cardinality(1 .. m) = m
    BY <1>5, FS_Interval
  <2>2. got \in [1 .. m -> ToSet(got)] /\ \A x \in ToSet(got) : \E i \in 1 .. m : got[i] = x
    BY <1>6 DEF ToSet
  <2>3. \A i, j \in 1 .. m : got[i] = got[j] => i = j
    BY <1>3, <1>4, <1>5
  <2>4. got \in Bijection(1 .. m, ToSet(got))
    BY <1>6, <2>2, <2>3 DEF Bijection, Injection, Surjection, IsInjective
  <2> QED
    BY <2>1, <2>4, FS_Bijection DEF ExistsBijection
<1>9. ToSet(got) \subseteq wanted
  BY <1>6 DEF ToSet
<1>10. \A i, j \in DOMAIN got : i < j => got[i].at >= got[j].at
  BY <1>3, <1>4, <1>5, <1>6
<1>11. ASSUME NEW e \in wanted \ ToSet(got)
       PROVE  m \in {limit, BodyRows} /\ \A d \in ToSet(got) : d.at >= e.at
  <2>1. \A d \in ToSet(got) : \E i \in 1 .. m : d = s[i]
    BY <1>4, <1>6 DEF ToSet
  <2>2. CASE e \in ToSet(s)
    <3>1. PICK j \in 1 .. n : e = s[j]
      BY <1>6, <2>2 DEF ToSet
    <3>2. j \notin 1 .. m
      BY <1>4, <1>6, <1>11, <3>1 DEF ToSet
    <3>3. \A i \in 1 .. m : i < j /\ i \in 1 .. n
      BY <1>4, <1>5, <3>2
    <3>4. m # n
      BY <3>2
    <3> QED
      BY <1>3, <1>4, <2>1, <3>1, <3>3, <3>4
  <2>3. CASE e \notin ToSet(s)
    <3>1. n = limit /\ \A i \in 1 .. n : s[i].at >= e.at
      BY <1>3, <1>11, <2>3
    <3>2. \A i \in 1 .. m : i \in 1 .. n
      BY <1>4, <1>5
    <3> QED
      BY <1>4, <2>1, <3>1, <3>2
  <2> QED
    BY <2>2, <2>3
<1>12. \A i, j \in 1 .. m : i # j => got[i] # got[j]
  BY <1>3, <1>4, <1>5
<1> QED
  BY <1>4, <1>7, <1>8, <1>9, <1>10, <1>11, <1>12 DEF got, limit, wanted, m, f

\* A search finds events of the tenant the request names.
LEMMA SearchTenant ==
  ASSUME NEW q \in Request, q.route \in Searches, TenantGiven(q), FiltersParse(q),
         NEW T, IsFiniteSet(T), \A e \in T : e.at \in Nat,
         NEW s \in Answers(T, FiltersOf(q))
  PROVE  /\ ToSet(Delivered(s)) \subseteq T
         /\ \A e \in ToSet(Delivered(s)) : e.tenant = TenantID(q)
<1> DEFINE f == FiltersOf(q)
           got == Delivered(s)
<1>1. LimitOf(f) \in Nat \ {0}
  BY SearchLimit
<1>2. f.tenant = TenantID(q) /\ TenantID(q) # ""
  BY OneTenant DEF FiltersOf, Filters
<1>3. s \in Answers(T, f)
  OBVIOUS
<1> HIDE DEF f
<1>4. s \in Seq(Rows(T, f))
  BY <1>1, <1>3, AnswerShape
<1>5. got \in Seq(Rows(T, f))
  BY <1>4, DeliveredShape
<1> HIDE DEF got
<1>6. ToSet(got) \subseteq Rows(T, f)
  BY <1>5 DEF ToSet
<1>7. \A e \in Rows(T, f) : e \in T /\ e.tenant = TenantID(q)
  BY <1>2 DEF Rows, Where, TenantClause
<1> QED
  BY <1>6, <1>7 DEF got

\* Events have times.
LEMMA TableTimes == ASSUME IInv PROVE \A e \in table : e.at \in Nat
<1>1. \A e \in table : e \in Event
  BY ControlApiAssumption, ZenonT(40) DEF IInv, TypeOK
<1> QED
  BY <1>1 DEF Event

\* A request in progress has the fields of a request.
LEMMA ReqType == ASSUME IInv, pc # "idle" PROVE req \in Request
<1>1. req \in Requests
  BY DEF IInv, InProgress
<1> QED
  BY <1>1, ControlApiAssumption, Zenon

\* listEvents and getPolicySimulationSummary answer.
LEMMA SearchAnswer ==
  ASSUME IInv, SearchEvents
  PROVE  /\ pc = "received" /\ Accepted(req) /\ req.route \in Searches
         /\ asked' = table /\ UNCHANGED <<db, table, writes>>
         /\ \E s, rules :
              s \in Answers(table, FiltersOf(req)) /\
              Reply([NoReply EXCEPT !.status = 200, !.rows = Delivered(s),
                       !.owners = {e.tenant : e \in ToSet(Delivered(s))},
                       !.rules = rules])
BY DEF SearchEvents, At

\* The answer to a search.
LEMMA SearchReply ==
  ASSUME NEW rows, NEW owners, NEW rules
  PROVE  LET r == [NoReply EXCEPT !.status = 200, !.rows = rows, !.owners = owners,
                                  !.rules = rules]
         IN r.status = 200 /\ r.rows = rows /\ r.owners = owners
BY DEF NoReply

\* listEvents and getPolicySimulationSummary show events of the tenant named.
LEMMA SearchEventsKeeps == ASSUME IInv, SearchEvents PROVE IInv'
<1>1. /\ pc = "received" /\ Accepted(req) /\ req.route \in Searches
      /\ asked' = table /\ UNCHANGED <<db, table, writes>>
  BY SearchAnswer
<1>2. PICK s, rules :
        s \in Answers(table, FiltersOf(req)) /\
        Reply([NoReply EXCEPT !.status = 200, !.rows = Delivered(s),
                 !.owners = {e.tenant : e \in ToSet(Delivered(s))}, !.rules = rules])
  BY SearchAnswer
<1> DEFINE got == Delivered(s)
           ow == {e.tenant : e \in ToSet(got)}
           r == [NoReply EXCEPT !.status = 200, !.rows = got, !.owners = ow, !.rules = rules]
<1>3. Reply(r) /\ r.status = 200 /\ r.rows = got /\ r.owners = ow
  BY <1>2, SearchReply
<1>4. /\ req.route \in PerTenant /\ req.route \notin Public
      /\ req.route \notin WithBody \cup {"publishPolicy"}
  BY <1>1 DEF PerTenant, Public, WithBody, Searches
<1>5. TenantGiven(req) /\ FiltersParse(req)
  BY <1>1, <1>4 DEF Accepted
<1>6. req \in Request /\ IsFiniteSet(table) /\ \A e \in table : e.at \in Nat
  BY <1>1, ReqType, TableTimes DEF IInv
<1>7. ToSet(got) \subseteq table /\ \A e \in ToSet(got) : e.tenant = TenantID(req)
  BY <1>1, <1>2, <1>5, <1>6, SearchTenant
<1>8. ow \subseteq {TenantID(req)}
  BY <1>7
<1> HIDE DEF got, ow, r
<1> QED
  BY <1>1, <1>3, <1>4, <1>7, <1>8, ReadKeeps

-----------------------------------------------------------------------------
(***************************************************************************)
(* BuildSimulationSummary: sorting by count, the accumulators, the loop.   *)
(***************************************************************************)

\* Ahead is a strict total order of the keys.
LEMMA AheadOrder ==
  ASSUME NEW K \in SUBSET Nat, NEW counts \in [K -> Nat]
  PROVE  /\ \A a \in K : ~Ahead(counts, a, a)
         /\ \A a, b \in K : a = b \/ Ahead(counts, a, b) \/ Ahead(counts, b, a)
         /\ \A a, b \in K : ~(Ahead(counts, a, b) /\ Ahead(counts, b, a))
         /\ \A a, b, c \in K : Ahead(counts, a, b) /\ Ahead(counts, b, c) => Ahead(counts, a, c)
<1> DEFINE n(a) == counts[a]
           A(a, b) == Ahead(counts, a, b)
<1>1. \A a \in K : n(a) \in Nat /\ a \in Nat
  OBVIOUS
<1>2. \A a, b \in K : A(a, b) <=> (n(a) > n(b) \/ (n(a) = n(b) /\ a < b))
  BY DEF Ahead
<1> HIDE DEF n, A
<1>3. /\ \A a \in K : ~A(a, a)
      /\ \A a, b \in K : a = b \/ A(a, b) \/ A(b, a)
      /\ \A a, b \in K : ~(A(a, b) /\ A(b, a))
      /\ \A a, b, c \in K : A(a, b) /\ A(b, c) => A(a, c)
  BY <1>1, <1>2, SMTT(30)
<1> QED
  BY <1>3 DEF A

\* sort.Slice: every key once, each ahead of those that follow.
LEMMA RankedSorts ==
  ASSUME NEW K \in SUBSET Nat, IsFiniteSet(K), NEW counts \in [K -> Nat]
  PROVE  LET s == Ranked(counts)
         IN /\ s \in Seq(K) /\ Len(s) = Cardinality(K)
            /\ \A i, j \in 1 .. Len(s) : i < j => Ahead(counts, s[i], s[j])
            /\ \A a \in K : \E i \in 1 .. Len(s) : s[i] = a
<1> DEFINE L == Cardinality(K)
           D == 1 .. L
           A(a, b) == Ahead(counts, a, b)
           Upto(a) == {b \in K : ~A(a, b)}
           P(a) == Cardinality(Upto(a))
           s == Ranked(counts)
<1>1. L \in Nat
  BY FS_CardinalityType
<1>2. IsFiniteSet(D) /\ Cardinality(D) = L
  BY <1>1, FS_Interval
<1>3. /\ \A a \in K : ~A(a, a)
      /\ \A a, b \in K : a = b \/ A(a, b) \/ A(b, a)
      /\ \A a, b \in K : ~(A(a, b) /\ A(b, a))
      /\ \A a, b, c \in K : A(a, b) /\ A(b, c) => A(a, c)
  BY AheadOrder
<1>4. DOMAIN counts = K
  OBVIOUS
<1>5. s = [n \in D |-> CHOOSE a \in K : P(a) = n]
  BY <1>4 DEF Ranked, Place
<1> HIDE DEF A, L, s
<1>6. \A a \in K : /\ IsFiniteSet(Upto(a)) /\ P(a) \in Nat /\ P(a) <= L
                   /\ P(a) >= 1
  <2> SUFFICES ASSUME NEW a \in K
               PROVE  /\ IsFiniteSet(Upto(a)) /\ P(a) \in Nat /\ P(a) <= L
                      /\ P(a) >= 1
    OBVIOUS
  <2>1. Upto(a) \subseteq K /\ a \in Upto(a)
    BY <1>3
  <2> HIDE DEF Upto
  <2>2. IsFiniteSet(Upto(a)) /\ P(a) <= L
    BY <2>1, FS_Subset DEF L
  <2>3. P(a) \in Nat
    BY <2>2, FS_CardinalityType
  <2>4. P(a) # 0
    BY <2>1, <2>2, FS_EmptySet
  <2> QED
    BY <2>2, <2>3, <2>4
<1>7. \A a, b \in K : A(a, b) => P(a) < P(b)
  <2> SUFFICES ASSUME NEW a \in K, NEW b \in K, A(a, b) PROVE P(a) < P(b)
    OBVIOUS
  <2>1. b \in Upto(b) /\ b \notin Upto(a) /\ Upto(a) \subseteq Upto(b) \ {b}
    <3>1. b \in Upto(b) /\ b \notin Upto(a)
      BY <1>3
    <3>2. ASSUME NEW c \in Upto(a) PROVE ~A(b, c)
      BY <1>3, <3>2
    <3> QED
      BY <3>1, <3>2
  <2>2. IsFiniteSet(Upto(b)) /\ P(b) \in Nat /\ P(a) \in Nat
    BY <1>6
  <2> HIDE DEF Upto
  <2>3. IsFiniteSet(Upto(b) \ {b}) /\ Cardinality(Upto(b) \ {b}) = P(b) - 1
    BY <2>1, <2>2, FS_RemoveElement
  <2>4. P(a) <= Cardinality(Upto(b) \ {b})
    BY <2>1, <2>3, FS_Subset
  <2> QED
    BY <2>2, <2>3, <2>4
<1> DEFINE pos == [a \in K |-> P(a)]
<1>8. pos \in Surjection(K, D)
  <2>1. \A a \in K : P(a) \in D
    <3> HIDE DEF Upto, P
    <3> QED BY <1>1, <1>6
  <2>2. \A a, b \in K : P(a) = P(b) => a = b
    <3> SUFFICES ASSUME NEW a \in K, NEW b \in K, P(a) = P(b) PROVE a = b
      OBVIOUS
    <3>1. P(a) \in Nat /\ P(b) \in Nat
      BY <1>6
    <3>2. ~A(a, b) /\ ~A(b, a)
      <4>1. A(a, b) => P(a) < P(b)
        BY <1>7
      <4>2. A(b, a) => P(b) < P(a)
        BY <1>7
      <4> HIDE DEF P
      <4> QED BY <3>1, <4>1, <4>2
    <3> QED
      BY <1>3, <3>2
  <2> HIDE DEF P
  <2>3. pos \in Injection(K, D)
    BY <2>1, <2>2 DEF Injection, IsInjective
  <2> HIDE DEF D, pos
  <2> QED
    BY <1>2, <2>3, FS_Injection DEF L
<1>9. \A n \in D : \E a \in K : P(a) = n
  <2> HIDE DEF P
  <2> QED BY <1>8 DEF Surjection
<1>10. \A n \in D : s[n] \in K /\ P(s[n]) = n
  <2> HIDE DEF D, P
  <2> QED BY <1>5, <1>9
<1> HIDE DEF P
<1>11. s \in Seq(K) /\ Len(s) = L
  <2>1. s \in [1 .. L -> K]
    BY <1>5, <1>10
  <2> QED
    BY <1>1, <2>1
<1>12. \A i, j \in D : i < j => A(s[i], s[j])
  <2> SUFFICES ASSUME NEW i \in D, NEW j \in D, i < j PROVE A(s[i], s[j])
    OBVIOUS
  <2>1. P(s[i]) = i /\ P(s[j]) = j /\ s[i] \in K /\ s[j] \in K
    BY <1>10
  <2>2. ~A(s[j], s[i])
    <3>1. i \in Nat /\ j \in Nat /\ ~(j < i)
      BY <1>1
    <3>2. A(s[j], s[i]) => j < i
      BY <1>7, <2>1, Zenon
    <3> QED
      BY <3>1, <3>2
  <2>3. s[i] # s[j]
    BY <1>1, <2>1
  <2> QED
    BY <1>3, <2>1, <2>2, <2>3
<1>13. \A a \in K : \E i \in D : s[i] = a
  <2> SUFFICES ASSUME NEW a \in K PROVE \E i \in D : s[i] = a
    OBVIOUS
  <2>1. P(a) \in D
    <3>1. P(a) \in Nat /\ P(a) <= L /\ P(a) >= 1
      BY <1>6, Zenon
    <3> QED
      BY <1>1, <3>1
  <2>2. s[P(a)] \in K /\ P(s[P(a)]) = P(a)
    BY <1>10, <2>1
  <2>3. ~A(s[P(a)], a) /\ ~A(a, s[P(a)])
    <3>1. P(a) \in Nat /\ ~(P(a) < P(a))
      BY <1>1, <2>1
    <3>2. A(s[P(a)], a) \/ A(a, s[P(a)]) => P(a) < P(a)
      BY <1>7, <2>2, Zenon
    <3> QED
      BY <3>1, <3>2
  <2> QED
    BY <1>3, <2>1, <2>2, <2>3
<1> QED
  BY <1>11, <1>12, <1>13 DEF A, L, s

Least(m, n) == IF m < n THEN m ELSE n

\* Fields of events the summary looks at.
Counted(e) == e.rule \in Nat /\ e.ip \in Nat /\ e.path \in Nat /\ e.id \in Nat

\* The events of S with the path p, and those with a request id.
OfPath(S, p) == {e \in S : e.path = p}
WithId(S) == {e \in S : e.id # 0}

\* A map of paths counts the events of a set.
TalliesPaths(paths, S) ==
  /\ paths \in [{e.path : e \in S} \ {0} -> Nat]
  /\ \A p \in DOMAIN paths : paths[p] = Cardinality(OfPath(S, p))

\* A list of samples is taken from the events of a set.
TalliesSamples(samples, S) ==
  /\ samples \in Seq({e.id : e \in S} \ {0})
  /\ Len(samples) = Least(SampleMax, Cardinality(WithId(S)))

\* An accumulator says of a set of events what the summary is to say.
Tallies(acc, S) ==
  /\ DOMAIN acc = {"name", "count", "ips", "paths", "samples"}
  /\ acc.count = Cardinality(S)
  /\ acc.ips = {e.ip : e \in S} \ {0}
  /\ TalliesPaths(acc.paths, S)
  /\ TalliesSamples(acc.samples, S)

\* One more element.
LEMMA OneMore ==
  ASSUME NEW S, IsFiniteSet(S), NEW e, e \notin S
  PROVE  /\ IsFiniteSet(S \cup {e}) /\ Cardinality(S) \in Nat
         /\ Cardinality(S \cup {e}) = Cardinality(S) + 1
BY FS_AddElement, FS_CardinalityType

\* An accumulator is opened for no event.
LEMMA TallyNone == ASSUME NEW e PROVE Tallies(NewAccumulator(e), {})
<1> DEFINE acc == NewAccumulator(e)
<1>1. /\ DOMAIN acc = {"name", "count", "ips", "paths", "samples"}
      /\ acc.count = 0 /\ acc.ips = {} /\ acc.paths = EmptyMap /\ acc.samples = <<>>
  BY DEF NewAccumulator
<1>2. Cardinality({}) = 0
  BY FS_EmptySet
<1>3. /\ OfPath({}, 0) = {} /\ WithId({}) = {} /\ {d.ip : d \in {}} \ {0} = {}
      /\ {d.path : d \in {}} = {} /\ {d.id : d \in {}} = {}
  BY DEF OfPath, WithId
<1>4. TalliesPaths(EmptyMap, {})
  BY <1>3 DEF TalliesPaths, EmptyMap
<1>5. TalliesSamples(<<>>, {})
  <2>1. SampleMax \in Nat
    BY EventSearchAssumption
  <2> QED
    BY <1>2, <1>3, <2>1 DEF TalliesSamples, Least
<1> HIDE DEF acc
<1> QED
  BY <1>1, <1>2, <1>3, <1>4, <1>5 DEF Tallies, acc

\* paths[path]++.
LEMMA TallyPath ==
  ASSUME NEW S, IsFiniteSet(S), NEW e, e \notin S, Counted(e),
         NEW paths, TalliesPaths(paths, S)
  PROVE  TalliesPaths(AddPath(paths, e.path), S \cup {e})
<1> DEFINE p == e.path
           K == {d.path : d \in S} \ {0}
           T == S \cup {e}
           KT == {d.path : d \in T} \ {0}
<1>1. paths \in [K -> Nat] /\ \A x \in K : paths[x] = Cardinality(OfPath(S, x))
  BY DEF TalliesPaths
<1>2. \A x : x # p => OfPath(T, x) = OfPath(S, x)
  BY DEF OfPath
<1>3. OfPath(T, p) = OfPath(S, p) \cup {e} /\ e \notin OfPath(S, p)
  BY DEF OfPath
<1>4. OfPath(S, p) \in SUBSET S
  BY DEF OfPath
<1>5. /\ Cardinality(OfPath(S, p)) \in Nat
      /\ Cardinality(OfPath(T, p)) = Cardinality(OfPath(S, p)) + 1
  BY <1>3, <1>4, FS_Subset, OneMore
<1>6. p \notin K /\ p # 0 => OfPath(S, p) = {}
  BY DEF OfPath
<1>7. KT = IF p = 0 THEN K ELSE K \cup {p}
  OBVIOUS
<1>8. 0 \notin K
  OBVIOUS
<1>9. ASSUME NEW f \in [KT -> Nat], \A x \in KT : f[x] = Cardinality(OfPath(T, x))
      PROVE  TalliesPaths(f, T)
  BY <1>9 DEF TalliesPaths
<1> HIDE DEF p, K, T, KT
<1>10. CASE p = 0
  <2>1. AddPath(paths, p) = paths
    BY <1>10 DEF AddPath
  <2>2. KT = K /\ \A x \in K : OfPath(T, x) = OfPath(S, x)
    BY <1>2, <1>7, <1>8, <1>10
  <2>3. paths \in [KT -> Nat] /\ \A x \in KT : paths[x] = Cardinality(OfPath(T, x))
    BY <1>1, <2>2
  <2> QED
    BY <1>9, <2>1, <2>3 DEF T, p
<1>11. CASE p # 0
  <2> DEFINE v == 1 + IF p \in DOMAIN paths THEN paths[p] ELSE 0
  <2>1. v = Cardinality(OfPath(T, p)) /\ v \in Nat
    <3>1. CASE p \in K
      BY <1>1, <1>5, <3>1
    <3>2. CASE p \notin K
      <4>1. Cardinality(OfPath(S, p)) = 0
        BY <1>6, <1>11, <3>2, FS_EmptySet
      <4> QED
        BY <1>1, <1>5, <3>2, <4>1
    <3> QED
      BY <3>1, <3>2
  <2> HIDE DEF v
  <2>2. AddPath(paths, p) = [x \in K \cup {p} |-> IF x = p THEN v ELSE paths[x]]
    BY <1>1, <1>11 DEF AddPath, Put, v
  <2>3. \A x \in K \cup {p} : AddPath(paths, p)[x] = Cardinality(OfPath(T, x))
    BY <1>1, <1>2, <2>1, <2>2
  <2>4. AddPath(paths, p) \in [K \cup {p} -> Nat]
    BY <1>1, <2>1, <2>2
  <2>5. KT = K \cup {p}
    BY <1>7, <1>11
  <2> QED
    BY <1>9, <2>3, <2>4, <2>5 DEF T, p
<1> QED
  BY <1>10, <1>11 DEF p, T

\* Samples are appended up to the limit.
LEMMA TallySample ==
  ASSUME NEW S, IsFiniteSet(S), NEW e, e \notin S, Counted(e),
         NEW samples, TalliesSamples(samples, S)
  PROVE  TalliesSamples(AddSample(samples, e.id), S \cup {e})
<1> DEFINE T == S \cup {e}
           A == {d.id : d \in S} \ {0}
           B == {d.id : d \in T} \ {0}
           c == Cardinality(WithId(S))
<1>1. samples \in Seq(A) /\ Len(samples) = Least(SampleMax, c) /\ SampleMax \in Nat
  BY EventSearchAssumption DEF TalliesSamples
<1>2. A \subseteq B /\ (e.id # 0 => e.id \in B)
  OBVIOUS
<1>3. c \in Nat /\ Cardinality(WithId(T)) = IF e.id = 0 THEN c ELSE c + 1
  <2>1. WithId(S) \in SUBSET S
    BY DEF WithId
  <2>2. WithId(T) = (IF e.id = 0 THEN WithId(S) ELSE WithId(S) \cup {e}) /\ e \notin WithId(S)
    BY DEF WithId
  <2> QED
    BY <2>1, <2>2, FS_Subset, OneMore
<1>4. ASSUME NEW x \in Seq(B), Len(x) = Least(SampleMax, Cardinality(WithId(T)))
      PROVE  TalliesSamples(x, T)
  BY <1>4 DEF TalliesSamples
<1> HIDE DEF T, A, B, c
<1>5. samples \in Seq(B)
  BY <1>1, <1>2
<1>6. CASE e.id # 0 /\ Len(samples) < SampleMax
  <2>1. AddSample(samples, e.id) = Append(samples, e.id)
    BY <1>6 DEF AddSample
  <2>2. Append(samples, e.id) \in Seq(B) /\ Len(Append(samples, e.id)) = Len(samples) + 1
    BY <1>2, <1>5, <1>6
  <2>3. Len(samples) + 1 = Least(SampleMax, c + 1)
    BY <1>1, <1>3, <1>6 DEF Least
  <2> QED
    BY <1>3, <1>4, <1>6, <2>1, <2>2, <2>3 DEF T
<1>7. CASE ~(e.id # 0 /\ Len(samples) < SampleMax)
  <2>1. AddSample(samples, e.id) = samples
    BY <1>7 DEF AddSample
  <2>2. Len(samples) = Least(SampleMax, Cardinality(WithId(T)))
    BY <1>1, <1>3, <1>7 DEF Least
  <2> QED
    BY <1>4, <1>5, <2>1, <2>2 DEF T
<1> QED
  BY <1>6, <1>7 DEF T

\* One turn for an event of the accumulator's rule.
LEMMA TallyOne ==
  ASSUME NEW S, IsFiniteSet(S), NEW e, e \notin S, Counted(e), NEW acc, Tallies(acc, S)
  PROVE  Tallies(Accumulate(acc, e), S \cup {e})
<1> DEFINE new == Accumulate(acc, e)
           T == S \cup {e}
<1>1. /\ DOMAIN acc = {"name", "count", "ips", "paths", "samples"}
      /\ acc.count = Cardinality(S) /\ acc.ips = {d.ip : d \in S} \ {0}
      /\ TalliesPaths(acc.paths, S) /\ TalliesSamples(acc.samples, S)
  BY DEF Tallies
<1>2. /\ DOMAIN new = {"name", "count", "ips", "paths", "samples"}
      /\ new.count = acc.count + 1
      /\ new.ips = (IF e.ip = 0 THEN acc.ips ELSE acc.ips \cup {e.ip})
      /\ new.paths = AddPath(acc.paths, e.path)
      /\ new.samples = AddSample(acc.samples, e.id)
  BY <1>1 DEF Accumulate
<1> HIDE DEF new
<1>3. new.count = Cardinality(T)
  BY <1>1, <1>2, OneMore
<1>4. new.ips = {d.ip : d \in T} \ {0}
  BY <1>1, <1>2
<1>5. TalliesPaths(new.paths, T) /\ TalliesSamples(new.samples, T)
  <2>1. TalliesPaths(AddPath(acc.paths, e.path), T)
    BY <1>1, TallyPath, Zenon
  <2>2. TalliesSamples(AddSample(acc.samples, e.id), T)
    BY <1>1, TallySample, Zenon
  <2> QED
    BY <1>2, <2>1, <2>2
<1> HIDE DEF T
<1>6. Tallies(new, T)
  BY <1>2, <1>3, <1>4, <1>5 DEF Tallies
<1> QED
  BY <1>6 DEF new, T

\* The events of S that would have been blocked, and those under one rule.
Would(S) == {e \in S : e.would}
OfRule(S, r) == {e \in S : e.would /\ RuleId(e) = r}

\* byRule has an accumulator for every rule of the events of a set.
TalliesAll(m, S) ==
  /\ DOMAIN m = {RuleId(e) : e \in Would(S)}
  /\ \A r \in DOMAIN m : Tallies(m[r], OfRule(S, r))

\* One turn of the loop.
LEMMA TallyTurn ==
  ASSUME NEW S, IsFiniteSet(S), NEW e, e \notin S, Counted(e), NEW m, TalliesAll(m, S)
  PROVE  TalliesAll(AddEvent(m, e), S \cup {e})
<1> DEFINE T == S \cup {e}
           r == RuleId(e)
           K == {RuleId(d) : d \in Would(S)}
           KT == {RuleId(d) : d \in Would(T)}
<1>1. DOMAIN m = K /\ \A x \in K : Tallies(m[x], OfRule(S, x))
  BY DEF TalliesAll
<1>2. ASSUME NEW f, DOMAIN f = KT, \A x \in KT : Tallies(f[x], OfRule(T, x))
      PROVE  TalliesAll(f, T)
  BY <1>2 DEF TalliesAll
<1>3. Would(T) = IF e.would THEN Would(S) \cup {e} ELSE Would(S)
  BY DEF Would
<1>4. \A x : (~e.would \/ x # r) => OfRule(T, x) = OfRule(S, x)
  BY DEF OfRule
<1>5. e.would => OfRule(T, r) = OfRule(S, r) \cup {e}
  BY DEF OfRule
<1>6. OfRule(S, r) \in SUBSET S /\ e \notin OfRule(S, r)
  BY DEF OfRule
<1>7. r \notin K => OfRule(S, r) = {}
  BY DEF OfRule, Would
<1>8. KT = IF e.would THEN K \cup {r} ELSE K
  BY <1>3
<1> HIDE DEF T, r, K, KT
<1>9. CASE ~e.would
  <2>1. AddEvent(m, e) = m
    BY <1>9 DEF AddEvent
  <2> QED
    BY <1>1, <1>2, <1>4, <1>8, <1>9, <2>1 DEF T
<1>10. CASE e.would
  <2> DEFINE old == IF r \in DOMAIN m THEN m[r] ELSE NewAccumulator(e)
             new == Accumulate(old, e)
  <2>1. Tallies(old, OfRule(S, r))
    BY <1>1, <1>7, TallyNone
  <2>2. IsFiniteSet(OfRule(S, r))
    BY <1>6, FS_Subset
  <2> HIDE DEF old
  <2>3. Tallies(new, OfRule(T, r))
    BY <1>5, <1>6, <1>10, <2>1, <2>2, TallyOne
  <2>4. AddEvent(m, e) = [x \in K \cup {r} |-> IF x = r THEN new ELSE m[x]]
    BY <1>1, <1>10 DEF AddEvent, Put, old, r
  <2> HIDE DEF new
  <2>5. \A x \in K \cup {r} : Tallies(AddEvent(m, e)[x], OfRule(T, x))
    <3>1. ASSUME NEW x \in K, x # r PROVE Tallies(AddEvent(m, e)[x], OfRule(T, x))
      <4>1. AddEvent(m, e)[x] = m[x] /\ OfRule(T, x) = OfRule(S, x)
        BY <1>4, <2>4, <3>1
      <4> QED
        BY <1>1, <3>1, <4>1
    <3>2. AddEvent(m, e)[r] = new
      BY <2>4
    <3> QED
      BY <2>3, <3>1, <3>2, Zenon
  <2>6. DOMAIN AddEvent(m, e) = K \cup {r}
    BY <2>4
  <2>7. KT = K \cup {r}
    BY <1>8, <1>10
  <2> QED
    BY <1>2, <2>5, <2>6, <2>7 DEF T
<1> QED
  BY <1>9, <1>10 DEF T

\* The loop's function, of the first k events.
Loops(f, found, k) ==
  f = [n \in 0 .. k |-> IF n = 0 THEN EmptyMap ELSE AddEvent(f[n - 1], found[n])]

\* The loop is well defined.
LEMMA LoopExists ==
  ASSUME NEW found, NEW L \in Nat PROVE \E f : Loops(f, found, L)
<1> DEFINE Bad == {k \in 0 .. L : ~\E f : Loops(f, found, k)}
<1>1. Bad = {}
  <2> SUFFICES ASSUME Bad # {} PROVE FALSE
    OBVIOUS
  <2>1. Bad \in SUBSET Nat
    OBVIOUS
  <2>2. PICK k \in Bad : \A j \in Bad : k <= j
    <3> HIDE DEF Bad
    <3> QED BY <2>1, LeastNat
  <2>3. k \in 0 .. L /\ k \in Nat /\ ~\E f : Loops(f, found, k)
    BY <2>2
  <2>4. CASE k = 0
    <3> DEFINE f == [n \in 0 .. 0 |-> EmptyMap]
    <3>1. f = [n \in 0 .. 0 |-> IF n = 0 THEN EmptyMap ELSE AddEvent(f[n - 1], found[n])]
      OBVIOUS
    <3> HIDE DEF f
    <3> QED
      BY <2>3, <2>4, <3>1 DEF Loops
  <2>5. CASE k # 0
    <3>1. k - 1 \in 0 .. L /\ k - 1 \in Nat /\ ~(k <= k - 1)
      BY <2>3, <2>5
    <3>2. k - 1 \notin Bad
      <4> HIDE DEF Bad
      <4> QED BY <2>2, <3>1
    <3>3. PICK f : Loops(f, found, k - 1)
      BY <3>1, <3>2
    <3> DEFINE g == [n \in 0 .. k |-> IF n = k THEN AddEvent(f[k - 1], found[k]) ELSE f[n]]
    <3>4. ASSUME NEW n \in 0 .. k
          PROVE  g[n] = IF n = 0 THEN EmptyMap ELSE AddEvent(g[n - 1], found[n])
      <4>1. CASE n = k
        <5>1. k - 1 \in 0 .. k /\ k - 1 # k
          BY <2>3, <2>5
        <5>2. g[k - 1] = f[k - 1] /\ g[k] = AddEvent(f[k - 1], found[k])
          BY <2>3, <5>1
        <5> QED
          BY <2>5, <4>1, <5>2
      <4>2. CASE n # k
        <5>1. n \in 0 .. k - 1 /\ (n # 0 => n - 1 \in 0 .. k /\ n - 1 # k)
          BY <2>3, <4>2
        <5>2. g[n] = f[n] /\ (n # 0 => g[n - 1] = f[n - 1])
          BY <4>2, <5>1
        <5>3. f[n] = IF n = 0 THEN EmptyMap ELSE AddEvent(f[n - 1], found[n])
          BY <3>3, <5>1 DEF Loops
        <5> QED
          BY <5>2, <5>3
      <4> QED
        BY <4>1, <4>2
    <3>5. g = [n \in 0 .. k |-> g[n]]
      OBVIOUS
    <3> HIDE DEF g
    <3>6. Loops(g, found, k)
      BY <3>4, <3>5, Zenon DEF Loops
    <3> QED
      BY <2>3, <3>6
  <2> QED
    BY <2>4, <2>5
<1>2. L \in 0 .. L
  OBVIOUS
<1> QED
  BY <1>1, <1>2

\* After n turns the map says of the first n events what it is to say.
LEMMA LoopTallies ==
  ASSUME NEW R, NEW found \in Seq(R), \A e \in R : Counted(e),
         \A i, j \in 1 .. Len(found) : i # j => found[i] # found[j]
  PROVE  TalliesAll(ByRule(found), ToSet(found))
<1> DEFINE L == Len(found)
           S(n) == {found[i] : i \in 1 .. n}
           Eq(f) == f = [n \in 0 .. L |->
                           IF n = 0 THEN EmptyMap ELSE AddEvent(f[n - 1], found[n])]
           loop == CHOOSE f : Eq(f)
<1>1. ByRule(found) = loop[L]
  BY DEF ByRule
<1>2. L \in Nat /\ DOMAIN found = 1 .. L /\ \A i \in 1 .. L : found[i] \in R
  OBVIOUS
<1>3. Eq(loop)
  <2>1. \E f : Eq(f)
    BY <1>2, LoopExists DEF Loops
  <2> HIDE DEF Eq
  <2> QED
    BY <2>1
<1>4. ToSet(found) = S(L)
  BY <1>2 DEF ToSet
<1> HIDE DEF L, loop
<1> DEFINE Bad == {n \in 0 .. L : ~(IsFiniteSet(S(n)) /\ TalliesAll(loop[n], S(n)))}
<1>5. Bad = {}
  <2> SUFFICES ASSUME Bad # {} PROVE FALSE
    OBVIOUS
  <2>1. Bad \in SUBSET Nat
    OBVIOUS
  <2>2. PICK n \in Bad : \A j \in Bad : n <= j
    <3> HIDE DEF Bad
    <3> QED BY <2>1, LeastNat
  <2>3. n \in 0 .. L /\ n \in Nat /\ ~(IsFiniteSet(S(n)) /\ TalliesAll(loop[n], S(n)))
    BY <2>2
  <2>4. CASE n = 0
    <3>1. S(0) = {}
      OBVIOUS
    <3>2. loop[0] = EmptyMap
      BY <1>2, <1>3
    <3>3. IsFiniteSet(S(0))
      BY <3>1, FS_EmptySet
    <3>4. TalliesAll(EmptyMap, {})
      BY DEF TalliesAll, EmptyMap, Would
    <3> HIDE DEF S
    <3> QED
      BY <2>3, <2>4, <3>1, <3>2, <3>3, <3>4
  <2>5. CASE n # 0
    <3>1. /\ n - 1 \in 0 .. L /\ n - 1 \in Nat /\ ~(n <= n - 1) /\ n \in 1 .. L
          /\ n \notin 1 .. n - 1 /\ 1 .. n = (1 .. n - 1) \cup {n} /\ 1 .. n - 1 \subseteq 1 .. L
      BY <1>2, <2>3, <2>5
    <3>2. n - 1 \notin Bad
      <4> HIDE DEF Bad
      <4> QED BY <2>2, <3>1
    <3>3. IsFiniteSet(S(n - 1)) /\ TalliesAll(loop[n - 1], S(n - 1))
      BY <3>1, <3>2
    <3>4. loop[n] = AddEvent(loop[n - 1], found[n])
      BY <1>3, <2>3, <2>5
    <3>5. S(n) = S(n - 1) \cup {found[n]}
      BY <3>1
    <3>6. found[n] \notin S(n - 1)
      <4> SUFFICES ASSUME NEW i \in 1 .. n - 1 PROVE found[i] # found[n]
        OBVIOUS
      <4>1. i \in 1 .. L /\ i # n
        BY <3>1
      <4> QED
        BY <3>1, <4>1 DEF L
    <3>7. Counted(found[n])
      BY <1>2, <3>1
    <3> HIDE DEF S
    <3>8. IsFiniteSet(S(n))
      BY <3>3, <3>5, <3>6, OneMore
    <3>9. TalliesAll(loop[n], S(n))
      BY <3>3, <3>4, <3>5, <3>6, <3>7, TallyTurn
    <3> QED
      BY <2>3, <3>8, <3>9
  <2> QED
    BY <2>4, <2>5
<1>6. L \in 0 .. L
  BY <1>2
<1>7. TalliesAll(loop[L], S(L))
  BY <1>5, <1>6
<1> QED
  BY <1>1, <1>4, <1>7

\* The names of a finite set of events.
LEMMA NamesFinite ==
  ASSUME NEW S, IsFiniteSet(S)
  PROVE  /\ IsFiniteSet({e.path : e \in S} \ {0})
         /\ IsFiniteSet({RuleId(e) : e \in S})
<1>1. IsFiniteSet({e.path : e \in S})
  <2> DEFINE T == {e.path : e \in S}
             f == [e \in S |-> e.path]
  <2>1. f \in Surjection(S, T)
    BY DEF Surjection
  <2> HIDE DEF f, T
  <2>2. IsFiniteSet(T)
    BY <2>1, FS_Surjection
  <2> QED
    BY <2>2 DEF T
<1>2. {e.path : e \in S} \ {0} \in SUBSET {e.path : e \in S}
  OBVIOUS
<1>3. IsFiniteSet({RuleId(e) : e \in S})
  <2> DEFINE T == {RuleId(e) : e \in S}
             f == [e \in S |-> RuleId(e)]
  <2>1. f \in Surjection(S, T)
    BY DEF Surjection
  <2> HIDE DEF f, T
  <2>2. IsFiniteSet(T)
    BY <2>1, FS_Surjection
  <2> QED
    BY <2>2 DEF T
<1> QED
  BY <1>1, <1>2, <1>3, FS_Subset, Zenon

\* What SummaryExact says of one rule's entry, of the events es.
EntryFits(one, es) ==
  LET paths == {e.path : e \in es} \ {0}
      top == one.paths
  IN /\ one.count = Cardinality(es) /\ es # {}
     /\ one.ips = Cardinality({e.ip : e \in es} \ {0})
     /\ ToSet(one.samples) \subseteq {e.id : e \in es} \ {0}
     /\ Len(one.samples) = Least(SampleMax, Cardinality(WithId(es)))
     /\ ToSet(top) \subseteq paths
     /\ Len(top) = Least(TopMax, Cardinality(paths))
     /\ \A p \in paths \ ToSet(top), t \in ToSet(top) :
          Cardinality(OfPath(es, p)) <= Cardinality(OfPath(es, t))

\* topPaths: as many as there are, up to the limit, and no other is more frequent.
LEMMA TopFits ==
  ASSUME NEW S, IsFiniteSet(S), \A e \in S : Counted(e),
         NEW paths, TalliesPaths(paths, S)
  PROVE  LET K == {e.path : e \in S} \ {0}
             top == TopPaths(paths)
         IN /\ ToSet(top) \subseteq K
            /\ Len(top) = Least(TopMax, Cardinality(K))
            /\ \A p \in K \ ToSet(top), t \in ToSet(top) :
                 Cardinality(OfPath(S, p)) <= Cardinality(OfPath(S, t))
<1> DEFINE K == {e.path : e \in S} \ {0}
           top == TopPaths(paths)
           s == Ranked(paths)
           L == Cardinality(K)
           m == Least(TopMax, L)
<1>1. paths \in [K -> Nat] /\ \A p \in K : paths[p] = Cardinality(OfPath(S, p))
  BY DEF TalliesPaths
<1>2. K \in SUBSET Nat
  BY DEF Counted
<1>3. IsFiniteSet(K) /\ L \in Nat
  BY NamesFinite, FS_CardinalityType
<1> HIDE DEF K
<1>4. /\ s \in Seq(K) /\ Len(s) = L
      /\ \A i, j \in 1 .. L : i < j => Ahead(paths, s[i], s[j])
      /\ \A a \in K : \E i \in 1 .. L : s[i] = a
  <2>1. /\ s \in Seq(K) /\ Len(s) = L
        /\ \A i, j \in 1 .. Len(s) : i < j => Ahead(paths, s[i], s[j])
        /\ \A a \in K : \E i \in 1 .. Len(s) : s[i] = a
    BY <1>1, <1>2, <1>3, RankedSorts
  <2> HIDE DEF s, L
  <2> QED
    BY <2>1
<1>5. TopMax \in Nat
  BY EventSearchAssumption
<1>6. m \in Nat /\ m <= L
  BY <1>3, <1>5 DEF Least
<1>7. top = SubSeq(s, 1, m)
  BY <1>3, <1>4, <1>5 DEF TopPaths, Least
<1> HIDE DEF s, top, L, m
<1>8. Len(top) = m /\ DOMAIN top = 1 .. m /\ \A i \in 1 .. m : top[i] = s[i] /\ i \in 1 .. L
  BY <1>3, <1>4, <1>6, <1>7
<1>9. DOMAIN s = 1 .. L /\ \A i \in 1 .. L : s[i] \in K
  BY <1>3, <1>4
<1>10. ToSet(top) = {s[i] : i \in 1 .. m}
  BY <1>8 DEF ToSet
<1>11. ToSet(top) \subseteq K
  BY <1>8, <1>9, <1>10
<1>12. ASSUME NEW p \in K \ ToSet(top), NEW t \in ToSet(top)
       PROVE  Cardinality(OfPath(S, p)) <= Cardinality(OfPath(S, t))
  <2>1. PICK i \in 1 .. m : t = s[i]
    BY <1>10
  <2>2. PICK j \in 1 .. L : p = s[j]
    BY <1>4
  <2>3. j \notin 1 .. m
    BY <1>10, <2>2
  <2>4. i \in 1 .. L /\ i < j
    BY <1>3, <1>6, <2>3
  <2>5. Ahead(paths, t, p)
    BY <1>4, <2>1, <2>2, <2>4
  <2>6. t \in K /\ paths[t] \in Nat /\ paths[p] \in Nat
    BY <1>1, <1>11
  <2>7. paths[p] <= paths[t]
    BY <2>5, <2>6 DEF Ahead
  <2> QED
    BY <1>1, <2>6, <2>7
<1> QED
  BY <1>8, <1>11, <1>12 DEF K, top, m, L

\* What SummaryExact says of a summary of the events W.
SummaryFits(list, W) ==
  /\ \A e \in W : e.would => \E k \in DOMAIN list : e \in OfRule(W, list[k].rule)
  /\ \A j, k \in DOMAIN list : j < k =>
       \/ list[j].count > list[k].count
       \/ list[j].count = list[k].count /\ list[j].rule < list[k].rule
  /\ \A k \in DOMAIN list : EntryFits(list[k], OfRule(W, list[k].rule))

\* BuildSimulationSummary: what is made of the accumulators.
LEMMA SummaryOfTally ==
  ASSUME NEW W, IsFiniteSet(W), \A e \in W : Counted(e),
         NEW found, TalliesAll(ByRule(found), W)
  PROVE  SummaryFits(Summary(found), W)
<1> DEFINE M == ByRule(found)
           K == DOMAIN M
           counts == [r \in K |-> M[r].count]
           s == Ranked(counts)
           list == Summary(found)
           L == Cardinality(K)
<1>1. K = {RuleId(e) : e \in Would(W)} /\ \A r \in K : Tallies(M[r], OfRule(W, r))
  BY DEF TalliesAll
<1>2. K \in SUBSET Nat
  <2>1. \A e \in W : RuleId(e) \in Nat
    BY EventSearchAssumption DEF RuleId, Counted
  <2> QED
    BY <1>1, <2>1 DEF Would
<1>3. IsFiniteSet(K) /\ L \in Nat
  <2>1. Would(W) \in SUBSET W
    BY DEF Would
  <2>2. IsFiniteSet(Would(W))
    BY <2>1, FS_Subset
  <2>3. IsFiniteSet(K)
    BY <1>1, <2>2, NamesFinite, Zenon
  <2> QED
    BY <2>3, FS_CardinalityType
<1>4. \A r \in K : OfRule(W, r) \in SUBSET W /\ OfRule(W, r) # {}
                   /\ \A e \in OfRule(W, r) : Counted(e)
  BY <1>1 DEF OfRule, Would
<1>5. \A r \in K : IsFiniteSet(OfRule(W, r)) /\ Cardinality(OfRule(W, r)) \in Nat
  BY <1>4, FS_Subset, FS_CardinalityType, Zenon
<1>6. list = [i \in DOMAIN s |->
                [rule |-> s[i], name |-> M[s[i]].name, count |-> M[s[i]].count,
                 ips |-> Cardinality(M[s[i]].ips), paths |-> TopPaths(M[s[i]].paths),
                 samples |-> M[s[i]].samples]]
  BY DEF Summary
<1> HIDE DEF M
<1>7. \A r \in K : counts[r] = M[r].count /\ M[r].count = Cardinality(OfRule(W, r))
  BY <1>1 DEF Tallies
<1>8. counts \in [K -> Nat]
  BY <1>5, <1>7
<1> HIDE DEF K, counts, list
<1>9. /\ s \in Seq(K) /\ Len(s) = L
      /\ \A i, j \in 1 .. L : i < j => Ahead(counts, s[i], s[j])
      /\ \A a \in K : \E i \in 1 .. L : s[i] = a
  <2>1. /\ s \in Seq(K) /\ Len(s) = L
        /\ \A i, j \in 1 .. Len(s) : i < j => Ahead(counts, s[i], s[j])
        /\ \A a \in K : \E i \in 1 .. Len(s) : s[i] = a
    BY <1>2, <1>3, <1>8, RankedSorts
  <2> HIDE DEF s, L
  <2> QED
    BY <2>1
<1> HIDE DEF s, L
<1>10. DOMAIN s = 1 .. L /\ \A i \in 1 .. L : s[i] \in K
  BY <1>3, <1>9
<1>11. DOMAIN list = 1 .. L
  BY <1>6, <1>10
<1>12. \A i \in 1 .. L :
         /\ list[i].rule = s[i] /\ list[i].count = M[s[i]].count
         /\ list[i].ips = Cardinality(M[s[i]].ips)
         /\ list[i].paths = TopPaths(M[s[i]].paths) /\ list[i].samples = M[s[i]].samples
  BY <1>6, <1>10
<1>13. ASSUME NEW e \in W, e.would
       PROVE  \E k \in DOMAIN list : e \in OfRule(W, list[k].rule)
  <2>1. RuleId(e) \in K
    BY <1>1, <1>13 DEF Would
  <2>2. PICK k \in 1 .. L : s[k] = RuleId(e)
    BY <1>9, <2>1
  <2> QED
    BY <1>11, <1>12, <1>13, <2>2 DEF OfRule
<1>14. ASSUME NEW j \in DOMAIN list, NEW k \in DOMAIN list, j < k
       PROVE  \/ list[j].count > list[k].count
              \/ list[j].count = list[k].count /\ list[j].rule < list[k].rule
  <2>1. j \in 1 .. L /\ k \in 1 .. L
    BY <1>11
  <2>2. Ahead(counts, s[j], s[k])
    BY <1>9, <1>14, <2>1
  <2>3. list[j].count = counts[s[j]] /\ list[k].count = counts[s[k]]
        /\ list[j].rule = s[j] /\ list[k].rule = s[k]
    BY <1>7, <1>10, <1>12, <2>1
  <2> QED
    BY <2>2, <2>3 DEF Ahead
<1>15. ASSUME NEW k \in DOMAIN list PROVE EntryFits(list[k], OfRule(W, list[k].rule))
  <2> DEFINE r == s[k]
             acc == M[r]
             es == OfRule(W, r)
             one == list[k]
  <2>1. /\ r \in K /\ one.rule = r /\ one.count = acc.count /\ one.ips = Cardinality(acc.ips)
        /\ one.paths = TopPaths(acc.paths) /\ one.samples = acc.samples
    BY <1>10, <1>11, <1>12
  <2>2. Tallies(acc, es) /\ es # {} /\ IsFiniteSet(es) /\ \A e \in es : Counted(e)
    BY <1>1, <1>4, <1>5, <2>1, Zenon
  <2> HIDE DEF acc, es, one, r
  <2>3. /\ acc.count = Cardinality(es) /\ acc.ips = {e.ip : e \in es} \ {0}
        /\ TalliesPaths(acc.paths, es) /\ TalliesSamples(acc.samples, es)
    BY <2>2 DEF Tallies
  <2> DEFINE top == one.paths
             P == {e.path : e \in es} \ {0}
  <2>4. /\ ToSet(top) \subseteq P /\ Len(top) = Least(TopMax, Cardinality(P))
        /\ \A p \in P \ ToSet(top), t \in ToSet(top) :
             Cardinality(OfPath(es, p)) <= Cardinality(OfPath(es, t))
    BY <2>1, <2>2, <2>3, TopFits, Zenon
  <2>5. /\ ToSet(one.samples) \subseteq {e.id : e \in es} \ {0}
        /\ Len(one.samples) = Least(SampleMax, Cardinality(WithId(es)))
    <3> DEFINE A == {e.id : e \in es} \ {0}
    <3>1. acc.samples \in Seq(A) /\ Len(acc.samples) = Least(SampleMax, Cardinality(WithId(es)))
      BY <2>3 DEF TalliesSamples
    <3> HIDE DEF A
    <3>2. ToSet(acc.samples) \subseteq A
      BY <3>1 DEF ToSet
    <3> QED
      BY <2>1, <3>1, <3>2 DEF A
  <2>6. EntryFits(one, es)
    BY <2>1, <2>2, <2>3, <2>4, <2>5, Zenon DEF EntryFits
  <2> QED
    BY <2>1, <2>6 DEF one, es
<1> QED
  BY <1>13, <1>14, <1>15, Zenon DEF SummaryFits, list

-----------------------------------------------------------------------------
(***************************************************************************)
(* SearchExact.                                                            *)
(***************************************************************************)

\* The two halves of SearchExact, as functions of the request, the answer
\* and the table.
ListExact(q, got, T) ==
  LET limit == IF q.limit = None THEN DefaultLimit ELSE q.limit
      wanted == {e \in T : Wanted(q, e)}
  IN /\ Len(got) <= limit
     /\ Cardinality(ToSet(got)) = Len(got) /\ ToSet(got) \subseteq wanted
     /\ \A i, j \in DOMAIN got : i < j => got[i].at >= got[j].at
     /\ \A e \in wanted \ ToSet(got) :
          /\ Len(got) \in {limit, BodyRows}
          /\ \A d \in ToSet(got) : d.at >= e.at

\* What SearchExact says of an answer r of getEvent to q, on a table T.
GetExact(q, r, T) ==
  LET same == {e \in T : e.id = q.number /\ Named(q) = {e.tenant}}
  IN IF r.status = 404 THEN same = {}
     ELSE r.rows[1] \in same /\ \A e \in same : e.at <= r.rows[1].at

\* SearchExact from its two parts.
LEMMA SearchExactParts ==
  ASSUME pc' = "answered",
         req'.route = "listEvents" /\ reply'.status = 200 =>
           ListExact(req', reply'.rows, asked'),
         req'.route = "getEvent" /\ reply'.status \in {200, 404} =>
           GetExact(req', reply', asked')
  PROVE  SearchExact'
BY DEF SearchExact, ListExact, GetExact

\* A step that answers no search.
AnswersNoSearch ==
  \/ pc' # "answered"
  \/ req' = req /\ (req.route \notin InStore \/ reply'.status \notin {200, 404})

\* Steps that answer something else.
LEMMA NoSearch ==
  ASSUME NEW r, Reply(r), req.route \notin InStore \/ r.status \notin {200, 404}
  PROVE  AnswersNoSearch
<1>1. reply' = r /\ req' = req
  BY DEF Reply
<1> QED
  BY <1>1 DEF AnswersNoSearch

\* An answer without a body.
LEMMA NoSearchAnswer ==
  ASSUME NEW st, Answer(st), req.route \notin InStore \/ st \notin {200, 404}
  PROVE  AnswersNoSearch
<1> DEFINE r == [NoReply EXCEPT !.status = st]
<1>1. Reply(r) /\ r.status = st
  BY ReplyFields DEF Answer
<1> HIDE DEF r
<1> QED
  BY <1>1, NoSearch

\* An answer that shows rows of a table.
LEMMA NoSearchShow ==
  ASSUME NEW st, NEW ow, Show(st, ow), req.route \notin InStore
  PROVE  AnswersNoSearch
BY NoSearch DEF Show

\* Nothing is said of them.
LEMMA NoSearchExact ==
  ASSUME AnswersNoSearch PROVE SearchExact' /\ SummaryExact'
<1>1. SearchExact'
  BY DEF AnswersNoSearch, SearchExact, Answered, InStore, Searches
<1>2. SummaryExact'
  BY DEF AnswersNoSearch, SummaryExact, Answered, InStore, Searches
<1> QED
  BY <1>1, <1>2

\* listEvents answers as SearchExact demands.
LEMMA ListExactKeeps == ASSUME IInv, SearchEvents PROVE SearchExact'
<1>1. /\ pc = "received" /\ Accepted(req) /\ req.route \in Searches /\ asked' = table
  BY SearchAnswer
<1>2. PICK s, rules :
        s \in Answers(table, FiltersOf(req)) /\
        Reply([NoReply EXCEPT !.status = 200, !.rows = Delivered(s),
                 !.owners = {e.tenant : e \in ToSet(Delivered(s))}, !.rules = rules])
  BY SearchAnswer
<1> DEFINE got == Delivered(s)
           ow == {e.tenant : e \in ToSet(got)}
           r == [NoReply EXCEPT !.status = 200, !.rows = got, !.owners = ow, !.rules = rules]
<1>3. Reply(r) /\ r.status = 200 /\ r.rows = got
  BY <1>2, SearchReply
<1> HIDE DEF r
<1>4. CASE req.route = "simulation"
  BY <1>3, <1>4 DEF Reply, SearchExact
<1>5. CASE req.route = "listEvents"
  <2>1. TenantGiven(req) /\ FiltersParse(req)
    BY <1>1, <1>5 DEF Accepted, PerTenant
  <2>2. req \in Request /\ IsFiniteSet(table) /\ \A e \in table : e.at \in Nat
    BY <1>1, ReqType, TableTimes DEF IInv
  <2>3. ListExact(req, got, table)
    <3>1. req.route \in Searches
      BY <1>1
    <3>2. LimitOf(FiltersOf(req)) = IF req.limit = None THEN DefaultLimit ELSE req.limit
      BY <1>5, <2>1, <2>2, <3>1, SearchLimit
    <3> QED
      BY <1>2, <2>1, <2>2, <3>1, <3>2, SearchFinds DEF ListExact
  <2>4. pc' = "answered" /\ reply' = r /\ req' = req
    BY <1>3 DEF Reply
  <2> HIDE DEF got
  <2>5. reply'.rows = got
    BY <1>3, <2>4
  <2>6. ListExact(req', reply'.rows, asked')
    BY <1>1, <2>3, <2>4, <2>5
  <2> QED
    BY <1>5, <2>4, <2>6, SearchExactParts
<1> QED
  BY <1>1, <1>4, <1>5 DEF Searches

\* Events have what is counted.
LEMMA TableCounted == ASSUME IInv PROVE \A e \in table : Counted(e)
<1>1. \A e \in table : e \in Event
  BY ControlApiAssumption, ZenonT(40) DEF IInv, TypeOK
<1> QED
  BY <1>1 DEF Event, Counted

\* What a summary of at most so many events answers.
LEMMA SummaryFound ==
  ASSUME NEW q \in Request, q.route = "simulation", TenantGiven(q), FiltersParse(q),
         NEW T, IsFiniteSet(T), \A e \in T : e.at \in Nat /\ Counted(e),
         NEW s \in Answers(T, FiltersOf(q)),
         Cardinality({e \in T : Wanted(q, e)}) <= Least(MaxLimit, BodyRows)
  PROVE  SummaryFits(Summary(Delivered(s)), {e \in T : Wanted(q, e)})
<1> DEFINE got == Delivered(s)
           wanted == {e \in T : Wanted(q, e)}
           limit == LimitOf(FiltersOf(q))
           c == Cardinality(wanted)
<1>1. q.route \in Searches /\ limit = MaxLimit
  BY SearchLimit DEF Searches
<1>2. /\ got \in Seq(wanted) /\ \A i, j \in 1 .. Len(got) : i # j => got[i] # got[j]
      /\ Cardinality(ToSet(got)) = Len(got) /\ ToSet(got) \subseteq wanted
      /\ \A e \in wanted \ ToSet(got) : Len(got) \in {limit, BodyRows}
  BY <1>1, SearchFinds
<1>3. wanted \in SUBSET T /\ \A e \in wanted : Counted(e)
  OBVIOUS
<1>4. MaxLimit \in Nat /\ BodyRows \in Nat
  BY EventSearchAssumption
<1>5. c <= Least(MaxLimit, BodyRows)
  OBVIOUS
<1>6. Len(got) \in Nat
  BY <1>2
<1> HIDE DEF got, wanted, limit, c
<1>7. IsFiniteSet(wanted) /\ c \in Nat
  BY <1>3, FS_Subset, FS_CardinalityType DEF c
<1>8. c <= MaxLimit /\ c <= BodyRows
  BY <1>4, <1>5, <1>7 DEF Least
<1>9. ToSet(got) = wanted
  <2> SUFFICES ASSUME NEW e \in wanted, e \notin ToSet(got) PROVE FALSE
    BY <1>2
  <2>1. IsFiniteSet(wanted \ {e}) /\ Cardinality(wanted \ {e}) = c - 1
    BY <1>7, FS_RemoveElement DEF c
  <2>2. ToSet(got) \in SUBSET (wanted \ {e})
    BY <1>2
  <2>3. Len(got) <= c - 1
    BY <1>2, <2>1, <2>2, FS_Subset
  <2>4. Len(got) = MaxLimit \/ Len(got) = BodyRows
    BY <1>1, <1>2
  <2> QED
    BY <1>4, <1>6, <1>7, <1>8, <2>3, <2>4
<1>10. TalliesAll(ByRule(got), wanted)
  BY <1>2, <1>3, <1>9, LoopTallies
<1>11. SummaryFits(Summary(got), wanted)
  BY <1>3, <1>7, <1>10, SummaryOfTally
<1> QED
  BY <1>11 DEF got, wanted

\* What SummaryExact says of a list, as a function of the events it is about.
SummarySays(list, W) ==
  LET events(r) == {e \in W : e.would /\ r = IF e.rule = 0 THEN Unknown ELSE e.rule}
      hits(r, p) == Cardinality({e \in events(r) : e.path = p})
      least(m, n) == IF m < n THEN m ELSE n
  IN /\ \A e \in W : e.would => \E k \in DOMAIN list : e \in events(list[k].rule)
     /\ \A j, k \in DOMAIN list : j < k =>
          \/ list[j].count > list[k].count
          \/ list[j].count = list[k].count /\ list[j].rule < list[k].rule
     /\ \A k \in DOMAIN list :
          LET es == events(list[k].rule)
              paths == {e.path : e \in es} \ {0}
              top == list[k].paths
          IN /\ list[k].count = Cardinality(es) /\ es # {}
             /\ list[k].ips = Cardinality({e.ip : e \in es} \ {0})
             /\ ToSet(list[k].samples) \subseteq {e.id : e \in es} \ {0}
             /\ Len(list[k].samples) =
                  least(SampleMax, Cardinality({e \in es : e.id # 0}))
             /\ ToSet(top) \subseteq paths
             /\ Len(top) = least(TopMax, Cardinality(paths))
             /\ \A p \in paths \ ToSet(top), t \in ToSet(top) :
                  hits(list[k].rule, p) <= hits(list[k].rule, t)

\* It says so of a list that fits.
LEMMA FitsSays == ASSUME NEW list, NEW W, SummaryFits(list, W) PROVE SummarySays(list, W)
<1> DEFINE events(r) == {e \in W : e.would /\ r = IF e.rule = 0 THEN Unknown ELSE e.rule}
<1>1. \A r : events(r) = OfRule(W, r)
  BY DEF OfRule, RuleId
<1> HIDE DEF events
<1>2. \A e \in W : e.would => \E k \in DOMAIN list : e \in events(list[k].rule)
  BY <1>1 DEF SummaryFits
<1>3. \A j, k \in DOMAIN list : j < k =>
        \/ list[j].count > list[k].count
        \/ list[j].count = list[k].count /\ list[j].rule < list[k].rule
  BY DEF SummaryFits
<1>4. \A k \in DOMAIN list : EntryFits(list[k], events(list[k].rule))
  BY <1>1 DEF SummaryFits
<1> QED
  BY <1>2, <1>3, <1>4, Zenon
  DEF SummarySays, EntryFits, WithId, OfPath, Least, events

\* SummaryExact, in these words.
SummaryAnswered ==
  LET W == {e \in asked : Wanted(req, e)}
  IN Answered /\ req.route = "simulation" /\ reply.status = 200
     /\ Cardinality(W) <= Least(MaxLimit, BodyRows) => SummarySays(reply.rules, W)

LEMMA SummaryUnfold == SummaryExact <=> SummaryAnswered
BY DEF SummaryExact, SummaryAnswered, SummarySays, Least

LEMMA SummaryUnfoldNext == SummaryExact' <=> SummaryAnswered'
BY SummaryUnfold, PTL

\* getPolicySimulationSummary answers as SummaryExact demands.
LEMMA SummaryKeeps == ASSUME IInv, SearchEvents PROVE SummaryExact'
<1>1. /\ pc = "received" /\ Accepted(req) /\ req.route \in Searches /\ asked' = table
  BY SearchAnswer
<1>2. CASE req.route = "listEvents"
  BY <1>2 DEF SearchEvents, Reply, SummaryExact
<1>3. CASE req.route = "simulation"
  <2>1. PICK s \in Answers(table, FiltersOf(req)) :
          LET found == Delivered(s)
          IN Reply([NoReply EXCEPT !.status = 200, !.rows = found,
                      !.owners = {e.tenant : e \in ToSet(found)},
                      !.rules = IF req.route = "listEvents" THEN <<>> ELSE Summary(found)])
    BY DEF SearchEvents
  <2>2. req' = req /\ reply'.rules = Summary(Delivered(s))
    BY <1>3, <2>1 DEF Reply, NoReply
  <2>3. TenantGiven(req) /\ FiltersParse(req)
    BY <1>1, <1>3 DEF Accepted, PerTenant, Searches
  <2>4. req \in Request /\ IsFiniteSet(table) /\ \A e \in table : e.at \in Nat /\ Counted(e)
    BY <1>1, ReqType, TableTimes, TableCounted DEF IInv
  <2> DEFINE W == {e \in table : Wanted(req, e)}
  <2>5. Cardinality(W) <= Least(MaxLimit, BodyRows) => SummaryFits(Summary(Delivered(s)), W)
    BY <1>3, <2>3, <2>4, SummaryFound
  <2>6. W = {e \in asked' : Wanted(req', e)}
    BY <1>1, <2>2
  <2> HIDE DEF W
  <2> QED
    BY <2>2, <2>5, <2>6, FitsSays, SummaryUnfoldNext DEF SummaryAnswered
<1> QED
  BY <1>1, <1>2, <1>3 DEF Searches

\* The newest event with the id, or none.
LEMMA GetFinds ==
  ASSUME NEW q, TenantGiven(q), NEW T, IsFiniteSet(T), \A e \in T : e.at \in Nat
  PROVE  LET same == {e \in T : e.id = q.number /\ Named(q) = {e.tenant}}
             newest == ById(T, TenantID(q), q.number)
         IN /\ newest = {} => same = {}
            /\ \A e \in newest : e \in same /\ \A d \in same : d.at <= e.at
<1> DEFINE same == {e \in T : e.id = q.number /\ Named(q) = {e.tenant}}
           newest == ById(T, TenantID(q), q.number)
<1>1. same = {e \in T : e.tenant = TenantID(q) /\ e.id = q.number}
  BY OneTenant
<1>2. newest = {e \in same : \A d \in same : e.at >= d.at}
  BY <1>1 DEF ById, InOrder
<1>3. same \in SUBSET T
  OBVIOUS
<1>4. IsFiniteSet(same) /\ \A e \in same : e.at \in Nat
  BY <1>3, FS_Subset
<1> HIDE DEF same, newest
<1>5. newest = {} => same = {}
  BY <1>2, <1>4, NewestExists
<1>6. ASSUME NEW e \in newest PROVE e \in same /\ \A d \in same : d.at <= e.at
  BY <1>2, <1>4, <1>6
<1> QED
  BY <1>5, <1>6 DEF same, newest

\* getEvent answers as SearchExact demands.
LEMMA GetExactKeeps == ASSUME IInv, GetEvent PROVE SearchExact'
<1> DEFINE newest == ById(table, TenantID(req), req.number)
           same == {e \in table : e.id = req.number /\ Named(req) = {e.tenant}}
<1>1. /\ pc = "received" /\ Accepted(req) /\ req.route = "getEvent" /\ asked' = table
      /\ \/ \E e \in newest :
              Reply([NoReply EXCEPT !.status = 200, !.rows = <<e>>, !.owners = {e.tenant}])
         \/ newest = {} /\ Answer(404)
  BY DEF GetEvent, At
<1>2. TenantGiven(req)
  BY <1>1 DEF Accepted, PerTenant
<1>3. IsFiniteSet(table) /\ \A e \in table : e.at \in Nat
  BY TableTimes DEF IInv
<1>4. /\ newest = {} => same = {}
      /\ \A e \in newest : e \in same /\ \A d \in same : d.at <= e.at
  BY <1>2, <1>3, GetFinds
<1>5. CASE newest = {} /\ Answer(404)
  <2> DEFINE r == [NoReply EXCEPT !.status = 404]
  <2>1. Reply(r) /\ r.status = 404
    BY <1>5, ReplyFields DEF Answer
  <2> HIDE DEF r
  <2>2. pc' = "answered" /\ reply' = r /\ req' = req
    BY <2>1 DEF Reply
  <2>3. GetExact(req, r, table)
    BY <1>4, <1>5, <2>1 DEF GetExact
  <2>4. GetExact(req', reply', asked')
    BY <1>1, <2>2, <2>3
  <2> QED
    BY <1>1, <2>2, <2>4, SearchExactParts
<1>6. CASE \E e \in newest :
             Reply([NoReply EXCEPT !.status = 200, !.rows = <<e>>, !.owners = {e.tenant}])
  <2>1. PICK e \in newest :
          Reply([NoReply EXCEPT !.status = 200, !.rows = <<e>>, !.owners = {e.tenant}])
    BY <1>6
  <2> DEFINE r == [NoReply EXCEPT !.status = 200, !.rows = <<e>>, !.owners = {e.tenant}]
  <2>2. Reply(r) /\ r.status = 200 /\ r.rows = <<e>> /\ r.rows[1] = e
    BY <2>1 DEF NoReply
  <2> HIDE DEF r
  <2>3. pc' = "answered" /\ reply' = r /\ req' = req
    BY <2>2 DEF Reply
  <2>4. e \in same /\ \A d \in same : d.at <= e.at
    BY <1>4
  <2>5. GetExact(req, r, table)
    BY <2>2, <2>4 DEF GetExact
  <2>6. GetExact(req', reply', asked')
    BY <1>1, <2>3, <2>5
  <2> QED
    BY <1>1, <2>3, <2>6, SearchExactParts
<1> QED
  BY <1>1, <1>5, <1>6

\* Only SearchEvents and GetEvent answer a search.
LEMMA HandleAnswers ==
  ASSUME IInv, Handle PROVE AnswersNoSearch \/ SearchEvents \/ GetEvent
<1>1. CASE Refuse
  BY <1>1, NoSearchAnswer DEF Refuse
<1>2. CASE Serve
  <2>1. req.route \notin InStore
    BY <1>2 DEF Serve, At, Served, InStore, Searches
  <2> QED
    BY <1>2, <2>1, NoSearchAnswer DEF Serve
<1>3. CASE Fail
  <2> DEFINE st == CASE req.route = "readyz" -> 503
                     [] req.route \in Searches -> 400
                     [] OTHER -> 500
  <2>1. Answer(st)
    BY <1>3 DEF Fail
  <2>2. req.route \notin InStore \/ st \notin {200, 404}
    BY DEF Searches
  <2> HIDE DEF st
  <2> QED
    BY <2>1, <2>2, NoSearchAnswer
<1>4. CASE Panic
  BY <1>4, NoSearchAnswer DEF Panic
<1>5. CASE Return
  BY <1>5 DEF Return, AnswersNoSearch
<1>6. CASE Ready
  BY <1>6, NoSearchAnswer DEF Ready, At, InStore, Searches
<1>7. CASE List
  BY <1>7, NoSearchShow DEF List, At, InStore, Searches
<1>8. CASE ManagedRules
  <2>1. req.route \notin InStore
    BY <1>8 DEF ManagedRules, At, RuleSets, InStore, Searches
  <2> QED
    BY <1>8, <2>1, NoSearchAnswer DEF ManagedRules
<1>9. CASE CreateTenant
  BY <1>9, NoSearchShow DEF CreateTenant, At, InStore, Searches
<1>10. CASE CreateApp
  BY <1>10, NoSearchShow DEF CreateApp, At, InStore, Searches
<1>11. CASE Get
  BY <1>11, NoSearchShow, NoSearchAnswer DEF Get, At, InStore, Searches
<1>12. CASE PatchApp
  <2>1. req.route = "patchApp" /\ req.route \notin InStore
    BY <1>12 DEF PatchApp, At, InStore, Searches
  <2>2. Answer(404) \/ pc' = "committed"
    BY <1>12 DEF PatchApp, Missing
  <2>3. CASE Answer(404)
    BY <2>1, <2>3, NoSearchAnswer
  <2>4. CASE pc' = "committed"
    BY <2>4 DEF AnswersNoSearch
  <2> QED
    BY <2>2, <2>3, <2>4
<1>13. CASE PatchAppAnswer
  <2>1. req.route = "patchApp" /\ req.route \notin InStore
    BY <1>13 DEF PatchAppAnswer, IInv, InProgress, InStore, Searches
  <2> QED
    BY <1>13, <2>1, NoSearchShow, NoSearchAnswer DEF PatchAppAnswer
<1>14. CASE CreatePolicy
  BY <1>14, NoSearchShow, NoSearchAnswer DEF CreatePolicy, At, Missing, InStore, Searches
<1>15. CASE PatchPolicy
  BY <1>15, NoSearchShow, NoSearchAnswer DEF PatchPolicy, At, Missing, InStore, Searches
<1>16. CASE PublishPolicy
  BY <1>16, NoSearchShow, NoSearchAnswer DEF PublishPolicy, At, Missing, InStore, Searches
<1>17. CASE GetGatewayPolicy
  BY <1>17, NoSearchShow, NoSearchAnswer, ZenonT(40) DEF GetGatewayPolicy, At, InStore, Searches
<1>18. CASE SearchEvents
  BY <1>18
<1>19. CASE GetEvent
  BY <1>19
<1> QED
  BY <1>1, <1>2, <1>3, <1>4, <1>5, <1>6, <1>7, <1>8, <1>9, <1>10, <1>11, <1>12, <1>13,
     <1>14, <1>15, <1>16, <1>17, <1>18, <1>19 DEF Handle

\* Every step of a handler keeps SearchExact and SummaryExact.
LEMMA HandleSearch == ASSUME IInv, Handle PROVE SearchExact' /\ SummaryExact'
<1>1. CASE AnswersNoSearch
  BY <1>1, NoSearchExact
<1>2. CASE SearchEvents
  BY <1>2, ListExactKeeps, SummaryKeeps
<1>3. CASE GetEvent
  <2>1. SummaryExact'
    BY <1>3 DEF GetEvent, At, Reply, Answer, SummaryExact
  <2> QED
    BY <1>3, <2>1, GetExactKeeps
<1> QED
  BY <1>1, <1>2, <1>3, HandleAnswers

-----------------------------------------------------------------------------
(***************************************************************************)
(* The theorems.                                                           *)
(***************************************************************************)

\* Every step of a handler keeps the invariant.
LEMMA HandleKeeps == ASSUME IInv, Handle PROVE IInv'
<1>1. CASE Refuse
  BY <1>1, RefuseKeeps
<1>2. CASE Serve
  BY <1>2, ServeKeeps
<1>3. CASE Fail
  BY <1>3, FailKeeps
<1>4. CASE Panic
  BY <1>4, PanicKeeps
<1>5. CASE Return
  BY <1>5, ReturnKeeps
<1>6. CASE Ready
  BY <1>6, ReadyKeeps
<1>7. CASE List
  BY <1>7, ListKeeps
<1>8. CASE ManagedRules
  BY <1>8, ManagedRulesKeeps
<1>9. CASE CreateTenant
  BY <1>9, CreateTenantKeeps
<1>10. CASE CreateApp
  BY <1>10, CreateAppKeeps
<1>11. CASE Get
  BY <1>11, GetKeeps
<1>12. CASE PatchApp
  BY <1>12, PatchAppKeeps
<1>13. CASE PatchAppAnswer
  BY <1>13, PatchAppAnswerKeeps
<1>14. CASE CreatePolicy
  BY <1>14, CreatePolicyKeeps
<1>15. CASE PatchPolicy
  BY <1>15, PatchPolicyKeeps
<1>16. CASE PublishPolicy
  BY <1>16, PublishPolicyKeeps
<1>17. CASE GetGatewayPolicy
  BY <1>17, GetGatewayPolicyKeeps
<1>18. CASE SearchEvents
  BY <1>18, SearchEventsKeeps
<1>19. CASE GetEvent
  BY <1>19, GetEventKeeps
<1> QED
  BY <1>1, <1>2, <1>3, <1>4, <1>5, <1>6, <1>7, <1>8, <1>9, <1>10, <1>11, <1>12,
     <1>13, <1>14, <1>15, <1>16, <1>17, <1>18, <1>19 DEF Handle

\* So does a step that changes nothing.
LEMMA StutterKeeps == ASSUME IInv, UNCHANGED vars PROVE IInv'
<1>1. /\ UNCHANGED <<tenants, apps, policies, deployed, table, writes>>
      /\ UNCHANGED <<pc, req, reply, before, asked>>
  BY DEF vars, db
<1>2. db' = db
  BY <1>1 DEF db
<1>3. TypeOK'
  BY <1>1 DEF IInv, TypeOK
<1>4. IsFiniteSet(table')
  BY <1>1 DEF IInv
<1>5. InProgress'
  <2>1. Confined' <=> Confined
    BY <1>1, <1>2 DEF Confined, TenantID
  <2>2. Accepted(req)' <=> Accepted(req)
    BY <1>1
  <2> QED
    BY <1>1, <1>2, <2>1, <2>2 DEF IInv, InProgress, TenantID
<1>6. Isolation'
  BY <1>1, <1>2 DEF IInv, Isolation, Answered
<1>7. AccessHeld'
  BY <1>1, <1>2 DEF IInv, AccessHeld, Answered
<1>8. Truthful'
  BY <1>1, <1>2 DEF IInv, Truthful, Answered
<1> QED
  BY <1>3, <1>4, <1>5, <1>6, <1>7, <1>8 DEF IInv

\* Only the request's own handler answers it: an event a gateway writes, or a
\* new request, leaves what was answered alone.
LEMMA SearchStep ==
  ASSUME IInv, SearchExact, SummaryExact, [Next]_vars PROVE SearchExact' /\ SummaryExact'
<1>1. CASE \E q \in Requests : Receive(q)
  BY <1>1 DEF Receive, SearchExact, SummaryExact, Answered
<1>2. CASE Handle
  BY <1>2, HandleSearch
<1>3. CASE (\E e \in NewEvents : RecordEvent(e)) \/ UNCHANGED vars
  <2>1. UNCHANGED <<pc, req, reply, asked>>
    BY <1>3 DEF RecordEvent, vars
  <2>2. SearchExact'
    BY <2>1 DEF SearchExact, Answered
  <2>3. SummaryExact'
    BY <2>1, SummaryUnfold, SummaryUnfoldNext DEF SummaryAnswered, Answered
  <2> QED
    BY <2>2, <2>3
<1> QED
  BY <1>1, <1>2, <1>3 DEF Next

\* The inductive invariant holds of every behaviour of the server.
THEOREM Invariance == Spec => []IInv
<1>1. ASSUME IInv, [Next]_vars PROVE IInv'
  <2>1. CASE \E q \in Requests : Receive(q)
    BY <1>1, <2>1, ReceiveKeeps
  <2>2. CASE Handle
    BY <1>1, <2>2, HandleKeeps
  <2>3. CASE \E e \in NewEvents : RecordEvent(e)
    BY <1>1, <2>3, RecordEventKeeps
  <2>4. CASE UNCHANGED vars
    BY <1>1, <2>4, StutterKeeps
  <2> QED
    BY <1>1, <2>1, <2>2, <2>3, <2>4 DEF Next
<1> QED
  BY <1>1, InitHolds, PTL DEF Spec

\* Whatever the requests, the tables and the events, a request reads and
\* changes rows of the tenant it names alone (resolveTenantID and the tenant
\* in the WHERE clauses of the repository and of the event store).
THEOREM IsolationHolds == Spec => []Isolation
<1>1. IInv => Isolation
  BY DEF IInv
<1> QED
  BY <1>1, Invariance, PTL

\* A request without the right token changes and learns nothing, for every
\* choice of the two keys (requireAdmin and requireGateway).
THEOREM AccessHeldHolds == Spec => []AccessHeld
<1>1. IInv => AccessHeld
  BY DEF IInv
<1> QED
  BY <1>1, Invariance, PTL

\* An answer says what became of the tables, also when a statement fails
\* after an earlier one was committed.
THEOREM AnswerTruthfulHolds == Spec => []AnswerTruthful
<1>1. IInv => AnswerTruthful
  BY DEF IInv, TypeOK, Truthful, AnswerTruthful
<1> QED
  BY <1>1, Invariance, PTL

\* A search answers with exactly the newest events the request asks for, as
\* many as its limit allows, for every table of events and every limit.
THEOREM SearchExactHolds == Spec => []SearchExact
<1>1. Init => SearchExact /\ SummaryExact
  BY DEF Init, SearchExact, SummaryExact, Answered
<1> QED
  BY <1>1, SearchStep, Invariance, PTL DEF Spec

\* A summary counts, for every table of events and every value of the limits,
\* each event the policy would have blocked under its rule, with its addresses,
\* its most frequent paths and its samples (BuildSimulationSummary, topPaths).
THEOREM SummaryExactHolds == Spec => []SummaryExact
<1>1. Init => SearchExact /\ SummaryExact
  BY DEF Init, SearchExact, SummaryExact, Answered
<1> QED
  BY <1>1, SearchStep, Invariance, PTL DEF Spec
=============================================================================
