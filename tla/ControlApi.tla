------------------------------ MODULE ControlApi ------------------------------
(***************************************************************************)
(* The HTTP server of the control API, services/control-api/internal/      *)
(* httpapi and auth: a request on its way through the middleware, the      *)
(* checks of token and tenant, the decoding and validation of the body,    *)
(* the repository or the event store, and the answer.                      *)
(*                                                                         *)
(* Handlers share nothing but the tables; how their transactions           *)
(* interleave is the subject of ControlPlane.  Here one request is in      *)
(* progress at a time, any statement of it may fail, and the gateways      *)
(* write events meanwhile.                                                 *)
(*                                                                         *)
(* UNIQUE (tenant_id, slug) and UNIQUE (app_id, name) make the pair of     *)
(* tenant and slug an id of an app, and of its policy (one name is used).  *)
(***************************************************************************)
EXTENDS EventSearch

CONSTANTS Tenants,        \* uuids, of rows or not; other texts are no uuid
          Existing,       \* the tenants that exist at first
          Slugs,          \* slugs of apps, each also the app's hostname
          AdminKey, GatewayKey,
          Requests,       \* the requests considered
          NewEvents,      \* the events gateways write
          MaxWrites       \* bound: rows and events written

Ids == Tenants \X Slugs

Public    == {"healthz", "readyz", "metrics", "unknown", "options"}
ForGateway == {"getGatewayPolicy"}
RuleSets  == {"listManagedRuleSets", "listManagedRuleVersions", "activateManagedRuleVersion"}
Global    == RuleSets \cup {"listTenants", "createTenant"}
Searches  == {"listEvents", "simulation"}
PerTenant == Searches \cup {"listApps", "createApp", "getApp", "patchApp",
               "listPolicies", "createPolicy", "getActivePolicy", "getPolicy",
               "patchPolicy", "publishPolicy", "getEvent"}
WithBody  == {"createTenant", "createApp", "patchApp", "createPolicy", "patchPolicy"}
InStore   == Searches \cup {"getEvent"}
Served    == {"healthz", "metrics", "unknown", "options"}

\* body: "refused" fails validation, "stale" has an expected_updated_at that
\* is not the row's, "other" names another tenant.  id and number are those
\* of the path, 0 blank.  limit, from and to are None if absent and -1 if
\* they do not parse.
Request ==
  [route : Public \cup ForGateway \cup Global \cup PerTenant,
   token : STRING, header : STRING, query : STRING,
   body : {"valid", "malformed", "refused", "other", "stale"},
   id : Ids, number : Nat, rule : Nat,
   limit : Int \cup {None}, from : Int \cup {None}, to : Int \cup {None}]

ASSUME ControlApiAssumption ==
  /\ \A q \in Requests : q \in Request
  /\ \A e \in NewEvents : e \in Event
  /\ "" \notin {AdminKey, GatewayKey} \cup Tenants
  /\ Existing \subseteq Tenants
  /\ MaxWrites \in Nat

VARIABLES
  tenants,   \* the rows of tenants
  apps,      \* rows of apps: id -> how often it was written
  policies,  \* rows of policies: id -> how often it was written
  deployed,  \* the policies that have a deployment
  table,     \* waf_events
  writes,    \* counter
  pc,        \* where the request is
  req,       \* the request, None at first
  reply,     \* what was written to the client
  before,    \* history: the tables when the request arrived
  asked      \* history: the events there were when they were queried

db == <<tenants, apps, policies, deployed>>
vars == <<db, table, writes, pc, req, reply, before, asked>>

\* owners: the tenants whose rows the body shows; rows: the events.
NoReply == [status |-> 0, owners |-> {}, rows |-> <<>>, rules |-> <<>>]

TypeOK ==
  /\ tenants \subseteq Tenants
  /\ DOMAIN apps \subseteq tenants \X Slugs
  /\ DOMAIN policies \subseteq DOMAIN apps
  /\ apps \in [DOMAIN apps -> Nat] /\ policies \in [DOMAIN policies -> Nat]
  /\ deployed \subseteq DOMAIN policies
  /\ table \subseteq NewEvents
  /\ writes \in 0 .. MaxWrites
  /\ pc \in {"idle", "received", "committed", "answered"}
  /\ req \in Requests \cup {None}
  /\ reply.status \in {0, 200, 201, 202, 204, 400, 401, 404, 409, 500, 503}
  /\ ToSet(reply.rows) \subseteq asked
  /\ asked \subseteq table

Init ==
  /\ tenants = Existing
  /\ apps = <<>> /\ policies = <<>> /\ deployed = {}
  /\ table = {} /\ writes = 0
  /\ pc = "idle" /\ req = None /\ reply = NoReply
  /\ before = db /\ asked = {}

-----------------------------------------------------------------------------
\* The checks before a handler.

\* Routes: requireGatewayAuth for the gateway's route, requireAuth for the
\* others.  Fault: one key for all.
BugOneKey(route) == AdminKey
KeyFor(route) == IF route \in ForGateway THEN GatewayKey ELSE AdminKey

\* StaticBearer.Authorized.
Authorized(q) == q.route \in Public \/ q.token = KeyFor(q.route)

\* requireTenant and tenantIDFromContext.
TenantID(q) == IF q.header # "" THEN q.header ELSE q.query

\* Fault: header and query may differ, and both be missing.
BugTenantOptional(q) == TRUE
TenantGiven(q) ==
  /\ TenantID(q) # ""
  /\ q.query # "" => q.query = TenantID(q)

\* decodeJSON and the validation of the body; createApp also compares
\* tenant_id.  For getGatewayPolicy it is the hostname that is validated.
BodyAccepted(q) ==
  /\ q.route \in WithBody => q.body \notin {"malformed", "refused"}
  /\ q.route = "createApp" => q.body # "other"
  /\ q.route = "getGatewayPolicy" => q.body # "refused"

\* parseEventFilters and parseSimulationFilters.
FiltersOf(q) ==
  IF q.route = "simulation"
  THEN Filters(TenantID(q), q.number, 0, q.from, q.to, MaxLimit)
  ELSE Filters(TenantID(q), 0, q.rule, q.from, q.to,
               IF q.limit = None THEN DefaultLimit ELSE q.limit)

FiltersParse(q) ==
  /\ -1 \notin {q.from, q.to}
  /\ RangeOK(FiltersOf(q))
  /\ q.route = "simulation" => q.number # 0
  /\ q.route = "listEvents" => q.limit \in 1 .. MaxLimit \cup {None}

Accepted(q) ==
  /\ Authorized(q)
  /\ q.route \in PerTenant => TenantGiven(q)
  /\ BodyAccepted(q)
  /\ q.route \in Searches => FiltersParse(q)

-----------------------------------------------------------------------------
Reply(r) ==
  /\ pc' = "answered"
  /\ reply' = r
  /\ UNCHANGED <<req, before>>

Answer(status) == Reply([NoReply EXCEPT !.status = status])

Show(status, owners) ==
  Reply([NoReply EXCEPT !.status = status, !.owners = owners])

Receive(q) ==
  /\ pc = "idle"
  /\ pc' = "received" /\ req' = q /\ before' = db
  /\ UNCHANGED <<db, table, writes, reply, asked>>

\* requireAuth, requireTenant, decodeJSON and the validations.
Refuse ==
  /\ pc = "received"
  /\ ~Accepted(req)
  /\ Answer(IF Authorized(req) THEN 400 ELSE 401)
  /\ UNCHANGED <<db, table, writes, asked>>

\* The handler returns.
Return ==
  /\ pc = "answered"
  /\ pc' = "idle" /\ req' = None /\ reply' = NoReply /\ asked' = {}
  /\ UNCHANGED <<db, table, writes, before>>

At(route) == pc = "received" /\ req.route = route /\ Accepted(req)

\* healthz, metrics, the catch-all route, and OPTIONS in corsMiddleware.
Serve ==
  /\ \E route \in Served : At(route)
  /\ Answer(CASE req.route = "options" -> 204
              [] req.route = "unknown" -> 404
              [] OTHER -> 200)
  /\ UNCHANGED <<db, table, writes, asked>>

\* A statement, the commit or the event store fails, or the context of the
\* request ends: internalError, but for readyz and the searches.
Fail ==
  /\ pc = "received" /\ Accepted(req)
  /\ req.route \notin Served
  /\ Answer(CASE req.route = "readyz" -> 503
              [] req.route \in Searches -> 400
              [] OTHER -> 500)
  /\ UNCHANGED <<db, table, writes, asked>>

\* A handler panics: recoveryMiddleware answers.
Panic ==
  /\ pc \in {"received", "committed"}
  /\ Answer(500)
  /\ UNCHANGED <<db, table, writes, asked>>

-----------------------------------------------------------------------------
\* The repository.  A tenant id that is no uuid fails in the cast: Fail.

\* WHERE tenant_id = $1 AND id = $2.
Found(rows, id) == id \in DOMAIN rows /\ id[1] = TenantID(req)

Missing(rows) == ~Found(rows, req.id) /\ Answer(404) /\ UNCHANGED <<db, writes>>

IsUuid == TenantID(req) \in Tenants

Write ==
  /\ writes < MaxWrites
  /\ writes' = writes + 1

Insert(rows, id) == [i \in DOMAIN rows \cup {id} |-> IF i = id THEN 0 ELSE rows[i]]

Ready ==
  /\ At("readyz") /\ Answer(200)
  /\ UNCHANGED <<db, table, writes, asked>>

\* listTenants, listApps and listPolicies.
List ==
  /\ \/ At("listTenants") /\ Show(200, tenants)
     \/ /\ At("listApps") /\ IsUuid
        /\ Show(200, {i[1] : i \in {j \in DOMAIN apps : j[1] = TenantID(req)}})
     \/ /\ At("listPolicies") /\ IsUuid
        /\ Show(200, IF Found(policies, req.id) THEN {req.id[1]} ELSE {})
  /\ UNCHANGED <<db, table, writes, asked>>

\* listManagedRuleSets, listManagedRuleVersions, activateManagedRuleVersion:
\* reads of the tables of RuleScan.
ManagedRules ==
  /\ \E route \in RuleSets : At(route)
  /\ IF req.route = "activateManagedRuleVersion"
     THEN \E found \in BOOLEAN : Answer(IF found THEN 202 ELSE 404)
     ELSE Answer(200)
  /\ UNCHANGED <<db, table, writes, asked>>

\* createTenant; a slug in use fails.
CreateTenant ==
  /\ At("createTenant")
  /\ req.id[1] \notin tenants
  /\ Write
  /\ tenants' = tenants \cup {req.id[1]}
  /\ Show(201, {req.id[1]})
  /\ UNCHANGED <<apps, policies, deployed, table, asked>>

\* createApp; a tenant without a row and a slug in use fail.
CreateApp ==
  LET id == <<TenantID(req), req.id[2]>>
  IN /\ At("createApp")
     /\ TenantID(req) \in tenants /\ id \notin DOMAIN apps
     /\ Write
     /\ apps' = Insert(apps, id)
     /\ Show(201, {id[1]})
     /\ UNCHANGED <<tenants, policies, deployed, table, asked>>

\* getApp, getPolicy and getActivePolicy.
Get ==
  /\ \E route \in {"getApp", "getPolicy", "getActivePolicy"} : At(route)
  /\ IsUuid
  /\ LET rows == CASE req.route = "getApp" -> apps
                   [] req.route = "getPolicy" -> policies
                   [] OTHER -> [i \in deployed |-> 0]
     IN \/ Found(rows, req.id) /\ Show(200, {req.id[1]})
        \/ ~Found(rows, req.id) /\ Answer(404)
  /\ UNCHANGED <<db, table, writes, asked>>

\* patchApp up to COMMIT.
PatchApp ==
  /\ At("patchApp") /\ IsUuid
  /\ \/ Missing(apps)
     \/ /\ Found(apps, req.id)
        /\ Write
        /\ apps' = [apps EXCEPT ![req.id] = @ + 1]
        /\ pc' = "committed"
        /\ UNCHANGED <<tenants, policies, deployed, req, reply, before>>
  /\ UNCHANGED <<table, asked>>

\* listOrigins after COMMIT; its failure is an error like any other.  Fault:
\* it is taken for a missing row.
BugLateNotFound == 404
LateStatus == 500

PatchAppAnswer ==
  /\ pc = "committed"
  /\ Show(200, {req.id[1]}) \/ Answer(LateStatus)
  /\ UNCHANGED <<db, table, writes, asked>>

\* createPolicy: GetApp, then INSERT; a name in use fails.
CreatePolicy ==
  /\ At("createPolicy") /\ IsUuid
  /\ \/ Missing(apps)
     \/ /\ Found(apps, req.id) /\ req.id \notin DOMAIN policies
        /\ Write
        /\ policies' = Insert(policies, req.id)
        /\ Show(201, {req.id[1]})
        /\ UNCHANGED <<tenants, apps, deployed>>
  /\ UNCHANGED <<table, asked>>

\* patchPolicy: ErrNotFound, ErrConflict, or the row is written.
PatchPolicy ==
  /\ At("patchPolicy") /\ IsUuid
  /\ \/ Missing(policies)
     \/ /\ Found(policies, req.id) /\ req.body = "stale"
        /\ Answer(409)
        /\ UNCHANGED <<db, writes>>
     \/ /\ Found(policies, req.id) /\ req.body # "stale"
        /\ Write
        /\ policies' = [policies EXCEPT ![req.id] = @ + 1]
        /\ Show(200, {req.id[1]})
        /\ UNCHANGED <<tenants, apps, deployed>>
  /\ UNCHANGED <<table, asked>>

\* publishPolicy: validatePolicySnapshot may refuse the draft it reads.
PublishPolicy ==
  /\ At("publishPolicy") /\ IsUuid
  /\ \/ Missing(policies)
     \/ /\ Found(policies, req.id)
        /\ Answer(400)
        /\ UNCHANGED <<db, writes>>
     \/ /\ Found(policies, req.id)
        /\ Write
        /\ policies' = [policies EXCEPT ![req.id] = @ + 1]
        /\ deployed' = deployed \cup {req.id}
        /\ Show(201, {req.id[1]})
        /\ UNCHANGED <<tenants, apps>>
  /\ UNCHANGED <<table, asked>>

\* getGatewayPolicy: by hostname, of whichever tenant.
GetGatewayPolicy ==
  /\ At("getGatewayPolicy")
  /\ LET rows == {i \in deployed : i[2] = req.id[2]}
     IN \/ \E i \in rows : Show(200, {i[1]})
        \/ rows = {} /\ Answer(404)
  /\ UNCHANGED <<db, table, writes, asked>>

-----------------------------------------------------------------------------
\* The event store.

\* Events come from the gateways at any time, in any order of timestamps.
RecordEvent(e) ==
  /\ e \notin table
  /\ Write
  /\ table' = table \cup {e}
  /\ UNCHANGED <<db, pc, req, reply, before, asked>>

\* listEvents and getPolicySimulationSummary.
SearchEvents ==
  /\ \E route \in Searches : At(route)
  /\ QueryAccepted(FiltersOf(req))
  /\ \E s \in Answers(table, FiltersOf(req)) :
       LET found == Delivered(s)
       IN Reply([NoReply EXCEPT !.status = 200, !.rows = found,
                   !.owners = {e.tenant : e \in ToSet(found)},
                   !.rules = IF req.route = "listEvents" THEN <<>> ELSE Summary(found)])
  /\ asked' = table
  /\ UNCHANGED <<db, table, writes>>

\* getEvent; a blank id is an error.
GetEvent ==
  /\ At("getEvent") /\ req.number # 0
  /\ LET rows == ById(table, TenantID(req), req.number)
     IN \/ \E e \in rows : Reply([NoReply EXCEPT !.status = 200, !.rows = <<e>>,
                                    !.owners = {e.tenant}])
        \/ rows = {} /\ Answer(404)
  /\ asked' = table
  /\ UNCHANGED <<db, table, writes>>

-----------------------------------------------------------------------------
Handle ==
  \/ Refuse \/ Serve \/ Fail \/ Panic \/ Return
  \/ Ready \/ List \/ ManagedRules \/ CreateTenant \/ CreateApp \/ Get
  \/ PatchApp \/ PatchAppAnswer \/ CreatePolicy \/ PatchPolicy
  \/ PublishPolicy \/ GetGatewayPolicy \/ SearchEvents \/ GetEvent

Next ==
  \/ \E q \in Requests : Receive(q)
  \/ Handle
  \/ \E e \in NewEvents : RecordEvent(e)

Spec == Init /\ [][Next]_vars

-----------------------------------------------------------------------------
(***************************************************************************)
(* Properties                                                              *)
(***************************************************************************)

Answered == pc = "answered"

\* The tenants a request names.
Named(q) == {q.header, q.query} \ {""}

\* What the tables hold of a tenant.
RowsOf(t, d) ==
  LET own(ids) == {i \in ids : i[1] = t}
  IN <<t \in d[1], [i \in own(DOMAIN d[2]) |-> d[2][i]],
       [i \in own(DOMAIN d[3]) |-> d[3][i]], own(d[4])>>

\* A request on a tenant's route shows and changes rows and events of the
\* one tenant it names, whatever ids it carries: BuildSearchQuery leaves the
\* tenant clause out for a blank tenant, and only requireTenant prevents it.
Isolation ==
  Answered /\ req.route \in PerTenant =>
    /\ \A t \in reply.owners : Named(req) = {t}
    /\ \A t \in Tenants : RowsOf(t, db) # RowsOf(t, before) => Named(req) = {t}

\* Rows are shown or changed only for the key of the route's class: neither
\* key opens the routes of the other, nor does a preflight or an open route.
AccessHeld ==
  Answered /\ (reply.owners # {} \/ db # before) =>
    /\ req.route \notin Public
    /\ req.token = IF req.route = "getGatewayPolicy" THEN GatewayKey ELSE AdminKey

\* An answer tells what happened: after a 4xx nothing has changed, after a
\* 2xx to a write the tables have changed.  A 500 tells neither: UpdateApp
\* may fail after its commit.
AnswerTruthful ==
  TypeOK /\ (Answered =>
    /\ reply.status \in 400 .. 499 => db = before
    /\ reply.status \in {200, 201} /\ req.route \in WithBody \cup {"publishPolicy"} =>
         db # before)

\* The events a search is about.
Wanted(q, e) ==
  /\ Named(q) = {e.tenant}
  /\ IF q.route = "simulation" THEN e.policy = q.number ELSE q.rule \in {0, e.rule}
  /\ q.from # None => q.from <= e.at
  /\ q.to # None => e.at <= q.to

\* listEvents answers with the newest events of the tenant, range and rule,
\* newest first.  One that is missing is no newer than those shown, and is
\* missing because the limit or the 10 MiB of the body are full.  getEvent
\* answers with the newest event that has the request id, which nothing in
\* the store keeps unique, and with 404 only if the tenant has none.
SearchExact ==
  /\ Answered /\ req.route = "listEvents" /\ reply.status = 200 =>
       LET got == reply.rows
           limit == IF req.limit = None THEN DefaultLimit ELSE req.limit
           wanted == {e \in asked : Wanted(req, e)}
       IN /\ Len(got) <= limit
          /\ Cardinality(ToSet(got)) = Len(got) /\ ToSet(got) \subseteq wanted
          /\ \A i, j \in DOMAIN got : i < j => got[i].at >= got[j].at
          /\ \A e \in wanted \ ToSet(got) :
               /\ Len(got) \in {limit, BodyRows}
               /\ \A d \in ToSet(got) : d.at >= e.at
  /\ Answered /\ req.route = "getEvent" /\ reply.status \in {200, 404} =>
       LET same == {e \in asked : e.id = req.number /\ Named(req) = {e.tenant}}
       IN IF reply.status = 404 THEN same = {}
          ELSE reply.rows[1] \in same /\ \A e \in same : e.at <= reply.rows[1].at

\* The summary of a policy counts every event it would have blocked, under
\* its rule, as long as the policy's events fit in one search: rules, the
\* blank id as "unknown", by count; addresses; the most frequent paths; and
\* as many samples as there are, up to the limit.
SummaryExact ==
  LET wanted == {e \in asked : Wanted(req, e)}
      events(r) == {e \in wanted : e.would /\ r = IF e.rule = 0 THEN Unknown ELSE e.rule}
      hits(r, p) == Cardinality({e \in events(r) : e.path = p})
      least(m, n) == IF m < n THEN m ELSE n
      list == reply.rules
  IN Answered /\ req.route = "simulation" /\ reply.status = 200
     /\ Cardinality(wanted) <= least(MaxLimit, BodyRows) =>
       /\ \A e \in wanted : e.would => \E k \in DOMAIN list : e \in events(list[k].rule)
       /\ \A j, k \in DOMAIN list : j < k =>
            \/ list[j].count > list[k].count
            \/ list[j].count = list[k].count /\ list[j].rule < list[k].rule
       /\ \A k \in DOMAIN list :
            LET es == events(list[k].rule)
                paths == {e.path : e \in es} \ {0}
                top == list[k].paths
            IN /\ list[k].count = Cardinality(es) /\ es # {}
               /\ list[k].ips = Cardinality({e.ip : e \in es} \ {0})
               /\ ToSet(list[k].samples) \subseteq {e.id : e \in es} \ {0}
               /\ Len(list[k].samples) =
                    least(SampleMax, Cardinality({e \in es : e.id # 0}))
               /\ ToSet(top) \subseteq paths
               /\ Len(top) = least(TopMax, Cardinality(paths))
               /\ \A p \in paths \ ToSet(top), t \in ToSet(top) :
                    hits(list[k].rule, p) <= hits(list[k].rule, t)
=============================================================================
