----------------------------- MODULE MCControlApi -----------------------------
(* ControlApi with two tenants, one slug and a few requests of each kind.   *)
EXTENDS ControlApi

Q(route, token, header, query, body, id) ==
  [route |-> route, token |-> token, header |-> header, query |-> query,
   body |-> body, id |-> id, number |-> 1, rule |-> 0,
   limit |-> None, from |-> None, to |-> None]

\* Every route with every key.
Keys == {Q(r, k, "t1", "", "valid", <<"t1", "s">>) :
           r \in Public \cup ForGateway \cup Global \cup PerTenant,
           k \in {AdminKey, GatewayKey, ""}}

\* Every way to name a tenant, and the ids of both tenants.
Names == {Q(r, AdminKey, h, n, "valid", <<t, "s">>) :
            r \in PerTenant \ InStore, t \in Tenants,
            h \in {"t1", "t2"}, n \in {""}}
         \cup {Q(r, AdminKey, h, n, "valid", <<"t1", "s">>) :
            r \in {"getApp", "createApp", "listEvents", "getEvent"},
            h \in {"", "t2", "junk"}, n \in {"", "t1"}}

Bodies == {Q(r, AdminKey, "t1", "", b, <<"t1", "s">>) :
             r \in WithBody \cup ForGateway,
             b \in {"malformed", "refused", "other", "stale"}}
          \cup {Q("getGatewayPolicy", GatewayKey, "", "", "refused", <<"t1", "s">>),
                Q("createTenant", AdminKey, "", "", "valid", <<"t2", "s">>)}

Search(route, tenant, number, rule, limit, from, to) ==
  [Q(route, AdminKey, tenant, "", "valid", <<"t1", "s">>) EXCEPT
     !.number = number, !.rule = rule, !.limit = limit, !.from = from, !.to = to]

EventQueries ==
  {Search("listEvents", t, 1, r, l, f, u) :
     t \in {"t1", "t2"}, r \in {0, 1}, l \in {None, 2, MaxLimit},
     f \in {None, 2}, u \in {None, 1}}
  \cup {Search("listEvents", "t1", 1, 0, l, 1, u) : l \in {0, MaxLimit + 1, None}, u \in {0, -1}}
  \cup {Search("simulation", "t1", p, 0, None, f, u) :
          p \in {0, 1}, f \in {None, 2}, u \in {None, 1}}
  \cup {Search("getEvent", t, i, 0, None, None, None) : t \in {"t1", "t2"}, i \in {0, 1, 2}}

AllRequests == Keys \cup Names \cup Bodies \cup EventQueries

E(key, at, id, tenant, rule, ip, path, would) ==
  [key |-> key, at |-> at, id |-> id, tenant |-> tenant, policy |-> 1,
   rule |-> rule, ip |-> ip, path |-> path, name |-> rule, would |-> would]

FewEvents ==
  {E(1, 1, 1, "t1", 1, 1, 1, TRUE), E(2, 1, 1, "t1", 1, 1, 1, TRUE),
   E(3, 2, 2, "t1", 1, 2, 2, TRUE), E(4, 1, 2, "t1", 0, 1, 1, TRUE),
   E(5, 2, 0, "t1", 2, 0, 0, TRUE), E(6, 2, 1, "t2", 1, 1, 1, TRUE),
   E(7, 2, 2, "t1", 1, 1, 1, FALSE)}
=============================================================================
