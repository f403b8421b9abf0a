---------------------------- MODULE PolicyLoading ----------------------------
(***************************************************************************)
(* The way of a policy document from an administrator to the gateway:      *)
(* validatePolicySnapshot in the control API, compileGatewayPolicy at      *)
(* publication, toApp and newApp in the gateway, and the evaluation of its *)
(* conditions; or from the gateway's YAML file through LoadFile to newApp. *)
(* Validators written twice have to agree.                                 *)
(*                                                                         *)
(* A string is "named" when it has visible characters, "blank" when it has *)
(* only spaces and "empty" when it is absent.  Modes, actions and key types *)
(* are "odd" when they are none the code knows.  A request is the set of   *)
(* leaf tests it passes.                                                   *)
(*                                                                         *)
(* Conditions are trees of any shape.  What the code computes by calling   *)
(* itself on the children is a recursive function on Conditions; that the  *)
(* trees are finite, as JSON and YAML documents are, is what Height says.  *)
(***************************************************************************)
EXTENDS Integers, Sequences, SequencesExt, FiniteSets

CONSTANTS Drafts,      \* the documents considered
          Conditions,  \* their conditions, and the conditions in those
          Height       \* of each condition, how deep it is

Texts == {"named", "blank", "empty"}

Trimmed(t) == t # "named"          \* strings.TrimSpace(t) == ""

LeafOps == {"method_equals", "header_equals", "client_ip_in_ip_set",
            "client_ip_not_in_ip_set"}

Tests == {"method_equals", "header_equals", "member"}

\* A condition: its leaf operators, the name in the header operator, the
\* set an IP operator refers to, and the children under all and any.
Condition ==
  [ops : SUBSET LeafOps, header : Texts, set : STRING,
   all : Seq(Conditions), any : Seq(Conditions)]

Children(c) == ToSet(c.all) \cup ToSet(c.any)

CustomRule ==
  [id : Texts, name : Texts, action : STRING, status : Int, when : Conditions]

RateLimit ==
  [id : Texts, name : Texts, action : STRING, limit : Int, key : STRING,
   alias : STRING, header : Texts, status : Int, match : Conditions]

Document ==
  [mode : STRING, sets : SUBSET STRING, cidrs : STRING, typed : {"yes", "no"},
   repeats : {"yes", "no"}, rules : Seq(CustomRule), limits : Seq(RateLimit)]

ASSUME LoadingAssumption ==
  /\ \A c \in Conditions :
       /\ c \in Condition
       /\ Height[c] \in Nat
       /\ \A child \in Children(c) : Height[child] < Height[c]
  /\ \A d \in Drafts : d \in Document

Modes == {"count", "block"}
KeyTypes == {"ip", "header"}    \* of ip, host, path, header, api_key_placeholder

\* applyDefaults, on a policy of the YAML file; alias is the deprecated key.
Default(value, absent, default) == IF value = absent THEN default ELSE value

RuleWithDefaults(r) ==
  [r EXCEPT !.action = Default(@, "empty", "count"), !.status = Default(@, 0, 403)]

LimitWithDefaults(l) ==
  [l EXCEPT !.id = Default(@, "empty", l.name),
            !.key = Default(Default(@, "empty", l.alias), "empty", "ip"),
            !.action = Default(@, "empty", "count"),
            !.status = Default(@, 0, 429)]

WithDefaults(d) ==
  [d EXCEPT
     !.mode = Default(@, "unset", "count"),
     !.rules = [i \in DOMAIN d.rules |-> RuleWithDefaults(d.rules[i])],
     !.limits = [i \in DOMAIN d.limits |-> LimitWithDefaults(d.limits[i])]]

Documents == Drafts \cup {WithDefaults(d) : d \in Drafts}

VARIABLES stage,   \* where the document is
          source,  \* "api" or "yaml"
          draft,   \* the document
          mode     \* the policy row's mode, then the compiled one

vars == <<stage, source, draft, mode>>

Stages == {"submitted", "rejected", "stored", "published", "configured", "loaded",
           "refused"}

TypeOK ==
  /\ stage \in Stages
  /\ source \in {"api", "yaml"}
  /\ draft \in Documents
  /\ mode \in Modes

Init ==
  /\ stage = "submitted"
  /\ source \in {"api", "yaml"}
  /\ draft \in Drafts
  /\ mode \in Modes

-----------------------------------------------------------------------------
\* Conditions.

Operators(c) ==
  Cardinality(c.ops) + (IF c.all = <<>> THEN 0 ELSE 1) + (IF c.any = <<>> THEN 0 ELSE 1)

\* operators != 1 is an error, in both validators.  Fault, in either: only
\* a condition without an operator is one.
BugSomeOperator(c) == Operators(c) > 0
ApiOneOperator(c) == Operators(c) = 1
GatewayOneOperator(c) == Operators(c) = 1

KnownSet(c, sets) ==
  c.ops \cap {"client_ip_in_ip_set", "client_ip_not_in_ip_set"} # {} => c.set \in sets

\* validatePolicyCondition
ApiNode(c, sets) ==
  /\ ApiOneOperator(c)
  /\ "header_equals" \in c.ops => ~Trimmed(c.header)
  /\ KnownSet(c, sets)

ApiCondition(c, sets) ==
  LET valid[x \in Conditions] ==
        ApiNode(x, sets) /\ \A child \in Children(x) : valid[child]
  IN valid[c]

\* parseCondition, which calls validateCondition on every node.
GatewayNode(c, sets) ==
  /\ GatewayOneOperator(c)
  /\ "header_equals" \in c.ops => c.header # "empty"
  /\ KnownSet(c, sets)

GatewayCondition(c, sets) ==
  LET valid[x \in Conditions] ==
        GatewayNode(x, sets) /\ \A child \in Children(x) : valid[child]
  IN valid[c]

\* hasPolicyCondition and hasCondition: is there a match at all?
ApiHasCondition(c) == Operators(c) > 0
HasCondition(c) == Operators(c) > 0

LeafHolds(op, req) ==
  CASE op = "client_ip_in_ip_set" -> "member" \in req
    [] op = "client_ip_not_in_ip_set" -> "member" \notin req
    [] OTHER -> op \in req

\* The leaf operator Match looks at: the first that is present.
Looked(c, op) ==
  \/ op = "method_equals"
  \/ op = "header_equals" /\ "method_equals" \notin c.ops
  \/ op = "client_ip_in_ip_set" /\ c.ops \cap {"method_equals", "header_equals"} = {}
  \/ c.ops = {"client_ip_not_in_ip_set"}

\* Condition.Match: all before any before the leaf operators.
Match(c, req) ==
  LET match[x \in Conditions] ==
        (x.all # <<>> /\ \A child \in ToSet(x.all) : match[child])
        \/ (x.all = <<>> /\ x.any # <<>> /\ \E child \in ToSet(x.any) : match[child])
        \/ (x.all = <<>> /\ x.any = <<>>
            /\ \E op \in x.ops : Looked(x, op) /\ LeafHolds(op, req))
  IN match[c]

-----------------------------------------------------------------------------
\* Documents.

\* validatePolicySnapshot.  cidrs are those of ip_sets: an ip_blocklist is
\* checked too, but compileGatewayPolicy does not pass it on.
ApiAccepts(d) ==
  /\ d.mode \in Modes \cup {"unset"}
  /\ d.cidrs = "valid"
  /\ \A r \in ToSet(d.rules) :
       /\ ~Trimmed(r.id) /\ ~Trimmed(r.name)
       /\ r.action \in {"allow", "count", "block"}
       /\ ApiCondition(r.when, d.sets)
  /\ \A l \in ToSet(d.limits) :
       /\ ~Trimmed(l.id) /\ ~Trimmed(l.name)
       /\ l.action \in {"count", "block"}
       /\ l.limit > 0
       /\ l.key \in KeyTypes
       /\ l.key = "header" => ~Trimmed(l.header)
       /\ ApiHasCondition(l.match) => ApiCondition(l.match, d.sets)

\* if _, ok := seen[value.ID]; ids of named rules are their position in
\* the document unless the document repeats one.
Duplicates(d) == d.repeats = "yes"

\* decodeIPSets, decodeCustomRules, decodeRateLimits: json.Unmarshal of
\* every field, also of those the API does not decode.
Decodes(d) == d.typed = "yes"

\* parseIPSets
IPSetsParse(d) == d.cidrs = "valid" /\ "blank" \notin d.sets

\* parseCustomRules
CustomRulesParse(d) ==
  /\ ~Duplicates(d)
  /\ \A r \in ToSet(d.rules) :
       /\ ~Trimmed(r.id) /\ r.name # "empty"
       /\ r.action \in {"allow", "count", "block"}
       /\ r.status \in 0 .. 999
       /\ GatewayCondition(r.when, d.sets)

\* parseRateLimitRules; limit stands for limit and window_seconds.
RateLimitsParse(d) ==
  /\ ~Duplicates(d)
  /\ \A l \in ToSet(d.limits) :
       /\ ~Trimmed(l.id) /\ l.name # "empty"
       /\ l.action \in {"count", "block"}
       /\ l.limit > 0
       /\ l.key \in KeyTypes
       /\ l.key = "header" => l.header # "empty"
       /\ l.status \in 0 .. 999
       /\ HasCondition(l.match) => GatewayCondition(l.match, d.sets)

\* newApp, which does not look at the mode.
NewApp(d) == IPSetsParse(d) /\ CustomRulesParse(d) /\ RateLimitsParse(d)

\* validate: the mode of each app of the YAML file.
Validate(d) == d.mode \in Modes

\* The mode compileGatewayPolicy writes.
CompiledMode == IF draft.mode = "unset" THEN mode ELSE draft.mode

-----------------------------------------------------------------------------
\* POST or PATCH of a policy.
Submit ==
  /\ stage = "submitted" /\ source = "api"
  /\ stage' = IF ApiAccepts(draft) THEN "stored" ELSE "rejected"
  /\ UNCHANGED <<source, draft, mode>>

\* compileGatewayPolicy passes ip_sets, custom_rules and rate_limits on.
Publish ==
  /\ stage = "stored"
  /\ ApiAccepts(draft)
  /\ stage' = "published"
  /\ mode' = CompiledMode
  /\ UNCHANGED <<source, draft>>

\* config.LoadFile at the gateway's start: decode, applyDefaults, validate.
LoadFile ==
  /\ stage = "submitted" /\ source = "yaml"
  /\ IF Decodes(draft) /\ Validate(WithDefaults(draft))
     THEN /\ stage' = "configured"
          /\ draft' = WithDefaults(draft)
          /\ mode' = draft'.mode
     ELSE /\ stage' = "refused"
          /\ UNCHANGED <<draft, mode>>
  /\ UNCHANGED source

\* toApp on a fetched policy, or NewStore at start.
Load ==
  /\ stage \in {"published", "configured"}
  /\ stage' = IF Decodes(draft) /\ NewApp(draft) THEN "loaded" ELSE "refused"
  /\ UNCHANGED <<source, draft, mode>>

Done == stage \in {"rejected", "loaded", "refused"} /\ UNCHANGED vars

Next == Submit \/ Publish \/ LoadFile \/ Load \/ Done

Spec == Init /\ [][Next]_vars

-----------------------------------------------------------------------------
(***************************************************************************)
(* Properties                                                              *)
(***************************************************************************)

\* What a condition means: every operator in it holds.
Holds(c, req) ==
  LET holds[x \in Conditions] ==
        (\A op \in x.ops : LeafHolds(op, req))
        /\ (\A child \in ToSet(x.all) : holds[child])
        /\ (x.any # <<>> => \E child \in ToSet(x.any) : holds[child])
  IN holds[c]

\* A loaded policy means what the document says: its mode is count or
\* block, though newApp does not look at it; and although Match looks at one
\* operator and ignores the others, for every condition of a policy the
\* gateway runs, from the API or from YAML, and for every request, it
\* decides as if all were looked at.
EvaluationFaithful ==
  /\ TypeOK
  /\ stage = "loaded" => \A req \in SUBSET Tests :
      /\ \A r \in ToSet(draft.rules) : Match(r.when, req) <=> Holds(r.when, req)
      /\ \A l \in ToSet(draft.limits) :
           (HasCondition(l.match) => Match(l.match, req)) <=> Holds(l.match, req)

\* A document the control API published is refused by toApp only for what
\* validatePolicySnapshot does not look at: repeated ids, a status_code out
\* of range, an IP set without a name, a field of another JSON type.  On
\* everything both check, the API is at least as strict.
RefusedOnlyUnchecked ==
  stage = "refused" /\ source = "api" =>
    \/ Duplicates(draft) \/ "blank" \in draft.sets \/ draft.typed = "no"
    \/ \E r \in ToSet(draft.rules) : r.status \notin 0 .. 999
    \/ \E l \in ToSet(draft.limits) : l.status \notin 0 .. 999
=============================================================================
