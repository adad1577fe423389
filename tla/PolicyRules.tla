----------------------------- MODULE PolicyRules -----------------------------
(***************************************************************************)
(* packages/policy: who may do what.  A decision is made from a principal, *)
(* an action, a scope, and three lists read from the database: role        *)
(* assignments, registered applications and break-glass grants.  The       *)
(* operators are the functions of that package and the gateway of          *)
(* apps/trust-api/src/access.ts that calls them.                           *)
(*                                                                         *)
(* An optional value is a set with at most one element.                    *)
(***************************************************************************)
EXTENDS Naturals, FiniteSets

ContentActions ==
    {"dataset:read", "dataset:write", "dataset:manage", "resource:read",
     "revision:create", "resource:delete", "resource:restore", "blob:read",
     "object:ingest", "relation:read", "relation:write", "history:read",
     "retention:manage", "purge:execute"}

InfrastructureActions ==
    {"workspace:read", "control:read", "audit:read", "verification:run",
     "health:read", "storage:probe_ingest", "storage:manage",
     "operation:process", "portability:read"}

SecurityActions ==
    {"workspace:manage", "access:manage", "break_glass:grant",
     "break_glass:revoke", "break_glass:use", "portability:plan",
     "portability:export", "portability:execute"}

PolicyActions == ContentActions \cup InfrastructureActions \cup SecurityActions

BreakGlassEligible ==
    {"dataset:read", "resource:read", "resource:restore", "blob:read", "history:read"}

Roles ==
    {"owner", "admin", "editor", "recovery_operator", "auditor", "worker",
     "infrastructure_operator"}

RoleCapabilities ==
    [owner |-> PolicyActions \ {"operation:process"},
     admin |-> PolicyActions \ {"operation:process", "break_glass:use"},
     editor |->
        {"dataset:read", "dataset:write", "resource:read", "revision:create",
         "blob:read", "object:ingest", "relation:read", "relation:write"},
     recovery_operator |->
        {"dataset:read", "resource:read", "resource:restore", "history:read",
         "portability:read", "portability:plan", "portability:execute"},
     auditor |->
        {"workspace:read", "control:read", "dataset:read", "resource:read",
         "blob:read", "relation:read", "history:read", "audit:read",
         "verification:run", "health:read", "portability:read"},
     worker |-> {"health:read", "operation:process"},
     infrastructure_operator |->
        {"workspace:read", "control:read", "audit:read", "verification:run",
         "health:read", "portability:read"}]

(* A role the table does not know has no capability. *)
CapabilitiesForRole(role) ==
    IF role \in Roles THEN RoleCapabilities[role] ELSE {}

(***************************************************************************)
(* principal: [id, type, roles, workspaces]                                *)
(* scope:     [workspace, dataset, application]; the last two optional     *)
(* assignment: [id, workspace, type, principal, role, kind, scope, revoked]*)
(* application: [id, namespace, workspace, capabilities, status]           *)
(* grant: [id, workspace, principal, actions, from, until, revoked]        *)
(***************************************************************************)
\* Mutant: a user and an application of the same id are not told apart.
AnyTypeMatches(a, principal, scope) ==
    /\ ~a.revoked
    /\ a.workspace = scope.workspace
    /\ a.principal = principal.id
    /\ \/ a.kind = "workspace" /\ a.scope = scope.workspace
       \/ a.kind = "dataset" /\ a.scope \in scope.dataset
       \/ a.kind = "application" /\ a.scope \in scope.application

AssignmentMatches(a, principal, scope) ==
    /\ ~a.revoked
    /\ a.workspace = scope.workspace
    /\ a.type = principal.type
    /\ a.principal = principal.id
    /\ \/ a.kind = "workspace" /\ a.scope = scope.workspace
       \/ a.kind = "dataset" /\ a.scope \in scope.dataset
       \/ a.kind = "application" /\ a.scope \in scope.application

(* The roles of the identity token count in the workspaces it names. *)
ClaimedRoleAssignments(principal, scope) ==
    IF scope.workspace \notin principal.workspaces
    THEN {}
    ELSE {[id |-> <<"identity-claim", role>>, workspace |-> scope.workspace,
           type |-> principal.type, principal |-> principal.id, role |-> role,
           kind |-> "workspace", scope |-> scope.workspace, revoked |-> FALSE] :
             role \in principal.roles}

(* At most one element: ids, and the namespaces of a workspace, are unique. *)
RegisteredApplication(principal, scope, applications) ==
    {a \in applications :
        /\ a.workspace = scope.workspace
        /\ a.status = "active"
        /\ principal.id \in {a.id, a.namespace}}

ActiveBreakGlass(principal, action, scope, grants, at) ==
    IF action \notin BreakGlassEligible
    THEN {}
    ELSE {g \in grants :
            /\ g.workspace = scope.workspace
            /\ g.principal = principal.id
            /\ ~g.revoked
            /\ action \in g.actions
            /\ g.from <= at
            /\ g.until > at}

Denied(reason) == [allowed |-> FALSE, source |-> reason, grounds |-> {}]

(***************************************************************************)
(* evaluatePolicy.  The code stops at the first assignment or grant that   *)
(* applies; grounds is the set it takes that one from.                     *)
(***************************************************************************)
EvaluatePolicy(principal, action, scope, assignments, applications, grants, at) ==
    LET registered == RegisteredApplication(principal, scope, applications)
        roles == {a \in assignments \cup ClaimedRoleAssignments(principal, scope) :
                    /\ AssignmentMatches(a, principal, scope)
                    /\ action \in CapabilitiesForRole(a.role)}
        glass == ActiveBreakGlass(principal, action, scope, grants, at)
    IN  IF principal.type = "application" /\ registered = {}
        THEN Denied("unregistered_application")
        ELSE IF /\ principal.type = "application"
                /\ \A a \in registered : action \notin a.capabilities
        THEN Denied("application_capability_denied")
        ELSE IF roles # {}
        THEN [allowed |-> TRUE, source |-> "role", grounds |-> {a.id : a \in roles}]
        ELSE IF glass # {}
        THEN [allowed |-> TRUE, source |-> "break_glass", grounds |-> {g.id : g \in glass}]
        ELSE Denied("no_matching_assignment")

(***************************************************************************)
(* StaticTokenAccessGateway.allows.  An application may only use the       *)
(* routes that admit applications, is confined to itself, and is the only  *)
(* kind of principal whose application scope reaches the policy.           *)
(***************************************************************************)
GatewayAllows(principal, action, scope, admits, assignments, applications, grants, at) ==
    LET registered == RegisteredApplication(principal, scope, applications)
        self == {a.id : a \in registered}
        own == [scope EXCEPT !.application =
                    IF principal.type = "application" THEN self ELSE {}]
    IN  IF /\ principal.type = "application"
           /\ \/ registered = {}
              \/ ~admits
              \/ ~(scope.application \subseteq self)
        THEN Denied("application_not_admitted")
        ELSE EvaluatePolicy(principal, action, own, assignments, applications, grants, at)
=============================================================================
