---------------------------- MODULE StorageRules ----------------------------
(***************************************************************************)
(* The decisions of apps/trust-api about application storage: the status   *)
(* of a saved binding, the plan comparison, the binding that a request is  *)
(* routed to (InMemoryAppStorageRegistry.resolve and gate) and what the    *)
(* BindingStorageRouter makes of it.                                       *)
(*                                                                         *)
(* An optional value is a set with at most one element.  A binding is a    *)
(* record with its id, scope, status, disabled flag, generation, the       *)
(* profile's credential mode and the bucket the profile names.             *)
(***************************************************************************)
EXTENDS Naturals, FiniteSets

(* The status of a new binding, and of a binding that is saved again.      *)
NewStatus(mode, roleArn) ==
    IF mode = "cross_account_role" /\ ~roleArn
    THEN "awaiting_customer_role" ELSE "configured"

SavedStatus(mode, roleArn) ==
    IF (mode = "cross_account_role" /\ roleArn) \/ mode = "platform_iam"
    THEN "configured" ELSE "draft"

(* The status after a probe that was asked for and not made.               *)
DeferredStatus(status) ==
    IF status \in {"connected", "draft", "awaiting_customer_role"}
    THEN "configured" ELSE status

(* The comparison of the declared capacity with what was observed.         *)
EvaluatePlanSync(declared, usage, quota, previous) ==
    IF quota = {} /\ usage = {} /\ declared = {} THEN "unknown"
    ELSE IF \E d \in declared, u \in usage : u > d THEN "over_capacity"
    ELSE IF \E q \in quota :
                \/ \E p \in previous : q > p
                \/ previous = {} /\ \E d \in declared : q > d
         THEN "upgrade_recognised"
    ELSE IF \E d \in declared, q \in quota : q # d THEN "drift_detected"
    ELSE IF declared # {} \/ quota # {} THEN "synced"
    ELSE "unknown"

-----------------------------------------------------------------------------
(* A request asks for a route with its purpose, whether it names an        *)
(* application, a tenant of it and the tenant's external key, and the      *)
(* generation it expects.                                                  *)

Route(binding, from, scope, status, allowWrite, reason) ==
    [binding |-> binding, inheritedFrom |-> from, scope |-> scope,
     status |-> status, allowWrite |-> allowWrite, reason |-> reason]

Gate(b, from, scope, ctx) ==
    IF b.disabled
    THEN Route({b}, from, scope, "disabled", FALSE, "disabled")
    ELSE IF b.status = "migrating" /\ \E g \in ctx.generation : g # b.generation
    THEN Route({b}, from, scope, b.status, FALSE, "epoch_mismatch")
    ELSE IF b.status = "migrating" /\ ctx.purpose = "ingest"
    THEN Route({b}, from, scope, b.status, FALSE, "migrate_quarantine")
    ELSE Route({b}, from, scope, b.status, b.status = "connected",
               IF b.status = "connected" THEN "none" ELSE "not_connected")

(* resolve: sticky is the binding the catalogue names for a blob,          *)
(* tenantStatus the status of the tenant the request names, tenantBinding  *)
(* and appBinding the first bindings found for the two scopes.             *)
Resolve(ctx, sticky, tenantStatus, tenantBinding, appBinding) ==
    IF \E s \in sticky : TRUE
    THEN LET s == CHOOSE s \in sticky : TRUE IN
         Route({s}, "none", IF s.scope = "app" THEN "app" ELSE "tenant",
               IF s.disabled THEN "disabled" ELSE s.status, FALSE,
               "sticky_read")
    ELSE IF ctx.externalKey /\ ctx.application /\ ~ctx.tenant
    THEN Route({}, "platform", "platform", "not_configured", FALSE,
               "tenant_spoof_rejected")
    ELSE IF /\ ctx.tenant /\ ctx.application
            /\ \E t \in tenantStatus : t # "active"
            /\ ctx.purpose \in {"ingest", "probe"}
    THEN Route({}, "none", "tenant", "not_configured", FALSE,
               IF tenantStatus = {"suspended"} THEN "tenant_suspended"
               ELSE "tenant_closed")
    ELSE IF ctx.tenant /\ ctx.application /\ tenantBinding # {}
    THEN Gate(CHOOSE b \in tenantBinding : TRUE, "none", "tenant", ctx)
    ELSE IF ctx.application /\ appBinding # {}
    THEN Gate(CHOOSE b \in appBinding : TRUE,
              IF ctx.tenant THEN "app" ELSE "none", "app", ctx)
    ELSE Route({}, "platform", "platform", "not_configured",
               ctx.purpose \in {"ingest", "probe"}, "platform_fallback")

(* BindingStorageRouter: where the bytes of an ingest go.  profile is that *)
(* of the resolved binding; a binding without one falls back to the        *)
(* platform.  A storage is made with the credentials of the platform only. *)
Platform == [to |-> "platform", binding |-> {}]
Refused == [to |-> "refused", binding |-> {}]
Bound(b) == [to |-> "binding", binding |-> b]

ForIngest(enabled, application, resolved, profile) ==
    IF ~enabled \/ ~application THEN Platform
    ELSE IF resolved.inheritedFrom = "platform" \/ resolved.binding = {} \/ profile = {}
    THEN Platform
    ELSE IF ~resolved.allowWrite \/ \E p \in profile : p.mode # "platform_iam" THEN Refused
    ELSE Bound(resolved.binding)
=============================================================================
