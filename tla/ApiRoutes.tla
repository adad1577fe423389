------------------------------ MODULE ApiRoutes ------------------------------
(***************************************************************************)
(* The routes of the Trust API (apps/trust-api/src/app.ts): which action   *)
(* each asks permission for, how the scope of that permission is found,    *)
(* which body it accepts, and which workspace the command it runs is told. *)
(*                                                                         *)
(* A route is a record.                                                    *)
(*   method, path                                                          *)
(*   action   what the actor must be allowed to do                         *)
(*   scope    "workspace", "dataset", "resource", "verification" or        *)
(*            "report": where the dataset of the scope comes from          *)
(*   apps     whether an application may be the actor                      *)
(*   body     the name of its validator, or "none"                         *)
(*   takes    the workspace given to the command: "authorised" is the one  *)
(*            that was checked; "body" is the body as it came; "overlay"   *)
(*            is the checked one under the fields of the body; "underlay"  *)
(*            is the checked one over them                                 *)
(*   needs    the provider without which the route answers 501             *)
(*   reauth   whether a fresh proof of identity is asked for               *)
(***************************************************************************)
EXTENDS PolicyRules

Get(path, action) ==
    [method |-> "GET", path |-> path, action |-> action, scope |-> "workspace",
     apps |-> FALSE, body |-> "none", takes |-> "authorised",
     needs |-> "commands", reauth |-> FALSE]

Send(method, path, action, body) ==
    [Get(path, action) EXCEPT !.method = method, !.body = body, !.takes = "body"]

Post(path, action, body) == Send("POST", path, action, body)

Within(scope, route) == [route EXCEPT !.scope = scope]

ForApps(route) == [route EXCEPT !.apps = TRUE]

Telling(takes, route) == [route EXCEPT !.takes = takes]

Needing(provider, route) == [route EXCEPT !.needs = provider]

Reauth(route) == [route EXCEPT !.reauth = TRUE]

ApplicationRoutes ==
    {Get("/workspaces", "workspace:read"),
     Get("/applications", "workspace:read"),
     Post("/applications", "workspace:manage", "validApplication")}

TenantRoutes ==
    {Needing("storage", r) : r \in
       {Get("/applications/tenants", "workspace:read"),
        Post("/applications/tenants", "storage:manage", "validCreateApplicationTenant"),
        Get("/applications/tenants/:id", "workspace:read"),
        Send("PUT", "/applications/tenants/:id", "storage:manage", "validUpdateApplicationTenant"),
        Post("/applications/tenants/:id/suspend", "storage:manage", "validTenantStatusCommand"),
        Post("/applications/tenants/:id/close", "storage:manage", "validTenantStatusCommand")}}

StorageReadRoutes ==
    {Needing("storage", r) : r \in
       {Get("/applications/storage", "workspace:read"),
        Get("/applications/tenants/:id/storage", "workspace:read"),
        Get("/storage/bindings/rollup", "workspace:read"),
        Get("/storage/bindings", "workspace:read"),
        Get("/storage/bindings/:id", "workspace:read")}}

BindingRoutes ==
    {Needing("storage", r) : r \in
       {Post("/storage/bindings", "storage:manage", "validUpsertStorageBinding"),
        Telling("authorised",
            Send("DELETE", "/storage/bindings/:id", "storage:manage", "none")),
        Telling("overlay",
            Post("/storage/bindings/:id/probe", "storage:manage", "validProbeStorageBinding")),
        Telling("overlay",
            Post("/storage/bindings/:id/plan/refresh", "storage:manage", "validRefreshStoragePlan")),
        Telling("underlay",
            Post("/storage/bindings/:id/plan/accept", "storage:manage", "validAcceptStoragePlan")),
        Telling("authorised",
            Post("/storage/bindings/:id/disable", "storage:manage", "none")),
        Telling("authorised",
            Post("/storage/bindings/:id/rollback", "storage:manage", "none")),
        Post("/storage/bindings/migrate/cutover", "storage:manage", "validCutoverStorageMigrate")}}

GovernanceRoutes ==
    {Get("/policy-assignments", "access:manage"),
     Post("/policy-assignments", "access:manage", "validPolicyAssignment"),
     Send("DELETE", "/policy-assignments/:id", "access:manage", "validPolicyRevocation"),
     Get("/schemas", "workspace:read"),
     Get("/schemas/:id", "workspace:read"),
     Get("/datasets", "dataset:read"),
     Within("dataset", Get("/datasets/:id", "dataset:read")),
     Get("/retention-policies", "dataset:read"),
     Post("/retention-policies", "retention:manage", "validRetentionPolicy"),
     Get("/retention-policies/:id", "dataset:read"),
     Send("PUT", "/retention-policies/:id", "retention:manage", "validRetentionPolicyUpdate")}

ResourceRoutes ==
    {ForApps(Get("/resources", "resource:read")),
     Within("resource", Get("/resources/:id", "resource:read")),
     Within("resource", Get("/resources/:id/revision-graph", "resource:read")),
     Within("resource", Post("/resources/:id/revisions", "revision:create", "validRevision")),
     Within("resource", Post("/resources/:id/delete", "resource:delete", "validDelete")),
     Within("resource", Post("/resources/:id/restore", "resource:restore", "validRestore")),
     ForApps(Get("/deleted-resources", "history:read")),
     ForApps(Get("/relations", "relation:read")),
     Get("/history", "history:read"),
     Get("/audit/events", "audit:read")}

VerificationRoutes ==
    {Within("verification", Post("/verification/runs", "verification:run", "validVerification")),
     Get("/verification/reports", "verification:run"),
     Within("report", Get("/verification/reports/:id", "verification:run")),
     Get("/operations/:id", "health:read"),
     Get("/health/storage", "health:read"),
     Post("/health/storage/probe", "health:read", "validProbeStorage"),
     Post("/health/storage/probe/ingest", "storage:probe_ingest", "validProbeStorage"),
     Get("/health/backup", "health:read"),
     Get("/control-centre/snapshot", "control:read")}

TransferRoutes ==
    {ForApps(r) : r \in
       {Post("/uploads", "object:ingest", "validCreateUpload"),
        Get("/uploads/:id", "object:ingest"),
        Get("/uploads/:id/scan-status", "object:ingest"),
        Post("/uploads/:id/complete", "object:ingest", "validCompleteUpload"),
        Needing("grants", Post("/blobs/download-grants", "blob:read", "validCreateDownloadGrant")),
        Needing("ingest", Post("/objects/ingest", "object:ingest", "validObjectIngest"))}}

PortabilityRoutes ==
    {Needing("portability", r) : r \in
       {Reauth(Post("/portability/exports", "portability:export", "validArchiveExport")),
        Reauth(Get("/portability/exports/:id/download", "portability:export")),
        Post("/portability/archives", "portability:plan", "validArchiveUpload"),
        Get("/portability/archives/:id", "portability:read"),
        Post("/portability/plans", "portability:plan", "validImportPlan"),
        Get("/portability/plans/:id", "portability:read"),
        Reauth(Post("/portability/plans/:id/execute", "portability:execute", "validExecuteImport")),
        Get("/portability/operations/:id", "portability:read")}}

Routes ==
    ApplicationRoutes \cup TenantRoutes \cup StorageReadRoutes \cup BindingRoutes
      \cup GovernanceRoutes \cup ResourceRoutes \cup VerificationRoutes
      \cup TransferRoutes \cup PortabilityRoutes

(***************************************************************************)
(* Bodies.  A body is absent, or a function from its fields to "good"      *)
(* (present, and of the form its validator wants) or "bad"; a field that   *)
(* is not in its domain is absent.  The workspace is kept apart because    *)
(* its value matters: [workspace, fields], workspace being a workspace,    *)
(* "blank" (present and not a usable name) or "absent".                    *)
(***************************************************************************)
Validator(required, optional) == [required |-> required, optional |-> optional, bare |-> FALSE]

(* A validator that accepts a body without a workspace, or no body. *)
Lenient(optional) == [required |-> {}, optional |-> optional, bare |-> TRUE]

CommandValidators ==
    [validApplication |->
        Validator({"namespace", "name", "applicationVersion", "idempotencyKey",
                   "schemaPackageIds", "capabilities"}, {}),
     validRevision |->
        Validator({"expectedRevisionId", "schemaPackageId", "schemaVersion",
                   "canonicalPayload"}, {"changeNote"}),
     validPolicyAssignment |->
        Validator({"principalId", "scopeId", "idempotencyKey", "principalType", "role",
                   "scopeKind"}, {}),
     validPolicyRevocation |-> Validator({"idempotencyKey"}, {}),
     validDelete |-> Validator({"expectedRevisionId", "recoverUntil"}, {"reason"}),
     validRetentionPolicy |->
        Validator({"name", "idempotencyKey", "recoveryWindowDays", "minimumHistoryDays",
                   "backupRetentionDays", "purgeEnabled"}, {"extensions"}),
     validRetentionPolicyUpdate |->
        Validator({"name", "idempotencyKey", "recoveryWindowDays", "minimumHistoryDays",
                   "backupRetentionDays", "purgeEnabled", "expectedUpdatedAt"}, {"extensions"}),
     validRestore |-> Validator({}, {"changeNote"}),
     validVerification |-> Validator({"level"}, {"scope"}),
     validProbeStorage |-> Validator({}, {"tier"})]

StorageValidators ==
    [validCreateApplicationTenant |->
        Validator({"externalTenantKey", "displayName", "idempotencyKey"}, {}),
     validUpdateApplicationTenant |->
        Validator({"displayName", "expectedUpdatedAt", "idempotencyKey"}, {}),
     validTenantStatusCommand |-> Validator({"expectedUpdatedAt", "idempotencyKey"}, {}),
     validUpsertStorageBinding |->
        Validator({"applicationId", "provider", "region", "bucket", "tier",
                   "credentialMode", "idempotencyKey"}, {}),
     validProbeStorageBinding |-> Lenient({"tier"}),
     validRefreshStoragePlan |-> Lenient({"observedQuotaBytes", "observedUsageBytes"}),
     validAcceptStoragePlan |-> Validator({"declaredCapacityBytes"}, {}),
     validCutoverStorageMigrate |->
        Validator({"sourceBindingId", "targetBindingId", "idempotencyKey", "objectDigests"}, {})]

TransferValidators ==
    [validObjectIngest |-> Validator({"idempotencyKey", "mediaType", "bytesBase64"}, {}),
     validCreateUpload |->
        Validator({"idempotencyKey", "mediaType", "expectedByteLength", "expectedSha256"},
                  {"expiresInSeconds"}),
     validCompleteUpload |-> Validator({"bytesBase64"}, {}),
     validCreateDownloadGrant |->
        Validator({"objectId", "idempotencyKey", "requestedTtlSeconds"}, {"fileName"}),
     validArchiveUpload |-> Validator({"idempotencyKey", "archiveBase64"}, {}),
     validArchiveExport |-> Validator({"idempotencyKey", "datasetIds"}, {}),
     validImportPlan |-> Validator({"archiveId", "idempotencyKey", "mode", "conflictMode"}, {}),
     validExecuteImport |-> Validator({"idempotencyKey", "confirmation"}, {})]

ValidatorNamed(name) ==
    IF name \in DOMAIN CommandValidators THEN CommandValidators[name]
    ELSE IF name \in DOMAIN StorageValidators THEN StorageValidators[name]
    ELSE TransferValidators[name]

NoBody == [workspace |-> "absent", fields |-> << >>]

Valid(name, body) ==
    \/ name = "none"
    \/ LET v == ValidatorNamed(name)
       IN  /\ v.bare \/ body.workspace \notin {"absent", "blank"}
           /\ \A f \in v.required : f \in DOMAIN body.fields /\ body.fields[f] = "good"
           /\ \A f \in v.optional \cap DOMAIN body.fields : body.fields[f] = "good"

(* The workspace the permission is asked for: the body's, else the header's. *)
WorkspaceOf(body, header) ==
    IF body.workspace \notin {"absent", "blank"} THEN {body.workspace} ELSE header

(* The workspace the command is told, once permission is given for ws. *)
CommandWorkspace(route, body, ws) ==
    IF \/ route.takes \in {"authorised", "underlay"}
       \/ route.takes = "overlay" /\ body.workspace = "absent"
    THEN ws
    ELSE body.workspace
=============================================================================
