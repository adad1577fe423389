--------------------------- MODULE StorageConfig ----------------------------
(***************************************************************************)
(* How an API process is wired to its object storage, and how it reads the *)
(* faults of a provider: storage-factory.ts, createGrantOptions of         *)
(* server.ts, classifyStorageError and projectSafeStorageConfig of         *)
(* storage-diagnostics.ts, and mapProviderError of the S3 adapter.         *)
(*                                                                         *)
(* A setting is "absent" (the variable is not set), "empty", or a value.   *)
(* A client is its target (bucket, region, endpoint, path style) and what  *)
(* it authenticates with; optional ones are sets with at most one element. *)
(***************************************************************************)
EXTENDS Naturals, FiniteSets

Truthy(setting) == setting \notin {"absent", "empty"}
Given(setting) == IF Truthy(setting) THEN {setting} ELSE {}
OneKeyOnly(env) == (env.accessKey = "absent") # (env.secretKey = "absent")
BothKeys(env) == Truthy(env.accessKey) /\ Truthy(env.secretKey)

(* The credentials of an S3 client; without static keys the SDK looks for  *)
(* the role of the host.                                                   *)
Credentials(env) ==
    IF BothKeys(env)
    THEN [keys |-> {<<env.accessKey, env.secretKey>>}, token |-> Given(env.sessionToken)]
    ELSE [keys |-> {}, token |-> {}]

(* MinioObjectStorage takes the keys and no session token.                 *)
MinioCredentials(env) == [keys |-> {<<env.accessKey, env.secretKey>>}, token |-> {}]

Client(bucket, region, endpoint, pathStyle, credentials) ==
    [bucket |-> bucket, region |-> region, endpoint |-> endpoint,
     pathStyle |-> pathStyle, credentials |-> credentials]

-----------------------------------------------------------------------------
(* The platform's own storage.                                             *)

(* resolveProvider refuses any other name: the process does not start.     *)
ResolveProvider(name) ==
    CASE name \in {"absent", "empty", "minio"} -> {"minio"}
      [] name \in {"s3", "aws"} -> {"s3"}
      [] OTHER -> {}

PathStyle(provider, env) ==
    IF provider = "minio" THEN env.forcePathStyle # "false" ELSE env.forcePathStyle = "true"

Region(env) == IF env.region = "absent" THEN "us-east-1" ELSE env.region

(* projectSafeStorageConfig                                                *)
CredentialMode(configured, staticKeys) ==
    IF ~ configured THEN "missing"
    ELSE IF staticKeys THEN "static_keys_configured" ELSE "iam_role"

Runtime(storage, prober, mode) == {[storage |-> storage, prober |-> prober, mode |-> mode]}

(* The S3 branch of createStorageRuntimeFromEnv; {} when it throws.        *)
S3Runtime(env) ==
    IF ~ Truthy(env.bucket) \/ ~ Truthy(Region(env)) \/ OneKeyOnly(env)
    THEN {}
    ELSE LET client == Client(env.bucket, Region(env), Given(env.endpoint),
                              PathStyle("s3", env), Credentials(env))
         IN  Runtime({client}, {client}, CredentialMode(TRUE, BothKeys(env)))

MinioRuntime(env) ==
    IF ~ Truthy(env.endpoint) \/ ~ Truthy(env.bucket) \/ ~ BothKeys(env)
    THEN Runtime({}, {}, CredentialMode(FALSE, FALSE))
    ELSE LET client(credentials) ==
                 Client(env.bucket, Region(env), {env.endpoint}, PathStyle("minio", env), credentials)
         IN  Runtime({client(MinioCredentials(env))}, {client(Credentials(env))},
                     CredentialMode(TRUE, TRUE))

CreateStorageRuntime(env) ==
    UNION {IF p = "s3" THEN S3Runtime(env) ELSE MinioRuntime(env) : p \in ResolveProvider(env.provider)}

(* createGrantOptions: the signer of the platform, with the path style of  *)
(* MinIO whatever the provider.  When it throws the process does not       *)
(* start.                                                                  *)
GrantOptionsStart(env) == ~ Truthy(env.bucket) \/ (~ OneKeyOnly(env) /\ Truthy(Region(env)))

PlatformSigner(env) ==
    IF ~ Truthy(env.bucket) \/ ~ GrantOptionsStart(env) THEN {}
    ELSE {Client(env.bucket, Region(env), Given(env.endpoint),
                 env.forcePathStyle # "false", Credentials(env))}

-----------------------------------------------------------------------------
(* The storage of an application's binding, from its profile.              *)

HostCredentials(profile) == profile.credentialMode \notin {"cross_account_role", "missing"}

Endpoint(profile, env) ==
    IF Truthy(profile.endpointHost) THEN {profile.endpointHost} ELSE Given(env.endpoint)

MinioReady(profile, env) ==
    profile.provider = "minio" => Endpoint(profile, env) # {} /\ BothKeys(env)

ProfileClient(profile, env, credentials) ==
    Client(profile.bucket, profile.region, Endpoint(profile, env),
           PathStyle(profile.provider, env), credentials)

ObjectStorageFromProfile(profile, env) ==
    IF ~ HostCredentials(profile) THEN {}
    ELSE IF profile.provider = "minio"
         THEN IF MinioReady(profile, env)
              THEN {ProfileClient(profile, env, MinioCredentials(env))} ELSE {}
         ELSE IF OneKeyOnly(env) THEN {} ELSE {ProfileClient(profile, env, Credentials(env))}

TransferSignerFromProfile(profile, env) ==
    IF ~ HostCredentials(profile) \/ OneKeyOnly(env) \/ ~ MinioReady(profile, env) THEN {}
    ELSE {ProfileClient(profile, env, Credentials(env))}

(* Mutant: the prober does without the keys MinIO needs.                   *)
ProberWithoutKeys(profile, env) ==
    IF ~ HostCredentials(profile) \/ OneKeyOnly(env) THEN {}
    ELSE {ProfileClient(profile, env, Credentials(env))}

BindingBucketProber(profile, env) ==
    IF ~ HostCredentials(profile) \/ ~ MinioReady(profile, env) \/ OneKeyOnly(env) THEN {}
    ELSE {ProfileClient(profile, env, Credentials(env))}

-----------------------------------------------------------------------------
(* Faults.  A provider fault has a name, a code, an HTTP status (0 for     *)
(* none) and the topics its message mentions; mapProviderError wraps it as *)
(* a StorageError, whose code is one of the adapter's own.                 *)

Wrapped(code, about) == [name |-> "StorageError", code |-> code, status |-> 0, about |-> about]

MapProviderError(fault) ==
    CASE fault.name = "StorageError" -> fault
      [] fault.status = 404 -> Wrapped("not_found", {})
      [] fault.status = 403 -> Wrapped("access_denied", {})
      [] fault.status \in {409, 412} -> Wrapped("conflict", {})
      [] fault.status = 429 -> Wrapped("throttled", {})
      [] fault.status >= 500 -> Wrapped("transient", {})
      [] fault.name \in {"TimeoutError", "NetworkingError", "ThrottlingException", "SlowDown"} ->
             Wrapped("transient", {})
      [] OTHER -> Wrapped("permanent", fault.about)

ClassifyStorageError(fault) ==
    CASE \/ fault.name = "CredentialsProviderError"
         \/ fault.code \in {"InvalidAccessKeyId", "SignatureDoesNotMatch", "ExpiredToken", "InvalidToken"}
         \/ "credentials" \in fault.about -> "auth"
      [] \/ fault.code \in {"PermanentRedirect", "AuthorizationHeaderMalformed"}
         \/ fault.status = 301
         \/ "region" \in fault.about -> "wrong_region"
      [] \/ fault.code \in {"AccessDenied", "AllAccessDisabled", "AccessDeniedException"}
         \/ fault.status = 403 -> "permission"
      [] fault.code \in {"NoSuchBucket", "NotFound"} \/ fault.status = 404 -> "not_found"
      [] \/ fault.code \in {"SlowDown", "ServiceUnavailable", "InternalError"}
         \/ fault.status >= 500 -> "provider_outage"
      [] \/ fault.name \in {"TimeoutError", "AbortError"}
         \/ fault.code \in {"ECONNREFUSED", "ENOTFOUND", "ETIMEDOUT", "EAI_AGAIN", "ABORT_ERR"}
         \/ "network" \in fault.about -> "network"
      [] fault.name = "StorageError" /\ fault.code = "access_denied" -> "permission"
      [] fault.name = "StorageError" /\ fault.code = "not_found" -> "not_found"
      [] fault.name = "StorageError" /\ fault.code \in {"throttled", "transient"} -> "provider_outage"
      [] OTHER -> "internal"

-----------------------------------------------------------------------------
SameTarget(one, other) ==
    \A a \in one, b \in other :
        [a EXCEPT !.credentials = a.credentials.keys] = [b EXCEPT !.credentials = b.credentials.keys]

(* The storage, the signer and the prober of a binding are there together  *)
(* or not at all, and then they address the same bucket in the same way    *)
(* with the same keys; so do the storage and the prober of the platform,   *)
(* whose signer differs at most in the path style.  Each of the six is     *)
(* built by a function of its own.                                         *)
ToolsAgree(profile, env) ==
    LET storage == ObjectStorageFromProfile(profile, env)
        signer == TransferSignerFromProfile(profile, env)
        prober == BindingBucketProber(profile, env)
    IN  /\ Cardinality(storage) = Cardinality(signer)
        /\ Cardinality(storage) = Cardinality(prober)
        /\ SameTarget(storage, signer) /\ SameTarget(storage, prober)
        /\ \A r \in CreateStorageRuntime(env) :
             /\ Cardinality(r.storage) = Cardinality(r.prober)
             /\ SameTarget(r.storage, r.prober)
             /\ r.storage # {} /\ GrantOptionsStart(env) => PlatformSigner(env) # {}
             /\ \A s \in r.storage, g \in PlatformSigner(env) :
                    SameTarget({s}, {[g EXCEPT !.pathStyle = s.pathStyle]})

OperatorSide == {"auth", "permission", "not_found", "wrong_region"}
ProviderSide == {"network", "provider_outage"}

(* A fault is classified as it is in the connectivity tier of a probe, and *)
(* as the adapter wraps it in the ingest tier: what is the operator's to   *)
(* mend in one is never the provider's in the other.                       *)
SameSide(fault) ==
    LET raw == ClassifyStorageError(fault)
        mapped == ClassifyStorageError(MapProviderError(fault))
    IN  /\ raw \in OperatorSide => mapped \notin ProviderSide
        /\ raw \in ProviderSide => mapped \notin OperatorSide
=============================================================================
