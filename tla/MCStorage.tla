------------------------------ MODULE MCStorage ------------------------------
(***************************************************************************)
(* Storage and its administration, as one sum: a behaviour is one of       *)
(* MemoryStorage, StorageBindings, ApplicationTenants, MultipartUpload,    *)
(* StorageHealth or Verification, chosen at the start.  MemoryStorage      *)
(* stays at its initial state in the behaviours of the others.  The        *)
(* variables that several of the others have by the same name are those of *)
(* the one chosen; a variable it does not have is 0 and stays so.          *)
(***************************************************************************)
EXTENDS MemoryStorage, TLC

CONSTANTS p1, p2, c1, c2, d1, d2, o1, o2

VARIABLES
    part,       \* the component this behaviour is of
    calls, faults, now, rows, mem, hydrated, created, commands,
    versions, sticky, hist, workload, stale,
    acked, doubtful,
    current, records, uploads, object, made,
    cache, limiter, events, temporary,
    db, blobs, runs, reports, edits, damage

memory == <<objects, multipart, reading>>
registry == <<rows, mem, hydrated, created, commands>>
bindings == <<versions, sticky, hist, workload, stale>>
tenants == <<acked, doubtful>>
upload == <<current, records, uploads, object, made>>
health == <<cache, limiter, events, temporary>>
verification == <<db, blobs, runs, reports, edits, damage>>
sum == <<part, memory, calls, faults, now, registry, bindings, tenants, upload, health,
         verification>>

MCBodies == {<<d1>>, <<d1, d2>>}

-----------------------------------------------------------------------------
(* Requests on a binding saved with bucket b1: overlapping edits, probes,  *)
(* plans, deletions and ingests.                                           *)
Setting(bucket, mode) ==
    [scope |-> "app", bucket |-> bucket, mode |-> mode, roleArn |-> FALSE]

Request(op) == [op |-> op, id |-> 1, setting |-> {}, expected |-> {},
                amount |-> 1, force |-> FALSE]

Upsert(setting, expected) ==
    [Request("upsert") EXCEPT !.setting = {setting}, !.expected = expected]

ToB2 == Upsert(Setting("b2", "platform_iam"), {})

BindingWorkloads ==
    {{ToB2, Request("probe"), Request("rollback")},
     {Upsert(Setting("b1", "cross_account_role"), {1}), Request("acceptPlan"),
      Request("refreshPlan")},
     {ToB2, [Request("delete") EXCEPT !.force = TRUE], Request("disable")},
     {Request("ingest"), Request("delete"), Request("read")}}

Bindings == INSTANCE StorageBindings WITH
    Procs <- {p1, p2}, Calls <- {c1, c2}, First <- {Setting("b1", "platform_iam")},
    Workloads <- BindingWorkloads, Objects <- {"o1"}, MaxBindings <- 2,
    MaxGeneration <- 3, MaxCommands <- 3, MaxFaults <- 1

Tenants == INSTANCE ApplicationTenants WITH
    Procs <- {p1, p2}, Calls <- {c1, c2}, Keys <- {"k"}, MaxTenants <- 2,
    MaxCommands <- 3, MaxNow <- 2, MaxFaults <- 1

(* An upload of the parts "a" and "b", with a wrong part and a wrong list. *)
Parts == {<<1, "a">>, <<1, "x">>, <<2, "b">>}
Lists == {<<<<1, "a">>, <<2, "b">>>>, <<<<1, "a">>>>}

Asked(op, piece, list) == [op |-> op, part |-> piece, parts |-> list]

MultipartRequests ==
    {Asked(op, <<0, "">>, <<>>) : op \in {"initiate", "abort"}}
      \cup {Asked("part", piece, <<>>) : piece \in Parts}
      \cup {Asked("complete", <<0, "">>, list) : list \in Lists}

Multipart == INSTANCE MultipartUpload WITH
    Callers <- {c1, c2}, Requests <- MultipartRequests, Expected <- <<"a", "b">>,
    MaxCalls <- 5, MaxRefs <- 2, MaxFaults <- 1

Health == INSTANCE StorageHealth WITH
    Processes <- {p1, p2}, Calls <- {c1, c2}, Window <- 1, Ttl <- 1,
    MaxTime <- 1, MaxFaults <- 1

(* Every level, and a resource that does not exist.                        *)
VerificationRequests ==
    {[level |-> level, id |-> <<"w">>] : level \in {"metadata", "full_blob", "workspace"}}
      \cup {[level |-> "dataset", id |-> <<"d">>], [level |-> "resource", id |-> <<"r">>],
            [level |-> "resource", id |-> <<"unknown">>]}

Verifying == INSTANCE Verification WITH
    Verifiers <- {"v"}, Requests <- VerificationRequests, Objects <- {o1, o2},
    MaxEvents <- 2, MaxDamage <- 1, objects <- blobs

-----------------------------------------------------------------------------
RegistryRests == rows = 0 /\ mem = 0 /\ hydrated = 0 /\ created = 0 /\ commands = 0
BindingsRest ==
    versions = 0 /\ sticky = 0 /\ hist = 0 /\ workload = 0 /\ stale = 0
TenantsRest == acked = 0 /\ doubtful = 0
UploadRests == current = 0 /\ records = 0 /\ uploads = 0 /\ object = 0 /\ made = 0
HealthRests == cache = 0 /\ limiter = 0 /\ events = 0 /\ temporary = 0
VerificationRests ==
    db = 0 /\ blobs = 0 /\ runs = 0 /\ reports = 0 /\ edits = 0 /\ damage = 0

MCInit ==
    /\ part \in {"memory", "bindings", "tenants", "upload", "health", "verification"}
    /\ MemoryInit
    /\ IF part = "bindings" THEN Bindings!Init ELSE BindingsRest
    /\ IF part = "tenants" THEN Tenants!Init ELSE TenantsRest
    /\ IF part = "upload" THEN Multipart!Init ELSE UploadRests
    /\ IF part = "health" THEN Health!Init ELSE HealthRests
    /\ IF part = "verification" THEN Verifying!Init ELSE VerificationRests
    /\ part \notin {"bindings", "tenants"} => RegistryRests
    /\ part \notin {"bindings", "tenants", "upload", "health"} => calls = 0 /\ faults = 0
    /\ part \notin {"tenants", "health"} => now = 0

MCNext ==
    \/ /\ part = "memory" /\ MemoryNext
       /\ UNCHANGED <<part, calls, faults, now, registry, bindings, tenants, upload, health,
                      verification>>
    \/ /\ part = "bindings" /\ Bindings!Next
       /\ UNCHANGED <<part, memory, now, tenants, upload, health, verification>>
    \/ /\ part = "tenants" /\ Tenants!Next
       /\ UNCHANGED <<part, memory, bindings, upload, health, verification>>
    \/ /\ part = "upload" /\ Multipart!Next
       /\ UNCHANGED <<part, memory, now, registry, bindings, tenants, health, verification>>
    \/ /\ part = "health" /\ Health!Next
       /\ UNCHANGED <<part, memory, registry, bindings, tenants, upload, verification>>
    \/ /\ part = "verification" /\ Verifying!Next
       /\ UNCHANGED <<part, memory, calls, faults, now, registry, bindings, tenants, upload,
                      health>>

MCSpec == MCInit /\ [][MCNext]_sum

Symmetry == Permutations({p1, p2}) \cup Permutations({c1, c2})

-----------------------------------------------------------------------------
(* A process that has nothing under way and believes its bindings read has *)
(* in memory what the tables hold, but for the reasons StorageBindings     *)
(* names (ensureHydrated and the flag of PostgresAppStorageRegistry).      *)
StaleForAReason == part = "bindings" => Bindings!StaleForAReason

(* The bucket and mode of a saved binding are always those of some version *)
(* saved for it, so that a rollback can find them (persistBinding).        *)
HistoryCoversProfile == part = "bindings" => Bindings!HistoryCoversProfile

(* A change of a tenant answered with success is not lost to an older      *)
(* memory of another process, but for the reasons ApplicationTenants names *)
(* (the condition on updated_at in the update of a tenant).                *)
AcknowledgedTenantChangeIsKept ==
    part = "tenants" => Tenants!AcknowledgedTenantChangeIsKept

(* A completed session of a multipart upload describes the object at its   *)
(* locator (state.session of s3-multipart.ts).                             *)
CompletedSessionIsTheObject == part = "upload" => Multipart!CompletedSessionIsTheObject

(* A probe that timed out still removes the object it wrote (the finally   *)
(* block of runStorageProbe).                                              *)
TimedOutProbeCleansUp == part = "health" => Health!TimedOutProbeCleansUp


(* A passed full_blob run read every blob it listed, and found its bytes.  *)
PassedMeansEveryByteRead == part = "verification" => Verifying!PassedMeansEveryByteRead
=============================================================================
