------------------------------ MODULE MCServices -----------------------------
(***************************************************************************)
(* The services over the catalogue, as one sum: a behaviour is one of      *)
(* AuditChain, ApiAccess, Portability, Sessions, RetentionPolicies or      *)
(* SchemaRegistry, chosen at the start, or it is a question of Decisions.  *)
(* The components not chosen do not move: those this module extends stay   *)
(* at their initial states, and the variables of the others are 0.         *)
(***************************************************************************)
EXTENDS AuditChain, ApiAccess, Sessions, RetentionPolicies, TLC

CONSTANTS c1, c2

VARIABLES
    part,       \* the component this behaviour is of
    exports, archives, plans, audit, temporary, canonical, calls, edits, failures,
    packages, publications,
    question

portability == <<exports, archives, plans, audit, temporary, canonical, calls, edits, failures>>
schemas == <<packages, publications>>
sum == <<part, auditVars, accessVars, sessionVars, retentionVars, portability, schemas, question>>

Cases == INSTANCE ServiceCases

MCWorkloads == Cases!AccessWorkloads
MCRows == Cases!SeededRows
MCApps == Cases!SeededApps
MCDatasets == Cases!KnownDatasets

Port == INSTANCE Portability WITH
    Callers <- {c1, c2}, Requests <- Cases!PortabilityRequests,
    Earlier <- {Cases!File("valid", "other")}, MaxEdits <- 1, MaxFaults <- 2,
    faults <- failures

Schemas == INSTANCE SchemaRegistry WITH
    Requests <- Cases!SchemaRequests, Payloads <- Cases!Payloads, requests <- publications

Asked == INSTANCE Decisions

-----------------------------------------------------------------------------
PortabilityRests ==
    /\ exports = 0 /\ archives = 0 /\ plans = 0 /\ audit = 0 /\ temporary = 0
    /\ canonical = 0 /\ calls = 0 /\ edits = 0 /\ failures = 0

MCInit ==
    /\ part \in {"audit", "access", "portability", "sessions", "retention",
                 "schemas", "question"}
    /\ AuditInit
    /\ AccessInit
    /\ part # "access" => workload = CHOOSE w \in Workloads : TRUE
    /\ SessionsInit
    /\ RetentionInit
    /\ IF part = "portability" THEN Port!Init ELSE PortabilityRests
    /\ IF part = "schemas" THEN Schemas!Init ELSE packages = 0 /\ publications = 0
    /\ IF part = "question" THEN Asked!Init ELSE question = 0

MCNext ==
    \/ /\ part = "audit" /\ AuditNext
       /\ UNCHANGED <<part, accessVars, sessionVars, retentionVars, portability, schemas, question>>
    \/ /\ part = "access" /\ AccessNext
       /\ UNCHANGED <<part, auditVars, sessionVars, retentionVars, portability, schemas, question>>
    \/ /\ part = "sessions" /\ SessionsNext
       /\ UNCHANGED <<part, auditVars, accessVars, retentionVars, portability, schemas, question>>
    \/ /\ part = "retention" /\ RetentionNext
       /\ UNCHANGED <<part, auditVars, accessVars, sessionVars, portability, schemas, question>>
    \/ /\ part = "portability" /\ Port!Next
       /\ UNCHANGED <<part, auditVars, accessVars, sessionVars, retentionVars, schemas, question>>
    \/ /\ part = "schemas" /\ Schemas!Next
       /\ UNCHANGED <<part, auditVars, accessVars, sessionVars, retentionVars, portability, question>>

MCSpec == MCInit /\ [][MCNext]_sum

Symmetry == Permutations({c1, c2})

-----------------------------------------------------------------------------
(* A ready export can be downloaded and is of the datasets its row names,  *)
(* though calls of one key share a temporary object.                       *)
ReadyExportIsReadable == part = "portability" => Port!ReadyExportIsReadable

(* What the trail says succeeded is durable (completeExport and the plan). *)
AuditedSuccessIsDurable == part = "portability" => Port!AuditedSuccessIsDurable

(* A later version of the same major number accepts what an earlier one    *)
(* accepted (classify and publishGoverned).                                *)
SameMajorStaysReadable == part = "schemas" => Schemas!SameMajorStaysReadable

(* Of the accepted exports whose container the reader takes, those of one  *)
(* audit chain verify and no others; what verifies can be imported, and    *)
(* importing it again adds nothing.                                        *)
ExportRoundTrips ==
    part = "question" => Asked!ExportedArchiveVerifies /\ Asked!ImportOfExportConverges

(* A copy accepted as signed is the signed archive, up to further files    *)
(* under signatures/ (signArchiveEntries and verifyManifestSignature).     *)
AcceptedAsSignedIsUnchanged == part = "question" => Asked!AcceptedAsSignedIsUnchanged

(* Storage, signer and prober address one bucket alike, and both tiers of  *)
(* a probe blame the same side for a fault.                                *)
StorageIsReadAlike == part = "question" => Asked!StorageIsReadAlike

=============================================================================
