---------------------------- MODULE Portability -----------------------------
(***************************************************************************)
(* Exports, archive uploads, import plans and their execution as the API   *)
(* serves them: PostgresPortabilityProvider (apps/trust-api) over          *)
(* PortabilityArchiveObjectStore and PostgresPortabilityStore              *)
(* (packages/persistence-postgres) and S3ObjectStorage.                    *)
(*                                                                         *)
(* A call is a sequence of transactions and object store requests, each a  *)
(* step; calls interleave, fail and crash between any two of them.  The    *)
(* bytes of an archive stand for their digest.  An export's bytes depend   *)
(* on its id, its datasets and the content of the workspace, in which the  *)
(* audit events are included.  ArchiveRules says what an archive holds and *)
(* ArchiveImport how a plan is executed: here it succeeds or fails.        *)
(***************************************************************************)
EXTENDS Naturals, FiniteSets, TLC

CONSTANTS
    Callers,     \* calls of the API
    Requests,    \* what they may ask
    Earlier,     \* verified archives of which one may have been uploaded before
    MaxEdits,    \* bound on the changes of the workspace between exports
    MaxFaults    \* bound on failing steps and crashes

VARIABLES
    exports,     \* portability_exports by idempotency key
    archives,    \* portability_archives by idempotency key
    plans,       \* portability_plans by idempotency key
    audit,       \* the audit events of portability, by what their id is made of
    temporary,   \* the temporary objects
    canonical,   \* the canonical objects, by digest
    calls,       \* the local state of every call
    edits,
    faults

vars == <<exports, archives, plans, audit, temporary, canonical, calls, edits, faults>>
tables == <<exports, archives, plans, audit>>
stored == <<temporary, canonical>>

Empty == [k \in {} |-> {}]
IdleCall == [pc |-> "idle", request |-> {}, bytes |-> {}, etag |-> {}]

(* At the start no call was made, or one upload is over.                   *)
Init ==
    /\ exports = Empty /\ plans = Empty /\ temporary = Empty
    /\ \/ archives = Empty /\ canonical = Empty /\ audit = {}
       \/ \E file \in Earlier :
            /\ archives = ("earlier" :> [id |-> file, status |-> "verified"])
            /\ canonical = (file :> file)
            /\ audit = {<<"upload", "earlier", "succeeded">>}
    /\ calls = [c \in Callers |-> IdleCall]
    /\ edits = 0
    /\ faults = 0

At(c, pc) == calls[c].pc = pc
Goto(c, pc) == calls' = [calls EXCEPT ![c].pc = pc]
Request(c) == CHOOSE q \in calls[c].request : TRUE
Bytes(c) == CHOOSE b \in calls[c].bytes : TRUE
Key(c) == Request(c).key

(* Uploaded files: readable or not, and of which workspace.                *)
File(quality, source) == <<"file", quality, source>>

FirstStep(q) ==
    CASE q.op = "export" -> "saveExport"
      [] q.op = "upload" -> "parse"
      [] q.op = "plan" -> "readArchive"
      [] q.op = "execute" -> "readPlan"

Start(c) ==
    /\ At(c, "idle")
    /\ \E q \in Requests :
         calls' = [calls EXCEPT ![c].pc = FirstStep(q), ![c].request = {q}]
    /\ UNCHANGED <<tables, stored, edits, faults>>

(* The workspace changes.                                                  *)
Edit ==
    /\ edits < MaxEdits
    /\ edits' = edits + 1
    /\ UNCHANGED <<tables, stored, calls, faults>>

-----------------------------------------------------------------------------
(* createExport.  The row of an idempotency key is inserted once; a call   *)
(* with other datasets is refused, a ready export is answered as it is.    *)
SaveExport(c) ==
    /\ At(c, "saveExport")
    /\ IF Key(c) \notin DOMAIN exports
       THEN /\ exports' = exports @@ (Key(c) :> [status |-> "pending", sha |-> {},
                                                 datasets |-> Request(c).datasets])
            /\ Goto(c, "readWorkspace")
       ELSE /\ Goto(c, CASE exports[Key(c)].datasets # Request(c).datasets -> "failExport"
                         [] exports[Key(c)].status = "ready" -> "done"
                         [] OTHER -> "readWorkspace")
            /\ UNCHANGED exports
    /\ UNCHANGED <<archives, plans, audit, stored, edits, faults>>

(* One REPEATABLE READ transaction reads what is exported.                 *)
ReadWorkspace(c) ==
    /\ At(c, "readWorkspace")
    /\ calls' = [calls EXCEPT ![c].pc = "write", ![c].bytes =
                   {<<"export", Key(c), Request(c).datasets, <<edits, Cardinality(audit)>> >>}]
    /\ UNCHANGED <<tables, stored, edits, faults>>

(* PortabilityArchiveObjectStore.persist: the temporary object is named    *)
(* after the export, or after the uploaded bytes.                          *)
TemporaryKey(c) ==
    IF Request(c).op = "export" THEN <<"export", Key(c)>> ELSE <<"upload", Bytes(c)>>

\* Mutant: the event is recorded before the row.
AuditFirst(c) == IF Request(c).op = "export" THEN "audit" ELSE "saveArchive"

OnError(c) == IF Request(c).op = "export" THEN "failExport" ELSE "auditFailure"
AfterCommit(c) == IF Request(c).op = "export" THEN "completeExport" ELSE "saveArchive"

WriteTemporary(c) ==
    /\ At(c, "write")
    /\ temporary' = (TemporaryKey(c) :> Bytes(c)) @@ temporary
    /\ Goto(c, "inspect")
    /\ UNCHANGED <<tables, canonical, edits, faults>>

Committed(c) == Bytes(c) \in DOMAIN canonical /\ canonical[Bytes(c)] = Bytes(c)
HasTemporary(c) == TemporaryKey(c) \in DOMAIN temporary

(* commitImmutable reads the temporary object.  When it is gone, another   *)
(* call with the same name may have committed it.                          *)
InspectTemporary(c) ==
    /\ At(c, "inspect")
    /\ IF HasTemporary(c)
       THEN calls' = [calls EXCEPT ![c].etag = {temporary[TemporaryKey(c)]},
                        ![c].pc = IF temporary[TemporaryKey(c)] = Bytes(c)
                                  THEN "lookCommitted" ELSE OnError(c)]
       ELSE Goto(c, IF Committed(c) THEN AfterCommit(c) ELSE OnError(c))
    /\ UNCHANGED <<tables, stored, edits, faults>>

(* An object that is committed already is verified and kept.               *)
LookCommitted(c) ==
    /\ At(c, "lookCommitted")
    /\ Goto(c, CASE Bytes(c) \notin DOMAIN canonical -> "copy"
                 [] Committed(c) -> "deleteTemporary"
                 [] OTHER -> OnError(c))
    /\ UNCHANGED <<tables, stored, edits, faults>>

\* Mutant: the copy takes whatever the temporary object is by now.
CopyUnconditionally(c) ==
    /\ At(c, "copy")
    /\ IF HasTemporary(c)
       THEN /\ canonical' = (Bytes(c) :> temporary[TemporaryKey(c)]) @@ canonical
            /\ Goto(c, "deleteTemporary")
       ELSE /\ Goto(c, OnError(c))
            /\ UNCHANGED canonical
    /\ UNCHANGED <<tables, temporary, edits, faults>>

(* The copy is conditional on the entity tag that was read and on the      *)
(* absence of the target.                                                  *)
CopyImmutable(c) ==
    /\ At(c, "copy")
    /\ IF /\ HasTemporary(c) /\ {temporary[TemporaryKey(c)]} = calls[c].etag
          /\ Bytes(c) \notin DOMAIN canonical
       THEN /\ canonical' = (Bytes(c) :> temporary[TemporaryKey(c)]) @@ canonical
            /\ Goto(c, "deleteTemporary")
       ELSE /\ Goto(c, IF HasTemporary(c) /\ Committed(c) THEN "deleteTemporary"
                                                         ELSE OnError(c))
            /\ UNCHANGED canonical
    /\ UNCHANGED <<tables, temporary, edits, faults>>

DeleteTemporary(c) ==
    /\ At(c, "deleteTemporary")
    /\ temporary' = [k \in DOMAIN temporary \ {TemporaryKey(c)} |-> temporary[k]]
    /\ Goto(c, AfterCommit(c))
    /\ UNCHANGED <<tables, canonical, edits, faults>>

(* completeExport: a digest that is recorded stays.                        *)
CompleteExport(c) ==
    /\ At(c, "completeExport")
    /\ IF exports[Key(c)].sha \subseteq {Bytes(c)}
       THEN /\ exports' = [exports EXCEPT ![Key(c)].status = "ready",
                                          ![Key(c)].sha = {Bytes(c)}]
            /\ Goto(c, "audit")
       ELSE /\ Goto(c, "failExport")
            /\ UNCHANGED exports
    /\ UNCHANGED <<archives, plans, audit, stored, edits, faults>>

(* failExport marks the export of the key while it is pending, whichever   *)
(* call failed.                                                            *)
FailExport(c) ==
    /\ At(c, "failExport")
    /\ exports' = IF Key(c) \in DOMAIN exports /\ exports[Key(c)].status = "pending"
                  THEN [exports EXCEPT ![Key(c)].status = "failed"]
                  ELSE exports
    /\ Goto(c, "auditFailure")
    /\ UNCHANGED <<archives, plans, audit, stored, edits, faults>>

-----------------------------------------------------------------------------
(* uploadArchive.  A file that is no archive, or a signed one, is refused; *)
(* one that fails verification is stored as rejected.                      *)
ParseUpload(c) ==
    /\ At(c, "parse")
    /\ IF Request(c).file[2] = "unreadable"
       THEN Goto(c, "auditFailure")
       ELSE calls' = [calls EXCEPT ![c].pc = "write", ![c].bytes = {Request(c).file}]
    /\ UNCHANGED <<tables, stored, edits, faults>>

NewArchive(c) ==
    [id |-> Bytes(c), status |-> IF Bytes(c)[2] = "valid" THEN "verified" ELSE "rejected"]

(* saveArchive: one row per idempotency key and one per digest.            *)
SaveArchive(c) ==
    /\ At(c, "saveArchive")
    /\ LET row == NewArchive(c)
       IN  IF Key(c) \in DOMAIN archives
           THEN /\ Goto(c, IF archives[Key(c)] = row THEN "audit" ELSE "auditFailure")
                /\ UNCHANGED archives
           ELSE IF \E k \in DOMAIN archives : archives[k].id = row.id
                THEN Goto(c, "auditFailure") /\ UNCHANGED archives
                ELSE Goto(c, "audit") /\ archives' = archives @@ (Key(c) :> row)
    /\ UNCHANGED <<exports, plans, audit, stored, edits, faults>>

-----------------------------------------------------------------------------
(* createPlan and executePlan read the archive's row and bytes.            *)
ArchiveRow(id) == {archives[k] : k \in {x \in DOMAIN archives : archives[x].id = id}}
Readable(id) == id \in DOMAIN canonical /\ canonical[id] = id

ReadArchive(c) ==
    /\ At(c, "readArchive")
    /\ LET id == Request(c).archive
       IN  Goto(c, IF /\ \E row \in ArchiveRow(id) : row.status = "verified"
                      /\ Request(c).mode = "preserve_ids" => id[3] = "own"
                      /\ Readable(id)
                   THEN "savePlan" ELSE "auditFailure")
    /\ UNCHANGED <<tables, stored, edits, faults>>

(* A plan's id is made of the archive and the modes: one row per key and   *)
(* one per plan.                                                           *)
PlanId(q) == <<q.archive, q.mode>>

SavePlan(c) ==
    /\ At(c, "savePlan")
    /\ LET row == [id |-> PlanId(Request(c))]
       IN  IF Key(c) \in DOMAIN plans
           THEN /\ Goto(c, IF plans[Key(c)] = row THEN "audit" ELSE "auditFailure")
                /\ UNCHANGED plans
           ELSE IF \E k \in DOMAIN plans : plans[k].id = row.id
                THEN Goto(c, "auditFailure") /\ UNCHANGED plans
                ELSE Goto(c, "audit") /\ plans' = plans @@ (Key(c) :> row)
    /\ UNCHANGED <<exports, archives, audit, stored, edits, faults>>

ReadPlan(c) ==
    /\ At(c, "readPlan")
    /\ Goto(c, IF \E k \in DOMAIN plans : /\ plans[k].id = PlanId(Request(c))
                                          /\ ArchiveRow(plans[k].id[1]) # {}
                                          /\ Readable(plans[k].id[1])
               THEN "executePlan" ELSE "auditFailure")
    /\ UNCHANGED <<tables, stored, edits, faults>>

ExecutePlan(c) ==
    /\ At(c, "executePlan")
    /\ \E next \in {"audit", "auditResumed", "auditFailure"} : Goto(c, next)
    /\ UNCHANGED <<tables, stored, edits, faults>>

-----------------------------------------------------------------------------
(* appendAudit: an event with the same action, request and outcome is kept *)
(* as it is.                                                               *)
Event(c, outcome) == <<Request(c).op, Key(c), outcome>>

Outcome(c) ==
    IF Request(c).op = "upload" /\ NewArchive(c).status = "rejected"
    THEN "rejected" ELSE "succeeded"

Audit(c) ==
    /\ At(c, "audit")
    /\ audit' = audit \cup {Event(c, Outcome(c))}
    /\ Goto(c, "done")
    /\ UNCHANGED <<exports, archives, plans, stored, edits, faults>>

AuditResumed(c) ==
    /\ At(c, "auditResumed")
    /\ audit' = audit \cup {Event(c, "resumed")}
    /\ Goto(c, "audit")
    /\ UNCHANGED <<exports, archives, plans, stored, edits, faults>>

AuditFailure(c) ==
    /\ At(c, "auditFailure")
    /\ audit' = audit \cup {Event(c, "failed")}
    /\ Goto(c, "failed")
    /\ UNCHANGED <<exports, archives, plans, stored, edits, faults>>

Ended == {"idle", "done", "failed", "crashed"}

(* A query or an object store request fails: the call goes on to its error *)
(* path; a failure on the error path is swallowed.                         *)
Fault(c) ==
    /\ calls[c].pc \notin Ended
    /\ faults < MaxFaults
    /\ faults' = faults + 1
    /\ Goto(c, CASE At(c, "failExport") -> "auditFailure"
                 [] At(c, "auditFailure") -> "failed"
                 [] OTHER -> OnError(c))
    /\ UNCHANGED <<tables, stored, edits>>

(* The process dies.                                                       *)
Crash(c) ==
    /\ calls[c].pc \notin Ended
    /\ faults < MaxFaults
    /\ faults' = faults + 1
    /\ Goto(c, "crashed")
    /\ UNCHANGED <<tables, stored, edits>>

Step(c) ==
    \/ Start(c) \/ SaveExport(c) \/ ReadWorkspace(c) \/ WriteTemporary(c)
    \/ InspectTemporary(c) \/ LookCommitted(c) \/ CopyImmutable(c) \/ DeleteTemporary(c)
    \/ CompleteExport(c) \/ FailExport(c) \/ ParseUpload(c) \/ SaveArchive(c)
    \/ ReadArchive(c) \/ SavePlan(c) \/ ReadPlan(c) \/ ExecutePlan(c)
    \/ Audit(c) \/ AuditResumed(c) \/ AuditFailure(c)

Next == Edit \/ \E c \in Callers : Step(c) \/ Fault(c) \/ Crash(c)

Spec == Init /\ [][Next]_vars

-----------------------------------------------------------------------------
(* downloadExport answers a ready export with the bytes of its digest, and *)
(* they are an export of the datasets that its row names: two calls of one *)
(* key write the same temporary object, with different bytes, and the      *)
(* conditional copy of commitImmutable keeps them apart.                   *)
ReadyExportIsReadable ==
    /\ \A k \in DOMAIN exports : exports[k].status = "ready" =>
         \E b \in exports[k].sha : Readable(b) /\ b[2] = k /\ b[3] = exports[k].datasets
    /\ \A k \in DOMAIN archives : Readable(archives[k].id)

(* The trail never claims what is not there: an export that was audited as *)
(* succeeded is ready, an audited plan is stored with its archive.         *)
AuditedSuccessIsDurable ==
    /\ \A k \in {e[2] : e \in {x \in audit : x[1] = "export" /\ x[3] = "succeeded"}} :
         k \in DOMAIN exports /\ exports[k].status = "ready"
    /\ \A k \in {e[2] : e \in {x \in audit : x[1] = "plan" /\ x[3] = "succeeded"}} :
         k \in DOMAIN plans /\ ArchiveRow(plans[k].id[1]) # {}

=============================================================================
