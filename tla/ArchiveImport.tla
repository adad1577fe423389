--------------------------- MODULE ArchiveImport ---------------------------
(***************************************************************************)
(* Executing an import plan: ArchiveImportExecutor (packages/archive) over *)
(* the operation store and the import target of                            *)
(* packages/persistence-postgres, and the object store.                    *)
(*                                                                         *)
(* Several calls of execute run the same plan, because requests overlap or *)
(* are repeated after an interruption.  Clients upload some of the same    *)
(* bytes meanwhile.  The blobs are numbered in the order of the plan.      *)
(***************************************************************************)
EXTENDS Integers

CONSTANTS
    Runs,           \* calls of execute
    Keys,           \* requests: principal, idempotency key and fingerprint
    BlobCount,      \* blobs in the archive
    Attached,       \* blobs an imported revision refers to
    Uploaded,       \* blobs whose bytes clients upload as well
    MaxFaults,      \* bound on interruptions
    None            \* no value

Blobs == 1..BlobCount
Checkpoints == 1..8
Operation == [key: Keys, checkpoint: Checkpoints]

ASSUME ImportConstants ==
    /\ BlobCount \in Nat
    /\ Attached \subseteq Blobs
    /\ Uploaded \subseteq Blobs
    /\ MaxFaults \in Nat
    /\ None \notin Operation
    /\ None \notin {"import", "upload"}

VARIABLES
    insert,         \* the plan: blobs with disposition "insert"
    op,             \* the portability_import_operations row
    temporary,      \* staged objects
    canonical,      \* immutable objects
    rows,           \* blob_objects by digest: whose id the row has
    records,        \* whether the other records of the plan are there
    audited,        \* whether the archive.imported event is there
    runs,           \* the local state of every call
    faults

dbVars == <<op, rows, records, audited>>
storeVars == <<temporary, canonical>>
vars == <<insert, dbVars, storeVars, runs, faults>>

(* archiveImportCheckpoints, by position, and what execute does at each.   *)
authorised == 1
temporary_blobs_staged == 3
immutable_blobs_committed == 5
metadata_committed == 6
audit_committed == 7
completed == 8

StepAt == <<"revalidate", "stage", "verify", "commit", "metadata", "audit",
            "advance", "returned">>
Loops == {"stage", "verify", "commit"}
Working == {"revalidate", "stage", "verify", "commit", "inspect", "copy",
            "delete", "metadata", "audit", "advance"}

Run == [pc: Working \cup {"idle", "returned", "failed", "refused"},
        key: Keys, checkpoint: Checkpoints, todo: SUBSET Blobs]

TypeOK ==
    /\ insert \subseteq Blobs
    /\ op \in Operation \cup {None}
    /\ temporary \subseteq Blobs
    /\ canonical \subseteq Blobs
    /\ rows \in [Blobs -> {None, "import", "upload"}]
    /\ records \in BOOLEAN
    /\ audited \in BOOLEAN
    /\ runs \in [Runs -> Run]
    /\ faults \in 0..MaxFaults

(* A ready plan: the records are not there, and bytes that are there       *)
(* belong to an upload and are not staged.                                 *)
Init ==
    /\ \E present \in SUBSET Uploaded :
         /\ insert = Blobs \ present
         /\ canonical = present
         /\ rows = [b \in Blobs |-> IF b \in present THEN "upload" ELSE None]
    /\ op = None
    /\ temporary = {}
    /\ records = FALSE
    /\ audited = FALSE
    /\ runs \in [Runs -> [pc: {"idle"}, key: Keys, checkpoint: {authorised},
                          todo: {{}}]]
    /\ faults = 0

----------------------------------------------------------------------------
At(r, pc) == runs[r].pc = pc
Goto(r, pc) == runs' = [runs EXCEPT ![r].pc = pc]

(* The loop of execute goes on at a checkpoint.                            *)
GoOnAt(r, checkpoint) ==
    runs' = [runs EXCEPT ![r] =
        [pc |-> StepAt[checkpoint], key |-> runs[r].key,
         checkpoint |-> checkpoint, todo |-> insert]]

(* The next blob of a loop over the blob actions of the plan.              *)
IsNext(r, b) == b \in runs[r].todo /\ \A c \in runs[r].todo : b <= c
Done(r, b) ==
    runs' = [runs EXCEPT ![r] =
        [pc |-> StepAt[runs[r].checkpoint], key |-> runs[r].key,
         checkpoint |-> runs[r].checkpoint, todo |-> runs[r].todo \ {b}]]

(* Mutant: the row is resumed for any request.                             *)
BeginAny(r) ==
    /\ runs[r].pc \in {"idle", "failed"}
    /\ IF op = None
       THEN op' = [key |-> runs[r].key, checkpoint |-> authorised] /\ GoOnAt(r, authorised)
       ELSE GoOnAt(r, op.checkpoint) /\ UNCHANGED op
    /\ UNCHANGED <<insert, rows, records, audited, storeVars, faults>>

(* begin: the row of the plan is created or resumed by the same request; a *)
(* client repeats a call that failed.                                      *)
Begin(r) ==
    /\ runs[r].pc \in {"idle", "failed"}
    /\ IF op = None
       THEN op' = [key |-> runs[r].key, checkpoint |-> authorised] /\ GoOnAt(r, authorised)
       ELSE /\ IF op.key = runs[r].key THEN GoOnAt(r, op.checkpoint)
                                       ELSE Goto(r, "refused")
            /\ UNCHANGED op
    /\ UNCHANGED <<insert, rows, records, audited, storeVars, faults>>

(* revalidate: nothing the plan inserts is there, what it expects is.      *)
Revalidate(r) ==
    /\ At(r, "revalidate")
    /\ IF ~records /\ \A b \in Blobs : /\ rows[b] # "import"
                                       /\ (rows[b] = None) <=> (b \in insert)
       THEN Goto(r, "advance") ELSE Goto(r, "failed")
    /\ UNCHANGED <<insert, dbVars, storeVars, faults>>

(* Mutant: the last blob is not staged.                                    *)
StageAllButLast(r) ==
    \E b \in Blobs :
        /\ At(r, "stage") /\ IsNext(r, b)
        /\ temporary' = IF b = BlobCount THEN temporary ELSE temporary \cup {b}
        /\ Done(r, b)
        /\ UNCHANGED <<insert, dbVars, canonical, faults>>

(* stageBlobs: an object under a key of the operation and the digest.      *)
StageBlob(r) ==
    \E b \in Blobs :
        /\ At(r, "stage") /\ IsNext(r, b)
        /\ temporary' = temporary \cup {b}
        /\ Done(r, b)
        /\ UNCHANGED <<insert, dbVars, canonical, faults>>

(* Mutant: an immutable object that is there already is an error.          *)
VerifyUncommitted(r) ==
    \E b \in Blobs :
        /\ At(r, "verify") /\ IsNext(r, b)
        /\ IF b \in temporary \ canonical THEN Done(r, b) ELSE Goto(r, "failed")
        /\ UNCHANGED <<insert, dbVars, storeVars, faults>>

(* verifyStaged: a staged object that is missing is an error.              *)
VerifyStagedBlob(r) ==
    \E b \in Blobs :
        /\ At(r, "verify") /\ IsNext(r, b)
        /\ IF b \in temporary THEN Done(r, b) ELSE Goto(r, "failed")
        /\ UNCHANGED <<insert, dbVars, storeVars, faults>>

(* commitBlob hashes the staged object, which must be there, and calls     *)
(* commitImmutable, ...                                                    *)
CommitBlob(r) ==
    \E b \in Blobs :
        /\ At(r, "commit") /\ IsNext(r, b)
        /\ IF b \in temporary THEN Goto(r, "inspect") ELSE Goto(r, "failed")
        /\ UNCHANGED <<insert, dbVars, storeVars, faults>>

(* ... which takes a staged object that is missing now for committed if    *)
(* the immutable one is there, ...                                         *)
InspectObjects(r) ==
    \E b \in Blobs :
        /\ At(r, "inspect") /\ IsNext(r, b)
        /\ \/ b \in temporary /\ b \notin canonical /\ Goto(r, "copy")
           \/ b \in temporary /\ b \in canonical /\ Goto(r, "delete")
           \/ b \notin temporary /\ b \in canonical /\ Done(r, b)
           \/ b \notin temporary /\ b \notin canonical /\ Goto(r, "failed")
        /\ UNCHANGED <<insert, dbVars, storeVars, faults>>

(* ... copies, unless the immutable object is there by now, ...            *)
CopyObject(r) ==
    \E b \in Blobs :
        /\ At(r, "copy") /\ IsNext(r, b)
        /\ \/ /\ b \in temporary \cup canonical
              /\ canonical' = canonical \cup {b}
              /\ Goto(r, "delete")
           \/ /\ b \notin temporary
              /\ Goto(r, "failed")
              /\ UNCHANGED canonical
        /\ UNCHANGED <<insert, dbVars, temporary, faults>>

(* ... and deletes the staged object.                                      *)
DeleteTemporary(r) ==
    \E b \in Blobs :
        /\ At(r, "delete") /\ IsNext(r, b)
        /\ temporary' = temporary \ {b}
        /\ Done(r, b)
        /\ UNCHANGED <<insert, dbVars, canonical, faults>>

(* assertCommittedBlobs: the bytes of every blob record exist.             *)
BytesCommitted == \A b \in Blobs : b \in canonical

(* commitAction inserts what is not there.  A blob row of the same digest  *)
(* keeps its id, and an attachment to the imported id then violates its    *)
(* foreign key.                                                            *)
InsertedRows == [b \in Blobs |-> IF rows[b] = None THEN "import" ELSE rows[b]]

(* The other records of the plan, each inserted unless its id is there.    *)
InsertedRecords == TRUE

KeysHold == \A b \in Attached : InsertedRows[b] = "import"

(* commitMetadata: one transaction.                                        *)
CommitMetadata(r) ==
    /\ At(r, "metadata")
    /\ IF BytesCommitted /\ KeysHold
       THEN /\ rows' = InsertedRows
            /\ records' = InsertedRecords
            /\ Goto(r, "advance")
       ELSE Goto(r, "failed") /\ UNCHANGED <<rows, records>>
    /\ UNCHANGED <<insert, op, audited, storeVars, faults>>

(* appendAudit: one event, under an id of the operation.                   *)
AppendAudit(r) ==
    /\ At(r, "audit")
    /\ audited' = TRUE
    /\ Goto(r, "advance")
    /\ UNCHANGED <<insert, op, rows, records, storeVars, faults>>

AtEnd(r) == \/ At(r, "advance")
            \/ runs[r].pc \in Loops /\ runs[r].todo = {}

(* advance: compare and set; the loser goes on where the row is.           *)
Advance(r) ==
    LET next == runs[r].checkpoint + 1
    IN  /\ AtEnd(r)
        /\ \/ /\ op.checkpoint = runs[r].checkpoint
              /\ op' = [op EXCEPT !.checkpoint = next]
              /\ GoOnAt(r, next)
           \/ /\ op.checkpoint # runs[r].checkpoint
              /\ GoOnAt(r, op.checkpoint)
              /\ UNCHANGED op
        /\ UNCHANGED <<insert, rows, records, audited, storeVars, faults>>

----------------------------------------------------------------------------
(* A client uploads the same bytes: the object, then its row.              *)
UploadBytes(b) ==
    /\ b \in Uploaded \ canonical
    /\ canonical' = canonical \cup {b}
    /\ UNCHANGED <<insert, dbVars, temporary, runs, faults>>

RecordUpload(b) ==
    /\ b \in Uploaded \cap canonical
    /\ rows[b] = None
    /\ rows' = [rows EXCEPT ![b] = "upload"]
    /\ UNCHANGED <<insert, op, records, audited, storeVars, runs, faults>>

(* A call ends with an error, or its process stops.                        *)
Interrupt(r) ==
    /\ runs[r].pc \in Working
    /\ faults < MaxFaults
    /\ faults' = faults + 1
    /\ Goto(r, "failed")
    /\ UNCHANGED <<insert, dbVars, storeVars>>

Step(r) ==
    \/ Begin(r) \/ Revalidate(r) \/ StageBlob(r) \/ VerifyStagedBlob(r)
    \/ CommitBlob(r) \/ InspectObjects(r) \/ CopyObject(r)
    \/ DeleteTemporary(r) \/ CommitMetadata(r) \/ AppendAudit(r) \/ Advance(r)

Next ==
    \/ \E r \in Runs : Step(r) \/ Interrupt(r)
    \/ \E b \in Blobs : UploadBytes(b) \/ RecordUpload(b)

Spec == Init /\ [][Next]_vars

(* Calls run, and a client repeats the one that failed.                    *)
FairSpec == Spec /\ \A r \in Runs : WF_vars(Step(r))

----------------------------------------------------------------------------
(* A checkpoint is only recorded once its effect is durable, whichever of  *)
(* the overlapping and interrupted calls had the effect and whichever      *)
(* recorded it: what was staged is staged or already immutable, bytes come *)
(* before metadata, and metadata before the audit event.                   *)
Reached(checkpoint) == op # None /\ op.checkpoint >= checkpoint
CheckpointsMeanEffects ==
    /\ Reached(temporary_blobs_staged) => insert \subseteq temporary \cup canonical
    /\ Reached(immutable_blobs_committed) => Blobs \subseteq canonical
    /\ Reached(metadata_committed) => records
    /\ Reached(audit_committed) => audited
    /\ records => Blobs \subseteq canonical /\ \A b \in Blobs : rows[b] # None
    /\ audited => records

(* No partial import is reported as successful: a call that returns has    *)
(* the completed operation of its own request, with every byte, record and *)
(* attachment of the plan.                                                 *)
ReportedIsComplete ==
    \A r \in Runs : At(r, "returned") =>
        /\ op = [key |-> runs[r].key, checkpoint |-> completed]
        /\ records /\ audited
        /\ Blobs \subseteq canonical
        /\ \A b \in Attached : rows[b] = "import"

(* The recorded checkpoint moves one at a time and never back, although a  *)
(* slow call may still advance from an old one; the request never changes. *)
CheckpointNeverMovesBack ==
    [][op # None => /\ op'.key = op.key
                    /\ op'.checkpoint \in {op.checkpoint, op.checkpoint + 1}]_vars

(* An import that is repeated until it succeeds completes, whatever became *)
(* of earlier calls.                                                       *)
ResumedImportCompletes == <>Reached(completed)

(* Overlapping calls, each of which may find the staged object of a blob   *)
(* gone because the other committed it, do not keep each other from        *)
(* completing the import.  The premises are what completion depends on: no *)
(* call is interrupted, and no upload records the bytes of a blob under an *)
(* id of its own, with which KeysHold is false for good.                   *)
ImportCompletes ==
    [](faults = 0 /\ \A b \in Blobs : rows[b] # "upload")
        => ResumedImportCompletes

=============================================================================
