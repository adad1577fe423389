---------------------------- MODULE ObjectIngest ----------------------------
(***************************************************************************)
(* The resumable object ingest of packages/operations over its three       *)
(* stores: the operation rows and the blob catalogue in PostgreSQL         *)
(* (packages/persistence-postgres) and the object storage                  *)
(* (packages/storage-s3).                                                  *)
(*                                                                         *)
(* A runner is one call of ObjectIngestService.ingest in some API process. *)
(* Every awaited call of the service is one atomic step, so the runners of *)
(* one idempotency key, and of different keys with the same bytes,         *)
(* interleave at the awaits.  A runner can meet an error (the catch block  *)
(* runs) or lose its process (nothing runs); the client retries.           *)
(*                                                                         *)
(* One workspace is modelled: every query is scoped to it by row level     *)
(* security, and every storage key contains its id.                        *)
(***************************************************************************)
EXTENDS Integers, Sequences, NoValue

CONSTANTS
    Keys,       \* idempotency keys; the operation row of a key has one id
    Contents,   \* byte strings, identified with their sha256
    Stores,     \* object storages a request can be routed to
    Platform,   \* the platform storage, which has no binding (a null id)
    Runners,    \* concurrent calls of ingest
    Routes,     \* Routes[k]: the storages calls with key k are routed to
    MaxFaults   \* bound on errors and crashes

VARIABLES
    operations, \* the operations table, by idempotency key
    temporary,  \* <<s, k>>: the temporary object of k's operation is in s
    canonical,  \* <<s, c>>: the canonical object of content c is in s
    catalog,    \* the blob_objects table, by sha256
    audit,      \* the blob.ingested rows of audit_events
    outbox,     \* the blob.reconcile_requested rows of outbox_events
    runners,    \* the local state of every call
    faults      \* errors and crashes so far

dbVars == <<operations, catalog, audit, outbox>>
storageVars == <<temporary, canonical>>
vars == <<operations, temporary, canonical, catalog, audit, outbox, runners,
          faults>>

(* ingestCheckpoints, by position in the array.  An operation's state is   *)
(* "requested", the name of a checkpoint or "failed_retryable".            *)
authorised == 1
temporary_upload_created == 2
bytes_received == 3
hash_verified == 4
immutable_object_committed == 5
metadata_committed == 6
audit_committed == 7
completed == 8
requested == 0
failed_retryable == -1
Checkpoints == authorised..completed
OperationStates == failed_retryable..completed

(* The context keys the service reads back, and a blob_objects row: the id *)
(* is the UUID drawn by the call that inserted the row, store stands for   *)
(* storage_binding_id.                                                     *)
ContextKeys == {"temporaryKey", "storageKey"}
Blob == [id : Keys \X Runners, store : Stores]
IngestResult == [blob : Blob, deduplicated : BOOLEAN]
IngestEvent == [operation : Keys, blobId : Keys \X Runners]

ASSUME IngestAssumption ==
    /\ Platform \in Stores
    /\ Routes \in [Keys -> SUBSET Stores]
    /\ MaxFaults \in Nat
    /\ None \notin Keys \cup Contents \cup Stores \cup Blob \cup IngestResult

ASSUME BlobIdAssumption == None \notin Keys \X Runners

Operation ==
    [request : Contents \cup {None}, state : OperationStates,
     checkpoints : Seq(Checkpoints), context : SUBSET ContextKeys,
     result : IngestResult \cup {None}]

NoOperation ==
    [request |-> None, state |-> requested, checkpoints |-> <<>>,
     context |-> {}, result |-> None]

Steps ==
    {"idle", "mark", "find", "saveTemporary", "writeTemporary", "saveHash",
     "inspectTemporary", "verifyCommitted", "inspectCanonical", "copy",
     "deleteTemporary", "saveCommitted", "commitMetadata", "complete",
     "fail", "returned"}

(* pc is the awaited call the runner makes next, at the checkpoint it is   *)
(* for; done is the local set "completed".                                 *)
Runner ==
    [pc : Steps, key : Keys \cup {None}, request : Contents \cup {None},
     store : Stores \cup {None}, at : Checkpoints, done : SUBSET Checkpoints,
     context : SUBSET ContextKeys, existing : Blob \cup {None},
     blob : Blob \cup {None}, deduplicated : BOOLEAN]

Idle ==
    [pc |-> "idle", key |-> None, request |-> None, store |-> None,
     at |-> authorised, done |-> {}, context |-> {}, existing |-> None,
     blob |-> None, deduplicated |-> FALSE]

Init ==
    /\ operations = [k \in Keys |-> NoOperation]
    /\ temporary = {}
    /\ canonical = {}
    /\ catalog = [c \in Contents |-> None]
    /\ audit = <<>>
    /\ outbox = <<>>
    /\ runners = [r \in Runners |-> Idle]
    /\ faults = 0

-----------------------------------------------------------------------------
(***************************************************************************)
(* Control flow between two awaited calls.                                 *)
(***************************************************************************)
Marked(k) == {operations[k].checkpoints[i] :
                  i \in 1..Len(operations[k].checkpoints)}

(* The values a checkpoint's effect requires: a context key on the path    *)
(* that uploads, the blob before the operation can be completed.           *)
HasRequired(m, i) ==
    /\ m.existing = None =>
           /\ i \in {bytes_received, immutable_object_committed} =>
                  "temporaryKey" \in m.context
           /\ i = metadata_committed => "storageKey" \in m.context
    /\ i = completed => m.blob # None

(* The call made for checkpoint i if it is not in the local set: the first *)
(* one of its effect, or the marking if the effect awaits nothing.         *)
UploadCalls ==
    <<"mark", "saveTemporary", "writeTemporary", "saveHash",
      "inspectTemporary", "commitMetadata", "mark", "complete">>

CallFor(m, i) ==
    IF ~HasRequired(m, i) THEN "fail"
    ELSE IF m.existing # None /\ i <= immutable_object_committed THEN "mark"
    ELSE UploadCalls[i]

(* Mutant: the call returns once the audit is committed, the completed     *)
(* checkpoint is left to whoever comes next.                               *)
ReturnEarly(m, i) ==
    IF i..audit_committed \subseteq m.done
    THEN [m EXCEPT !.pc = IF m.blob # None THEN "returned" ELSE "fail"]
    ELSE LET next == CHOOSE j \in i..completed :
                         j \notin m.done /\ i..(j - 1) \subseteq m.done
         IN  [m EXCEPT !.at = next, !.pc = CallFor(m, next)]

(* The runner continues at the first checkpoint from i on that is not in   *)
(* its local set; when there is none it returns to its caller.             *)
ContinueAt(m, i) ==
    IF i..completed \subseteq m.done
    THEN [m EXCEPT !.pc = IF m.blob # None THEN "returned" ELSE "fail"]
    ELSE LET next == CHOOSE j \in i..completed :
                         j \notin m.done /\ i..(j - 1) \subseteq m.done
         IN  [m EXCEPT !.at = next, !.pc = CallFor(m, next)]

-----------------------------------------------------------------------------
(***************************************************************************)
(* ingest: begin, findByHash and the marking of a checkpoint.              *)
(***************************************************************************)
(* The local state a call starts from: what the operation row says.        *)
StartOf(k, c, s) ==
    LET op == operations[k]
    IN  [pc |-> IF authorised \in Marked(k) THEN "find" ELSE "mark",
         key |-> k, request |-> c, store |-> s, at |-> authorised,
         done |-> Marked(k), context |-> op.context, existing |-> None,
         blob |-> IF op.result = None THEN None ELSE op.result.blob,
         deduplicated |-> op.result # None /\ op.result.deduplicated]

(* The operation row is inserted or, on an idempotency conflict, read; the *)
(* call goes on only if the row's request hash is its own.                 *)
Begin(r, k, c, s) ==
    /\ runners[r].pc \in {"idle", "returned"}
    /\ s \in Routes[k]
    /\ operations[k].request \in {None, c}
    /\ operations' = [operations EXCEPT ![k].request = c]
    /\ runners' = [runners EXCEPT ![r] = StartOf(k, c, s)]
    /\ UNCHANGED <<storageVars, catalog, audit, outbox, faults>>

(* A checkpoint already in the row is left alone, and so is the state.     *)
MarkCheckpoint(r) ==
    LET m == runners[r]
        k == m.key
        n == [m EXCEPT !.done = @ \cup {m.at}]
    IN  /\ m.pc = "mark"
        /\ operations' =
               IF m.at \in Marked(k) THEN operations
               ELSE [operations EXCEPT ![k].checkpoints = Append(@, m.at),
                                       ![k].state = m.at]
        /\ runners' = [runners EXCEPT ![r] =
               IF m.at = authorised THEN [n EXCEPT !.pc = "find"]
               ELSE ContinueAt(n, m.at + 1)]
        /\ UNCHANGED <<storageVars, catalog, audit, outbox, faults>>

FindByHash(r) ==
    LET m == runners[r]
        row == catalog[m.request]
        n == IF row = None THEN m
             ELSE [m EXCEPT !.existing = row, !.blob = row,
                            !.deduplicated = TRUE]
    IN  /\ m.pc = "find"
        /\ runners' = [runners EXCEPT ![r] =
               ContinueAt(n, temporary_upload_created)]
        /\ UNCHANGED <<dbVars, storageVars, faults>>

-----------------------------------------------------------------------------
(***************************************************************************)
(* The effects of the checkpoints.                                         *)
(***************************************************************************)
(* saveContext replaces the stored context and state, whatever they are.   *)
SaveContext(r, step, keys) ==
    LET m == runners[r]
        context == m.context \cup keys
    IN  /\ m.pc = step
        /\ operations' = [operations EXCEPT ![m.key].context = context,
                                            ![m.key].state = m.at]
        /\ runners' = [runners EXCEPT ![r].context = context,
                                      ![r].pc = "mark"]
        /\ UNCHANGED <<storageVars, catalog, audit, outbox, faults>>

SaveTemporary(r) == SaveContext(r, "saveTemporary", {"temporaryKey"})
SaveHash(r) == SaveContext(r, "saveHash", {})
SaveCommitted(r) == SaveContext(r, "saveCommitted", {"storageKey"})

WriteTemporary(r) ==
    LET m == runners[r]
    IN  /\ m.pc = "writeTemporary"
        /\ temporary' = temporary \cup {<<m.store, m.key>>}
        /\ runners' = [runners EXCEPT ![r].pc = "mark"]
        /\ UNCHANGED <<dbVars, canonical, faults>>

(* commitImmutable: the temporary object is read and hashed, then the      *)
(* canonical one, then a conditional copy is made and the temporary object *)
(* deleted.  A missing temporary object is an earlier commit's if the      *)
(* canonical one is there.                                                 *)
InspectTemporary(r) ==
    LET m == runners[r]
    IN  /\ m.pc = "inspectTemporary"
        /\ runners' = [runners EXCEPT ![r].pc =
               IF <<m.store, m.key>> \in temporary THEN "inspectCanonical"
               ELSE "verifyCommitted"]
        /\ UNCHANGED <<dbVars, storageVars, faults>>

(* Mutant: a missing temporary object is always an error.                  *)
MissingIsError(r) ==
    /\ runners[r].pc = "verifyCommitted"
    /\ runners' = [runners EXCEPT ![r].pc = "fail"]
    /\ UNCHANGED <<dbVars, storageVars, faults>>

VerifyCommitted(r) ==
    LET m == runners[r]
    IN  /\ m.pc = "verifyCommitted"
        /\ runners' = [runners EXCEPT ![r].pc =
               IF <<m.store, m.request>> \in canonical THEN "saveCommitted"
               ELSE "fail"]
        /\ UNCHANGED <<dbVars, storageVars, faults>>

InspectCanonical(r) ==
    LET m == runners[r]
    IN  /\ m.pc = "inspectCanonical"
        /\ runners' = [runners EXCEPT ![r].pc =
               IF <<m.store, m.request>> \in canonical THEN "deleteTemporary"
               ELSE "copy"]
        /\ UNCHANGED <<dbVars, storageVars, faults>>

(* CopyObject with IfNoneMatch "*": a failed precondition means that the   *)
(* canonical object is there and is verified; a missing source is an error *)
(* unless the provider reports the failed precondition first.              *)
CopyObject(r) ==
    LET m == runners[r]
        source == <<m.store, m.key>> \in temporary
        target == <<m.store, m.request>> \in canonical
    IN  /\ m.pc = "copy"
        /\ \/ /\ source /\ ~target
              /\ canonical' = canonical \cup {<<m.store, m.request>>}
              /\ runners' = [runners EXCEPT ![r].pc = "deleteTemporary"]
           \/ /\ target
              /\ runners' = [runners EXCEPT ![r].pc = "deleteTemporary"]
              /\ UNCHANGED canonical
           \/ /\ ~source
              /\ runners' = [runners EXCEPT ![r].pc = "fail"]
              /\ UNCHANGED canonical
        /\ UNCHANGED <<dbVars, temporary, faults>>

DeleteTemporary(r) ==
    LET m == runners[r]
    IN  /\ m.pc = "deleteTemporary"
        /\ temporary' = temporary \ {<<m.store, m.key>>}
        /\ runners' = [runners EXCEPT ![r].pc = "saveCommitted"]
        /\ UNCHANGED <<dbVars, canonical, faults>>

(* recordBlob: the row of the same bytes keeps its id and takes over the   *)
(* binding of the candidate, if that has one.                              *)
RecordBlob(row, candidate) ==
    IF row = None THEN candidate
    ELSE IF candidate.store = Platform THEN row
    ELSE [row EXCEPT !.store = candidate.store]

(* Mutant: the event gets a fresh id, so a repetition inserts another one. *)
InsertAgain(events, k, blobId) ==
    Append(events, [operation |-> k, blobId |-> blobId])

(* INSERT ... ON CONFLICT (id) DO NOTHING with an id derived from the      *)
(* operation's id.                                                         *)
InsertOnce(events, k, blobId) ==
    IF \E i \in 1..Len(events) : events[i].operation = k THEN events
    ELSE Append(events, [operation |-> k, blobId |-> blobId])

(* Mutant: the caller gets its candidate, not the row in the table.        *)
ReturnCandidate(r) ==
    LET m == runners[r]
        c == m.request
        candidate == IF m.existing # None THEN m.existing
                     ELSE [id |-> <<m.key, r>>, store |-> m.store]
        row == RecordBlob(catalog[c], candidate)
    IN  /\ m.pc = "commitMetadata"
        /\ catalog' = [catalog EXCEPT ![c] = row]
        /\ audit' = InsertOnce(audit, m.key, row.id)
        /\ outbox' = InsertOnce(outbox, m.key, row.id)
        /\ runners' = [runners EXCEPT ![r].blob = candidate, ![r].pc = "mark"]
        /\ UNCHANGED <<operations, storageVars, faults>>

(* Mutant: a deduplicated ingest binds the row to its own storage.         *)
BindOwnStore(r) ==
    LET m == runners[r]
        c == m.request
        candidate == [id |-> <<m.key, r>>, store |-> m.store]
        row == RecordBlob(catalog[c], candidate)
    IN  /\ m.pc = "commitMetadata"
        /\ catalog' = [catalog EXCEPT ![c] = row]
        /\ audit' = InsertOnce(audit, m.key, row.id)
        /\ outbox' = InsertOnce(outbox, m.key, row.id)
        /\ runners' = [runners EXCEPT ![r].blob = row, ![r].pc = "mark"]
        /\ UNCHANGED <<operations, storageVars, faults>>

(* commitVerifiedIngest: one transaction for the row, the audit event and  *)
(* the outbox event; the row in the table is what the caller gets.         *)
CommitMetadata(r) ==
    LET m == runners[r]
        c == m.request
        candidate == IF m.existing # None THEN m.existing
                     ELSE [id |-> <<m.key, r>>, store |-> m.store]
        row == RecordBlob(catalog[c], candidate)
    IN  /\ m.pc = "commitMetadata"
        /\ catalog' = [catalog EXCEPT ![c] = row]
        /\ audit' = InsertOnce(audit, m.key, row.id)
        /\ outbox' = InsertOnce(outbox, m.key, row.id)
        /\ runners' = [runners EXCEPT ![r].blob = row, ![r].pc = "mark"]
        /\ UNCHANGED <<operations, storageVars, faults>>

Complete(r) ==
    LET m == runners[r]
    IN  /\ m.pc = "complete"
        /\ operations' = [operations EXCEPT
               ![m.key].state = completed,
               ![m.key].result = [blob |-> m.blob,
                                  deduplicated |-> m.deduplicated]]
        /\ runners' = [runners EXCEPT ![r].pc = "mark"]
        /\ UNCHANGED <<storageVars, catalog, audit, outbox, faults>>

-----------------------------------------------------------------------------
(***************************************************************************)
(* Errors and crashes.                                                     *)
(***************************************************************************)
(* The catch block: fail leaves a completed operation alone.               *)
Fail(r) ==
    LET k == runners[r].key
    IN  /\ runners[r].pc = "fail"
        /\ operations' =
               IF operations[k].state = completed THEN operations
               ELSE [operations EXCEPT ![k].state = failed_retryable]
        /\ runners' = [runners EXCEPT ![r] = Idle]
        /\ UNCHANGED <<storageVars, catalog, audit, outbox, faults>>

(* The next call throws, or its answer is lost.                            *)
Fault(r) ==
    /\ runners[r].pc \notin {"idle", "returned", "fail"}
    /\ faults < MaxFaults
    /\ faults' = faults + 1
    /\ runners' = [runners EXCEPT ![r].pc = "fail"]
    /\ UNCHANGED <<dbVars, storageVars>>

Crash(r) ==
    /\ runners[r].pc \notin {"idle", "returned"}
    /\ faults < MaxFaults
    /\ faults' = faults + 1
    /\ runners' = [runners EXCEPT ![r] = Idle]
    /\ UNCHANGED <<dbVars, storageVars>>

Step(r) ==
    \/ MarkCheckpoint(r) \/ FindByHash(r)
    \/ SaveTemporary(r) \/ WriteTemporary(r) \/ SaveHash(r)
    \/ InspectTemporary(r) \/ VerifyCommitted(r) \/ InspectCanonical(r)
    \/ CopyObject(r) \/ DeleteTemporary(r) \/ SaveCommitted(r)
    \/ CommitMetadata(r) \/ Complete(r) \/ Fail(r)

Next ==
    \E r \in Runners :
        \/ \E k \in Keys, c \in Contents, s \in Stores : Begin(r, k, c, s)
        \/ Step(r)
        \/ Fault(r)
        \/ Crash(r)

Spec == Init /\ [][Next]_vars

(* The event loop takes every call to its next await, and the client of an *)
(* operation that has not completed calls again with the same key.         *)
Retry(k) ==
    /\ completed \notin Marked(k)
    /\ \E r \in Runners, s \in Stores :
           operations[k].request # None
               /\ Begin(r, k, operations[k].request, s)

FairSpec ==
    /\ Spec
    /\ \A r \in Runners : WF_vars(Step(r))
    /\ \A k \in Keys : SF_vars(Retry(k))
-----------------------------------------------------------------------------
(***************************************************************************)
(* Properties.                                                             *)
(***************************************************************************)
TypeOK ==
    /\ operations \in [Keys -> Operation]
    /\ temporary \in SUBSET (Stores \X Keys)
    /\ canonical \in SUBSET (Stores \X Contents)
    /\ catalog \in [Contents -> Blob \cup {None}]
    /\ audit \in Seq(IngestEvent)
    /\ outbox \in Seq(IngestEvent)
    /\ runners \in [Runners -> Runner]
    /\ faults \in 0..MaxFaults

(* The durable checkpoints of an operation are a prefix of                 *)
(* ingestCheckpoints: each appears once and in order, whatever calls of    *)
(* the operation overlapped, failed or were lost (the resuming call skips  *)
(* exactly the checkpoints in the row).                                    *)
CheckpointsInOrder ==
    \A k \in Keys : \A i \in 1..Len(operations[k].checkpoints) :
        operations[k].checkpoints[i] = i

(* A verified catalogue row is never recorded before its bytes: the        *)
(* storage the row is bound to holds the canonical object (metadata is     *)
(* committed only after commitImmutable, also on resumption).  It needs    *)
(* stable routes: a retry that is routed to another storage binding would  *)
(* bind the row to a storage that never received the bytes.                *)
VerifiedBytesPresent ==
    \A c \in Contents :
        catalog[c] # None => <<catalog[c].store, c>> \in canonical

EventsOf(events, k) == {i \in 1..Len(events) : events[i].operation = k}

(* commitVerifiedIngest writes exactly one audit event and one outbox      *)
(* event per operation, naming the catalogue's blob, however often the     *)
(* transaction is repeated by retries and overlapping calls.               *)
IngestRecordedOnce ==
    \A k \in Keys, events \in {audit, outbox} :
        /\ \A i, j \in EventsOf(events, k) : i = j
        /\ metadata_committed \in Marked(k) =>
               \E i \in EventsOf(events, k) :
                   /\ catalog[operations[k].request] # None
                   /\ events[i].blobId = catalog[operations[k].request].id

(* When ingest returns to its caller the operation is completed with a     *)
(* result, its events are recorded, and the returned blob is the           *)
(* catalogue's one blob for those bytes.                                   *)
AcknowledgedIngestIsDurable ==
    \A r \in Runners : runners[r].pc = "returned" =>
        LET m == runners[r]
        IN  /\ completed \in Marked(m.key)
            /\ operations[m.key].result # None
            /\ catalog[m.request] # None
            /\ m.blob.id = catalog[m.request].id
            /\ EventsOf(audit, m.key) # {} /\ EventsOf(outbox, m.key) # {}

(* Once committed, the blob of a content keeps its id and stays in the     *)
(* catalogue: a later ingest of the same bytes, or a slower concurrent one *)
(* with its own candidate row, cannot replace it.                          *)
CatalogIdentityStable ==
    [][\A c \in Contents : catalog[c] # None =>
          catalog'[c] # None /\ catalog'[c].id = catalog[c].id]_vars

(* Every operation that began, whatever interrupts it, is completed by the *)
(* client's retries.                                                       *)
ResumesToCompletion ==
    \A k \in Keys :
        operations[k].request # None ~> completed \in Marked(k)

-----------------------------------------------------------------------------
(***************************************************************************)
(* The ingest implements IngestContract.                                   *)
(***************************************************************************)
BlobIdOf(row) == IF row = None THEN None ELSE row.id

Contract ==
    INSTANCE IngestContract WITH
        BlobIds <- Keys \X Runners,
        requestOf <- [k \in Keys |-> operations[k].request],
        stored <- {c \in Contents : \E s \in Stores : <<s, c>> \in canonical},
        blobOf <- [c \in Contents |-> BlobIdOf(catalog[c])],
        recorded <- {audit[i].operation : i \in 1..Len(audit)},
        outcome <- [k \in Keys |->
                       IF operations[k].result = None THEN None
                       ELSE operations[k].result.blob.id]

(* Every behaviour of the ingest, seen through the operation rows, the     *)
(* canonical objects, the catalogue and the audit events, is one the       *)
(* contract allows: the checkpoints and their retries add up to it.        *)
ImplementsContract == Contract!Spec
=============================================================================
