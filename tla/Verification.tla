---------------------------- MODULE Verification ----------------------------
(***************************************************************************)
(* Verification runs: BlobVerificationService and                          *)
(* StructuralVerificationService (packages/verification) over              *)
(* PostgresVerificationCatalog, while the workspace is edited and objects  *)
(* are damaged or, for once, cannot be read.                               *)
(*                                                                         *)
(* loadSnapshot reads one table after the other in a READ COMMITTED        *)
(* transaction, so every read is a step and sees what is committed by      *)
(* then.  An object is checked with a head request, at level full_blob     *)
(* also with a stream, and its result is written to its row before the     *)
(* next object is checked.                                                 *)
(*                                                                         *)
(* Tables are sets of records.  An optional value is a set with at most    *)
(* one element, an id is a tuple.  audit_events is the sequence of its     *)
(* rows in the order of (occurred_at, id), by which it is read.            *)
(***************************************************************************)
EXTENDS Naturals, FiniteSets, Sequences

CONSTANTS
    Verifiers,   \* calls of runVerification
    Requests,    \* what they ask: records of level, kind and id of the scope
    Objects,     \* the blobs that can be catalogued
    MaxEvents,   \* bound on the edits and the faults together
    MaxDamage    \* bound on the faults of the object store

VARIABLES
    db,          \* the tables
    objects,     \* the object store: what a head and a stream of a blob give
    runs,        \* the local state of every run
    reports,     \* verification_runs, with the edits committed while each ran
    edits,
    damage

vars == <<db, objects, runs, reports, edits, damage>>


Tables == <<"workspaces", "datasets", "resources", "revisions", "blobs",
            "attachments", "relations", "tombstones", "audit", "packages">>

Workspace == <<"w">>
Dataset == <<"d">>
Resource == <<"r">>
RevisionId(n) == <<"v", n>>
Pristine == [present |-> TRUE, length |-> "right", hash |-> {"right"}, bytes |-> "right"]

(* The blob catalogued first, whichever it is.                             *)
First == CHOOSE b \in Objects : TRUE

Revision(n, blobs) ==
    [id |-> RevisionId(n), number |-> n, dataset |-> Dataset, resource |-> Resource,
     parent |-> IF n = 1 THEN {} ELSE {RevisionId(n - 1)}, package |-> <<"p">>,
     version |-> "1.0", payload |-> "valid", blobs |-> blobs]

Relation(n, kind, target) ==
    [id |-> <<"l", n>>, dataset |-> Dataset,
     ends |-> {[kind |-> "resource", id |-> Resource], [kind |-> kind, id |-> target]}]

Idle == [pc |-> "idle", request |-> {}, snap |-> <<>>, todo |-> {}, blob |-> {},
         found |-> {}, issues |-> {}, torn |-> {}, reactivated |-> FALSE,
         intact |-> {}, checked |-> {}]

Init ==
    /\ \E status \in {"active", "revoked"} :
         db = [workspaces |-> {[id |-> Workspace]},
               datasets |-> {[id |-> Dataset, package |-> <<"p">>]},
               resources |-> {[id |-> Resource, dataset |-> Dataset,
                               status |-> "active", head |-> {RevisionId(1)}]},
               revisions |-> {Revision(1, {First})},
               blobs |-> {[id |-> First, state |-> "verified"]},
               attachments |-> {[revision |-> RevisionId(1), blob |-> First]},
               relations |-> {Relation(0, "blob", First)},
               tombstones |-> {},
               audit |-> <<[id |-> 1, previous |-> {}]>>,
               packages |-> {[id |-> <<"p">>, version |-> "1.0", status |-> status]}]
    /\ objects = [b \in Objects |-> Pristine]
    /\ runs = [v \in Verifiers |-> Idle]
    /\ reports = {}
    /\ edits = 0
    /\ damage = <<>>

-----------------------------------------------------------------------------
(* The rules, over the tables of a snapshot.                               *)
Issue(severity, code) == [severity |-> severity, code |-> code]
If(condition, severity, code) == IF condition THEN {Issue(severity, code)} ELSE {}
Ids(rows) == {r.id : r \in rows}

VerifyResourceGraph(r, revisions) ==
    LET own == {v \in revisions : v.resource = r.id}
        numbered == {v \in own : v.number > 1}
        Parents(v) == {p \in own : p.id \in v.parent}
    IN  If(~(r.head \subseteq Ids(own)), "critical", "CURRENT_REVISION_MISSING")
        \cup If(\E v \in own : v.dataset # r.dataset, "critical", "REVISION_SCOPE_MISMATCH")
        \cup If(\E v, u \in own : v # u /\ v.number = u.number,
                "critical", "REVISION_NUMBER_DUPLICATE")
        \cup If(\E v \in own : v.number = 1 /\ v.parent # {},
                "critical", "FIRST_REVISION_HAS_PARENT")
        \cup If(\E v \in numbered : Parents(v) = {}, "critical", "REVISION_PARENT_MISSING")
        \cup If(\E v \in numbered : \E p \in Parents(v) : p.number >= v.number,
                "critical", "REVISION_PARENT_ORDER_INVALID")

VerifySchema(r, v, datasets, packages) ==
    LET package == {p \in packages : p.id = v.package}
    IN  IF package = {} THEN {Issue("critical", "SCHEMA_PACKAGE_MISSING")}
        ELSE If(\E d \in datasets : d.id = r.dataset /\ d.package # v.package,
                "critical", "REVISION_DATASET_SCHEMA_MISMATCH")
             \cup If(\E p \in package : p.version # v.version,
                     "critical", "SCHEMA_VERSION_MISMATCH")
             \cup If(\E p \in package : p.status = "revoked", "error", "SCHEMA_PACKAGE_REVOKED")
             \cup If(v.payload # "valid", "error", "SCHEMA_INVALID_FIELD")

VerifyRelation(l, s) ==
    LET Exists(end) ==
            CASE end.kind = "resource" ->
                   \E r \in s.resources : r.id = end.id /\ r.dataset = l.dataset
              [] end.kind = "revision" ->
                   \E v \in s.revisions : v.id = end.id /\ v.dataset = l.dataset
              [] end.kind = "blob" -> end.id \in Ids(s.blobs)
              [] end.kind = "external" -> end.id # <<>>
    IN  If(\E end \in l.ends : ~Exists(end), "critical", "RELATION_ENDPOINT_MISSING")

VerifyTombstone(t, s) ==
    LET subjects == CASE t.kind = "dataset" -> s.datasets
                      [] t.kind = "resource" -> s.resources
                      [] t.kind = "relation" -> s.relations
        subject == {r \in subjects : r.id = t.subject}
    IN  If(subject = {} /\ ~t.purged, "critical", "TOMBSTONE_SUBJECT_MISSING")
        \cup If(t.window = "before deletion", "error", "RETENTION_WINDOW_INVALID")
        \cup If(\E id \in t.prior : ~\E v \in s.revisions : v.id = id /\ v.resource = t.subject,
                "critical", "TOMBSTONE_PRIOR_REVISION_INVALID")
        \cup If(/\ t.kind = "resource" /\ ~t.purged
                /\ \E r \in subject : r.status # "deleted_logically",
                "error", "TOMBSTONE_STATUS_MISMATCH")

VerifyAuditChain(events) ==
    \A n \in DOMAIN events :
        events[n].previous = IF n = 1 THEN {} ELSE {events[n - 1].id}

VerifyDataset(d, packages) ==
    LET package == {p \in packages : p.id = d.package}
    IN  If(package = {}, "critical", "DATASET_SCHEMA_PACKAGE_MISSING")
        \cup If(\E p \in package : p.status = "revoked",
                "error", "DATASET_SCHEMA_PACKAGE_REVOKED")

(* selectScope: the part of the snapshot that a request is about.          *)
EmptySelection == [datasets |-> {}, resources |-> {}, revisions |-> {},
                   relations |-> {}, tombstones |-> {}]

ScopeFound(s, request) ==
    /\ s.workspaces # {}
    /\ request.level = "dataset" => request.id \in Ids(s.datasets)
    /\ request.level = "resource" => request.id \in Ids(s.resources)

SelectScope(s, request) ==
    CASE ~ScopeFound(s, request) -> EmptySelection
      [] request.level = "workspace" ->
           [datasets |-> s.datasets, resources |-> s.resources, revisions |-> s.revisions,
            relations |-> s.relations, tombstones |-> s.tombstones]
      [] request.level = "dataset" ->
           LET Within(rows) == {r \in rows : r.dataset = request.id}
           IN  [datasets |-> {d \in s.datasets : d.id = request.id},
                resources |-> Within(s.resources), revisions |-> Within(s.revisions),
                relations |-> Within(s.relations), tombstones |-> Within(s.tombstones)]
      [] request.level = "resource" ->
           LET resources == {r \in s.resources : r.id = request.id}
           IN  [datasets |-> {d \in s.datasets : \E r \in resources : r.dataset = d.id},
                resources |-> resources,
                revisions |-> {v \in s.revisions : v.resource = request.id},
                relations |-> {l \in s.relations : \E end \in l.ends : end.id = request.id},
                tombstones |-> {t \in s.tombstones :
                                  t.kind = "resource" /\ t.subject = request.id}]

(* The blobs a structural run checks, and the issues it finds without them.*)
SelectedAttachments(s, request) ==
    {a \in s.attachments : a.revision \in Ids(SelectScope(s, request).revisions)}

BlobsToCheck(s, request) ==
    IF request.level = "workspace" THEN Ids(s.blobs)
    ELSE {a.blob : a \in SelectedAttachments(s, request)} \cap Ids(s.blobs)

VerifyResource(r, sel, packages) ==
    LET own == {v \in sel.revisions : v.resource = r.id}
    IN  VerifyResourceGraph(r, sel.revisions)
        \cup UNION {VerifySchema(r, v, sel.datasets, packages) : v \in own}
        \cup If(own = {} /\ r.status # "deleted_logically",
                "critical", "ORPHAN_RESOURCE_WITHOUT_REVISION")

StructuralIssues(s, request) ==
    LET sel == SelectScope(s, request)
    IN  If(~ScopeFound(s, request), "critical", "SCOPE_NOT_FOUND")
        \cup UNION {VerifyDataset(d, s.packages) : d \in sel.datasets}
        \cup UNION {VerifyResource(r, sel, s.packages) : r \in sel.resources}
        \cup If(\E a \in SelectedAttachments(s, request) : a.blob \notin Ids(s.blobs),
                "critical", "REVISION_BLOB_TARGET_MISSING")
        \cup UNION {VerifyRelation(l, s) : l \in sel.relations}
        \cup UNION {VerifyTombstone(t, s) : t \in sel.tombstones}
        \cup If(request.level = "workspace" /\ ~VerifyAuditChain(s.audit),
                "critical", "AUDIT_CHAIN_INVALID")
        \cup If(/\ request.level = "workspace"
                /\ \E b \in s.blobs : \A a \in s.attachments : a.blob # b.id,
                "warning", "ORPHAN_BLOB")

(* verifyBlob: the head request, and the stream of level full_blob.  An    *)
(* object that cannot be read just now is reported like a missing one.     *)
HeadIssues(o, fails) ==
    IF fails \/ ~o.present THEN {Issue("critical", "BLOB_MISSING_OR_INACCESSIBLE")}
    ELSE If(o.length # "right", "critical", "BLOB_LENGTH_MISMATCH")
         \cup If(o.hash \notin {{}, {"right"}}, "critical", "STORED_HASH_METADATA_MISMATCH")

\* Mutant: only the length of the stream is compared.
StreamLength(o, fails) ==
    IF fails \/ ~o.present THEN {Issue("critical", "BLOB_STREAM_FAILED")}
    ELSE If(o.length # "right", "critical", "FULL_LENGTH_MISMATCH")

StreamIssues(o, fails) ==
    IF fails \/ ~o.present THEN {Issue("critical", "BLOB_STREAM_FAILED")}
    ELSE If(o.length # "right", "critical", "FULL_LENGTH_MISMATCH")
         \cup If(o.bytes # "right", "critical", "FULL_HASH_MISMATCH")

(* makeRun.                                                                *)
Status(issues) ==
    IF \E i \in issues : i.severity \in {"critical", "error"} THEN "failed"
    ELSE IF issues # {} THEN "degraded" ELSE "passed"

-----------------------------------------------------------------------------
(* Edits of the workspace, each one transaction of the history service or  *)
(* of the ingest.  A run that is reading its tables notes which edit was   *)
(* committed after how many of them.  A revision of a deleted resource     *)
(* makes it active and leaves the tombstone open.                          *)
Note(op) == [v \in Verifiers |->
               IF runs[v].pc = "tables"
               THEN [runs[v] EXCEPT !.torn = @ \cup {<<op, Len(runs[v].snap)>>}]
               ELSE runs[v]]

TheResource == CHOOSE r \in db.resources : TRUE
NextNumber == Cardinality(db.revisions) + 1
Open == {t \in db.tombstones : t.open}

(* appendAudit links the event to the newest one by (occurred_at, id), but *)
(* its own time was taken before the lock: it may sort before others.      *)
AppendAudit(audit, position) ==
    SubSeq(audit, 1, position - 1)
      \o <<[id |-> Len(audit) + 1, previous |-> {audit[Len(audit)].id}]>>
      \o SubSeq(audit, position, Len(audit))

Faulty == Len(damage) < MaxDamage /\ edits + Len(damage) < MaxEvents

Committed(op, tables) ==
    /\ edits + Len(damage) < MaxEvents
    /\ edits' = edits + 1
    /\ \E position \in 1 .. Len(db.audit) + 1 :
         db' = [tables EXCEPT !.audit = AppendAudit(@, position)]
    /\ runs' = Note(op)
    /\ UNCHANGED <<objects, reports, damage>>

WithRevision(blobs) ==
    [db EXCEPT !.revisions = @ \cup {Revision(NextNumber, blobs)},
               !.blobs = @ \cup {[id |-> b, state |-> "verified"] : b \in blobs \ Ids(@)},
               !.attachments = @ \cup {[revision |-> RevisionId(NextNumber), blob |-> b] :
                                         b \in blobs},
               !.resources = {[TheResource EXCEPT !.status = "active",
                                                  !.head = {RevisionId(NextNumber)}]}]

Revise == \E blobs \in {{}} \cup {{b} : b \in Objects} : Committed("revise", WithRevision(blobs))

Relate ==
    \E kind \in {"revision", "external"} :
        Committed("relate", [db EXCEPT !.relations = @ \cup
            {Relation(edits + 1, kind, CHOOSE h \in TheResource.head : TRUE)}])

Delete ==
    /\ Open = {}
    /\ Committed("delete", [db EXCEPT
         !.resources = {[TheResource EXCEPT !.status = "deleted_logically"]},
         !.tombstones = @ \cup {[id |-> <<"t", edits>>, dataset |-> Dataset,
                                 kind |-> "resource", subject |-> Resource, open |-> TRUE,
                                 prior |-> TheResource.head, window |-> "after deletion",
                                 purged |-> FALSE]}])

Restore ==
    \E t \in Open :
        Committed("restore", [WithRevision({}) EXCEPT
            !.tombstones = (@ \ {t}) \cup {[t EXCEPT !.open = FALSE]}])

(* The object store loses an object, or its bytes change: with the length, *)
(* with the metadata left as it was, or back to what they were.            *)
Damage ==
    /\ Faulty
    /\ \E b \in Objects, o \in {[Pristine EXCEPT !.present = FALSE],
                               [Pristine EXCEPT !.bytes = "wrong", !.length = "wrong"],
                               [Pristine EXCEPT !.bytes = "wrong"],
                               [Pristine EXCEPT !.bytes = "wrong", !.hash = {"wrong"}],
                               [Pristine EXCEPT !.hash = {}]} :
         /\ objects' = [objects EXCEPT ![b] = o]
         /\ damage' = Append(damage, b)
    /\ UNCHANGED <<db, runs, reports, edits>>

-----------------------------------------------------------------------------
At(v, pc) == runs[v].pc = pc
Asked(v) == CHOOSE q \in runs[v].request : TRUE
Local(v, run) == runs' = [runs EXCEPT ![v] = run]

(* runVerification sends the request to one of the two services.  The blob *)
(* service lists the blobs, the structural one starts to read the tables.  *)
Start(v) ==
    /\ At(v, "idle")
    /\ \E q \in Requests :
         IF q.level \in {"metadata", "full_blob"}
         THEN /\ db.workspaces # {}
              /\ Local(v, [Idle EXCEPT !.pc = "blobs", !.request = {q},
                                       !.todo = Ids(db.blobs), !.checked = Ids(db.blobs),
                                       !.issues = If(db.blobs = {}, "warning",
                                                     "NO_OBJECTS_CHECKED")])
         ELSE Local(v, [Idle EXCEPT !.pc = "tables", !.request = {q}])
    /\ UNCHANGED <<db, objects, reports, edits, damage>>

Rows(table) == IF table = "tombstones" THEN Open ELSE db[table]

(* loadSnapshot reads the next table.                                      *)
ReadTable(v) ==
    /\ At(v, "tables")
    /\ Len(runs[v].snap) < Len(Tables)
    /\ LET table == Tables[Len(runs[v].snap) + 1]
       IN  Local(v, [runs[v] EXCEPT
               !.snap = Append(@, Rows(table)),
               !.reactivated = IF table = "resources"
                               THEN Open # {} /\ TheResource.status = "active" ELSE @])
    /\ UNCHANGED <<db, objects, reports, edits, damage>>

Snapshot(v) ==
    [t \in {Tables[n] : n \in DOMAIN Tables} |->
        runs[v].snap[CHOOSE n \in DOMAIN Tables : Tables[n] = t]]

(* The structural run checks its rules, then the blobs it selected.        *)
CheckStructure(v) ==
    /\ At(v, "tables")
    /\ Len(runs[v].snap) = Len(Tables)
    /\ LET blobs == BlobsToCheck(Snapshot(v), Asked(v))
       IN  Local(v, [runs[v] EXCEPT !.pc = "blobs", !.todo = blobs, !.checked = blobs,
                                    !.snap = <<>>,
                                    !.issues = StructuralIssues(Snapshot(v), Asked(v))])
    /\ UNCHANGED <<db, objects, reports, edits, damage>>

(* A request to the object store fails for once.                           *)
Fault(b, fails) ==
    /\ fails => Faulty
    /\ damage' = IF fails THEN Append(damage, b) ELSE damage

(* verifyBlob of the next blob: the head request ...                       *)
HeadBlob(v) ==
    /\ At(v, "blobs")
    /\ \E b \in runs[v].todo, fails \in BOOLEAN :
         /\ Fault(b, fails)
         /\ Local(v, [runs[v] EXCEPT
                !.pc = IF Asked(v).level = "full_blob" /\ objects[b].present /\ ~fails
                       THEN "stream" ELSE "save",
                !.blob = {b}, !.todo = @ \ {b}, !.found = HeadIssues(objects[b], fails)])
    /\ UNCHANGED <<db, objects, reports, edits>>

(* ... the stream ...                                                      *)
StreamBlob(v) ==
    /\ At(v, "stream")
    /\ \E b \in runs[v].blob, fails \in BOOLEAN :
         /\ Fault(b, fails)
         /\ Local(v, [runs[v] EXCEPT
                !.pc = "save", !.found = @ \cup StreamIssues(objects[b], fails),
                !.intact = IF objects[b].present /\ objects[b].bytes = "right" /\ ~fails
                           THEN @ \cup {b} ELSE @])
    /\ UNCHANGED <<db, objects, reports, edits>>

(* ... and setBlobVerification.                                            *)
SetBlobVerification(v) ==
    /\ At(v, "save")
    /\ db' = [db EXCEPT !.blobs =
                {IF row.id \in runs[v].blob
                 THEN [row EXCEPT !.state = IF runs[v].found = {} THEN "verified" ELSE "failed"]
                 ELSE row : row \in @}]
    /\ Local(v, [runs[v] EXCEPT !.pc = "blobs", !.blob = {}, !.found = {},
                                !.issues = @ \cup runs[v].found])
    /\ UNCHANGED <<objects, reports, edits, damage>>

RecordRun(v) ==
    /\ At(v, "blobs")
    /\ runs[v].todo = {}
    /\ reports' = reports \cup {[run |-> v, request |-> Asked(v),
                                 status |-> Status(runs[v].issues),
                                 issues |-> runs[v].issues,
                                 checked |-> runs[v].checked, intact |-> runs[v].intact,
                                 torn |-> runs[v].torn,
                                 reactivated |-> runs[v].reactivated]}
    /\ Local(v, [Idle EXCEPT !.pc = "done"])
    /\ UNCHANGED <<db, objects, edits, damage>>

Step(v) == \/ Start(v) \/ ReadTable(v) \/ CheckStructure(v) \/ HeadBlob(v)
           \/ StreamBlob(v) \/ SetBlobVerification(v) \/ RecordRun(v)

Next == \/ \E v \in Verifiers : Step(v)
        \/ Revise \/ Relate \/ Delete \/ Restore \/ Damage

Spec == Init /\ [][Next]_vars

-----------------------------------------------------------------------------
(* The edits of some kinds committed after one table was read and before   *)
(* another was, by the number of tables read.                              *)
Position(table) == CHOOSE n \in DOMAIN Tables : Tables[n] = table

Between(r, ops, first, last) ==
    {n \in Position(first) .. Position(last) - 1 : \E op \in ops : <<op, n>> \in r.torn}

Cause(r, code) ==
    CASE code \in {"BLOB_MISSING_OR_INACCESSIBLE", "BLOB_LENGTH_MISMATCH",
                   "STORED_HASH_METADATA_MISMATCH", "BLOB_STREAM_FAILED",
                   "FULL_LENGTH_MISMATCH", "FULL_HASH_MISMATCH"} ->
           \E n \in DOMAIN damage : damage[n] \in r.checked
      [] code \in {"SCHEMA_PACKAGE_REVOKED", "DATASET_SCHEMA_PACKAGE_REVOKED"} ->
           \E p \in db.packages : p.status = "revoked"
      [] code = "SCOPE_NOT_FOUND" -> r.request.level = "resource" /\ r.request.id # Resource
      [] code = "AUDIT_CHAIN_INVALID" ->
           \E n \in DOMAIN db.audit : db.audit[n].id # n
      [] code = "TOMBSTONE_STATUS_MISMATCH" ->
           r.reactivated \/ Between(r, {"delete"}, "resources", "tombstones") # {}
      [] code = "RELATION_ENDPOINT_MISSING" ->
           \E n \in Between(r, {"revise", "restore"}, "revisions", "relations"),
              m \in Between(r, {"relate"}, "revisions", "relations") : n <= m
      [] code = "TOMBSTONE_PRIOR_REVISION_INVALID" ->
           \E n \in Between(r, {"revise", "restore"}, "revisions", "tombstones"),
              m \in Between(r, {"delete"}, "revisions", "tombstones") : n <= m
      [] OTHER -> FALSE


(* A full_blob run that passed has streamed every blob that was catalogued *)
(* when it started, and found the right bytes each time, whatever changed  *)
(* between the head request and the stream.                                *)
PassedMeansEveryByteRead ==
    \A r \in reports : r.request.level = "full_blob" /\ r.status = "passed" =>
        r.checked = r.intact /\ r.checked # {}

=============================================================================
