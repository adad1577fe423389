---------------------------- MODULE ArchiveRules ----------------------------
(***************************************************************************)
(* The trust archive as data: which records of a workspace an export       *)
(* selects (portability-export.ts), the entries and the manifest made of   *)
(* them (assemble.ts), signing (signature.ts), reading and verification    *)
(* (container.ts, verify.ts) and the plan of an import (import-plan.ts).   *)
(*                                                                         *)
(* A record is its id, workspace, revision number, digest and size of a    *)
(* blob, previous audit event, and its references by field.  Ids are       *)
(* tuples: a mapped id is the digest of the target workspace, the kind and *)
(* the source id, here these three.  A digest stands for the bytes it is   *)
(* computed from, so bytes are compared instead of digests.  An optional   *)
(* value is a set with at most one element.                                *)
(***************************************************************************)
EXTENDS Naturals, FiniteSetsExt, TLC

RecordKinds == {"workspaces", "schemas", "datasets", "resources", "revisions",
                "attachments", "blobs", "relations", "tombstones", "auditEvents",
                "retention"}

Ref(r, field) == IF field \in DOMAIN r.refs THEN {r.refs[field]} ELSE {}
IdsOf(records) == {r.id : r \in records}
RefersTo(r, field, ids) == \A ref \in Ref(r, field) : ref.id \in ids
Has(r, field, ids) == Ref(r, field) # {} /\ RefersTo(r, field, ids)

Total(records) == MapThenSumSet(LAMBDA r : r.size, records)

-----------------------------------------------------------------------------
(* PostgresPortabilityExportReader.read: the rows of the chosen datasets,  *)
(* what they use, and every audit event of the workspace.                  *)
Select(db, ws, chosen) ==
    LET datasets == {d \in db.datasets : d.ws = ws /\ d.id \in chosen}
        Within(rows) == {r \in rows : r.ws = ws /\ Has(r, "datasetId", chosen)}
        revisions == Within(db.revisions)
        attachments == {a \in db.attachments :
                            a.ws = ws /\ Has(a, "revisionId", IdsOf(revisions))}
    IN  [workspaces |-> {w \in db.workspaces : w.id = ws},
         datasets |-> datasets,
         retention |-> {p \in db.retention : p.ws = ws
                          /\ \E d \in datasets : Has(d, "retentionPolicyId", {p.id})},
         resources |-> Within(db.resources),
         revisions |-> revisions,
         attachments |-> attachments,
         blobs |-> {b \in db.blobs : b.ws = ws
                      /\ \E a \in attachments : Has(a, "blobObjectId", {b.id})},
         schemas |-> {s \in db.schemas :
                        \E r \in datasets \cup revisions : Has(r, "schemaPackageId", {s.id})},
         relations |-> Within(db.relations),
         tombstones |-> Within(db.tombstones),
         auditEvents |-> {e \in db.auditEvents : e.ws = ws}]

(* assertReferences and assertRelationReference.                           *)
RelationEndSelected(r, field, sel) ==
    \A ref \in Ref(r, field) :
        \/ ref.to = "external"
        \/ ref.to \in {"resources", "revisions", "blobs"}
           /\ ref.id \in IdsOf(sel[ref.to])

ReferencesSelected(sel) ==
    /\ \A d \in sel.datasets :
          /\ Has(d, "schemaPackageId", IdsOf(sel.schemas))
          /\ RefersTo(d, "retentionPolicyId", IdsOf(sel.retention))
    /\ \A r \in sel.resources : Has(r, "datasetId", IdsOf(sel.datasets))
    /\ \A v \in sel.revisions :
          /\ Has(v, "datasetId", IdsOf(sel.datasets))
          /\ Has(v, "resourceId", IdsOf(sel.resources))
          /\ Has(v, "schemaPackageId", IdsOf(sel.schemas))
    /\ \A a \in sel.attachments :
          /\ Has(a, "revisionId", IdsOf(sel.revisions))
          /\ Has(a, "blobObjectId", IdsOf(sel.blobs))
    /\ \A r \in sel.relations :
          RelationEndSelected(r, "sourceId", sel) /\ RelationEndSelected(r, "targetId", sel)

(* The export goes on when the selection is complete, within the limits of *)
(* the blobs, and every blob's bytes are the ones its row declares.        *)
ExportAccepted(db, ws, chosen, stored, limits) ==
    LET sel == Select(db, ws, chosen)
    IN  /\ chosen # {}
        /\ Cardinality(sel.workspaces) = 1
        /\ Cardinality(sel.datasets) = Cardinality(chosen)
        /\ \A b \in sel.blobs : b.size <= limits.blobBytes
        /\ Total(sel.blobs) <= limits.totalBlobBytes
        /\ ReferencesSelected(sel)
        /\ \A b \in sel.blobs : <<b.digest, b.size>> \in stored

-----------------------------------------------------------------------------
(* assembleArchiveEntries.  An entry is a path with its content; a record  *)
(* file is the set of its records.  The audit lineage's first event is one *)
(* without predecessor, its last one that is nobody's predecessor.         *)
AuditLineage(events) ==
    LET Boundary(es) == IF es = {} THEN {} ELSE {(CHOOSE e \in es : TRUE).id}
    IN  [count |-> Cardinality(events),
         first |-> Boundary({e \in events : e.prev = {}}),
         last |-> Boundary({e \in events : \A x \in events : e.id \notin x.prev})]

Manifest(ws, sel) ==
    [format |-> "0.2", key |-> {}, workspaceId |-> ws,
     lineage |-> AuditLineage(sel.auditEvents),
     counts |-> [k \in RecordKinds |-> Cardinality(sel[k])],
     blobCount |-> Cardinality(sel.blobs), blobBytes |-> Total(sel.blobs)]

Checksummed(entries) ==
    {p \in DOMAIN entries : p # <<"checksums">> /\ p[1] # "signatures"}

WithChecksums(entries) ==
    (<<"checksums">> :> <<"sums", [p \in Checksummed(entries) |-> entries[p]]>>) @@ entries

Assemble(ws, sel) ==
    WithChecksums(
        [p \in {<<"blobs", b.digest>> : b \in sel.blobs} |->
            LET b == CHOOSE b \in sel.blobs : b.digest = p[2]
            IN  <<"bytes", b.digest, b.size>>]
        @@ [p \in {<<"records", k>> : k \in {k \in RecordKinds : sel[k] # {}}} |->
            <<"jsonl", sel[p[2]]>>]
        @@ (<<"manifest">> :> <<"manifest", Manifest(ws, sel)>>)
        @@ (<<"readme">> :> <<"text">>))

-----------------------------------------------------------------------------
(* signArchiveEntries: the signature covers the manifest and the checksums.*)
\* Mutant: the signature covers the manifest only.
ManifestPayload(entries) == <<entries[<<"manifest">>]>>

SignaturePayload(entries) == <<entries[<<"manifest">>], entries[<<"checksums">>]>>

Sign(entries, key) ==
    LET manifest == [entries[<<"manifest">>][2] EXCEPT !.format = "0.3", !.key = {key}]
        unsigned == WithChecksums([entries EXCEPT ![<<"manifest">>] = <<"manifest", manifest>>])
    IN  (<<"signatures", "manifest">> :> <<"signature", key, SignaturePayload(unsigned)>>)
        @@ unsigned

(* verifyManifestSignature, against the keys that the verifier knows.      *)
SignatureIssues(entries, manifest, known) ==
    LET path == <<"signatures", "manifest">>
    IN  IF path \notin DOMAIN entries THEN {"ARCHIVE_SIGNATURE_MISSING"}
        ELSE IF entries[path][1] # "signature" THEN {"ARCHIVE_SIGNATURE_ARTIFACT_INVALID"}
        ELSE IF {entries[path][2]} # manifest.key
        THEN {"ARCHIVE_SIGNATURE_PROFILE_MISMATCH"}
        ELSE IF <<"checksums">> \notin DOMAIN entries THEN {}
        ELSE IF entries[path][2] \notin known THEN {"ARCHIVE_SIGNATURE_KEY_UNKNOWN"}
        ELSE IF entries[path][3] # SignaturePayload(entries) THEN {"ARCHIVE_SIGNATURE_INVALID"}
        ELSE {}

-----------------------------------------------------------------------------
(* verifyArchiveEntries.  Issues are their codes.                          *)
Size(content) ==
    CASE content[1] = "bytes" -> content[3]
      [] content[1] = "jsonl" -> Cardinality(content[2])
      [] OTHER -> 1

LimitIssues(entries, limits) ==
    {"ARCHIVE_ENTRY_LIMIT" : x \in {x \in {1} : Cardinality(DOMAIN entries) > limits.entries}}
    \cup {"ARCHIVE_PATH_UNSAFE" : p \in {p \in DOMAIN entries : p[1] = "unsafe"}}
    \cup {"ARCHIVE_ENTRY_TOO_LARGE" :
             p \in {p \in DOMAIN entries : Size(entries[p]) > limits.entryBytes}}
    \cup {"ARCHIVE_TOTAL_TOO_LARGE" :
             x \in {x \in {1} : MapThenSumSet(LAMBDA p : Size(entries[p]), DOMAIN entries)
                                > limits.totalBytes}}

(* readChecksums: what the file says of each path.                         *)
Sums(entries) ==
    IF <<"checksums">> \in DOMAIN entries /\ entries[<<"checksums">>][1] = "sums"
    THEN entries[<<"checksums">>][2] ELSE [p \in {} |-> <<"text">>]

ChecksumIssues(entries) ==
    LET sums == Sums(entries)
    IN  IF <<"checksums">> \notin DOMAIN entries
        THEN {"ARCHIVE_CHECKSUM_FILE_MISSING"} \cup
             {"ARCHIVE_ENTRY_UNCHECKED" : p \in Checksummed(entries)}
        ELSE {"ARCHIVE_CHECKSUM_FILE_INVALID" :
                 x \in {x \in {1} : entries[<<"checksums">>][1] # "sums"}}
             \cup {"ARCHIVE_ENTRY_MISSING" : p \in DOMAIN sums \ DOMAIN entries}
             \cup {"ARCHIVE_CHECKSUM_INVALID" :
                      p \in {p \in DOMAIN sums \cap DOMAIN entries : entries[p] # sums[p]}}
             \cup {"ARCHIVE_ENTRY_UNCHECKED" : p \in Checksummed(entries) \ DOMAIN sums}

(* readManifest: 0.2 is unsigned, 0.3 signed.                              *)
ManifestOf(entries) ==
    IF <<"manifest">> \in DOMAIN entries /\ entries[<<"manifest">>][1] = "manifest"
       /\ (entries[<<"manifest">>][2].format = "0.2") = (entries[<<"manifest">>][2].key = {})
    THEN {entries[<<"manifest">>][2]} ELSE {}

RecordsOf(entries) ==
    [k \in RecordKinds |->
        IF <<"records", k>> \in DOMAIN entries /\ entries[<<"records", k>>][1] = "jsonl"
        THEN entries[<<"records", k>>][2] ELSE {}]

RecordIssues(entries, m) ==
    {"ARCHIVE_RECORD_FILE_MISSING" :
        k \in {k \in RecordKinds : <<"records", k>> \notin DOMAIN entries /\ m.counts[k] # 0}}
    \cup {"ARCHIVE_RECORD_INVALID" :
        k \in {k \in RecordKinds : <<"records", k>> \in DOMAIN entries
                                   /\ entries[<<"records", k>>][1] # "jsonl"}}
    \cup {"ARCHIVE_RECORD_COUNT_INVALID" :
        k \in {k \in RecordKinds : <<"records", k>> \in DOMAIN entries
                                   /\ entries[<<"records", k>>][1] = "jsonl"
                                   /\ Cardinality(RecordsOf(entries)[k]) # m.counts[k]}}

(* validateScopeAndReferences.                                             *)
ScopeValid(records, m) ==
    /\ \A k \in RecordKinds \ {"schemas"} : \A r \in records[k] : r.ws = m.workspaceId
    /\ \A v \in records.revisions :
          /\ Has(v, "resourceId", IdsOf(records.resources))
          /\ RefersTo(v, "parentRevisionId", IdsOf(records.revisions))

(* validateAuditLineage: one root, one tail, no branch, and every event is *)
(* on the way from the tail to the root.                                   *)
LineageValid(events, lineage) ==
    LET ids == IdsOf(events)
        references == UNION {e.prev : e \in events}
        roots == {e.id : e \in {e \in events : e.prev = {}}}
        tails == ids \ references
        Back[n \in 0..Cardinality(events)] ==
            IF n = 0 THEN tails
            ELSE Back[n - 1] \cup UNION {e.prev : e \in {e \in events : e.id \in Back[n - 1]}}
    IN  /\ lineage.count = Cardinality(events)
        /\ events = {} => lineage.first = {} /\ lineage.last = {}
        /\ events # {} =>
              /\ Cardinality(ids) = Cardinality(events)
              /\ Cardinality(roots) = 1 /\ Cardinality(tails) = 1
              /\ lineage.first = roots /\ lineage.last = tails
              /\ references \subseteq ids
              /\ \A e, f \in events : e.prev # {} /\ e.prev = f.prev => e = f
              /\ Back[Cardinality(events)] = ids

(* validateBlobs.                                                          *)
BlobsValid(records, entries, m) ==
    /\ \A b \in records.blobs :
          /\ <<"blobs", b.digest>> \in DOMAIN entries
          /\ entries[<<"blobs", b.digest>>] = <<"bytes", b.digest, b.size>>
    /\ m.blobCount = Cardinality(records.blobs)
    /\ m.blobBytes = Total({b \in records.blobs : <<"blobs", b.digest>> \in DOMAIN entries})

(* known: the keys of the signature verifier, when there is one.           *)
Verify(entries, limits, known) ==
    LimitIssues(entries, limits) \cup ChecksumIssues(entries) \cup
    IF ManifestOf(entries) = {} THEN {"ARCHIVE_MANIFEST_INVALID"}
    ELSE LET m == CHOOSE m \in ManifestOf(entries) : TRUE
             records == RecordsOf(entries)
             When(fails, code) == IF fails THEN {code} ELSE {}
         IN  When(m.key # {} /\ known = {}, "ARCHIVE_SIGNATURE_VERIFIER_REQUIRED")
             \cup When(m.key = {} /\ <<"signatures", "manifest">> \in DOMAIN entries,
                       "ARCHIVE_SIGNATURE_UNEXPECTED")
             \cup RecordIssues(entries, m)
             \cup When(~ScopeValid(records, m), "ARCHIVE_SCOPE_INVALID")
             \cup When(~LineageValid(records.auditEvents, m.lineage),
                       "ARCHIVE_AUDIT_LINEAGE_INVALID")
             \cup When(~BlobsValid(records, entries, m), "ARCHIVE_BLOBS_INVALID")
             \cup IF m.key = {} THEN {}
                  ELSE UNION {SignatureIssues(entries, m, keys) : keys \in known}

(* validateDirectory: the archive's directory before anything is extracted.*)
EntryAllowed(e, limits) ==
    /\ ~e.directory /\ e.path[1] # "unsafe" /\ ~e.encrypted /\ ~e.link
    /\ e.method \in {"store", "deflate"}
    /\ e.size <= limits.entryBytes
    /\ e.size = 0 \/ (e.packed > 0 /\ e.size <= limits.ratio * e.packed)

DirectoryAllowed(dir, limits) ==
    /\ Cardinality(DOMAIN dir) <= limits.entries
    /\ \A i, j \in DOMAIN dir : dir[i].path = dir[j].path => i = j
    /\ \A i \in DOMAIN dir : EntryAllowed(dir[i], limits)
    /\ MapThenSumSet(LAMBDA i : dir[i].size, DOMAIN dir) <= limits.totalBytes

(* What readTrustArchive asks of the container before it verifies it.      *)
ContainerTaken(dir, limits) ==
    /\ MapThenSumSet(LAMBDA i : dir[i].packed, DOMAIN dir) <= limits.containerBytes
    /\ DirectoryAllowed(dir, limits)

(* Compression brings a blob of equal bytes down to one unit and leaves    *)
(* any other content as it is, the two ends of what it can do.             *)
Packed(content) ==
    IF content[1] = "bytes" /\ content[2] = "zeros" THEN 1 ELSE Size(content)

(* writeTrustArchive.  Nothing depends on the order of the entries: an     *)
(* entry's place in the directory is its path.                             *)
Write(entries) ==
    [p \in DOMAIN entries |->
        [path |-> p, directory |-> FALSE, encrypted |-> FALSE, link |-> FALSE,
         method |-> "deflate", size |-> Size(entries[p]), packed |-> Packed(entries[p])]]

-----------------------------------------------------------------------------
(* planArchiveImport.  The fields of each kind that mapRecord translates.  *)
References ==
    [datasets |-> {"retentionPolicyId"},
     resources |-> {"datasetId", "currentRevisionId"},
     revisions |-> {"datasetId", "resourceId", "parentRevisionId", "restoredFromRevisionId",
                   "mergeParentRevisionIds"},
     attachments |-> {"revisionId", "blobObjectId"},
     relations |-> {"datasetId", "sourceId", "targetId"},
     tombstones |-> {"datasetId", "subjectId", "priorRevisionId"}]

\* Mutant: the prior revision of a tombstone is left as it is.
MappedButPrior(kind) ==
    IF kind \in DOMAIN References THEN References[kind] \ {"priorRevisionId"} ELSE {}

MappedFields(kind) == IF kind \in DOMAIN References THEN References[kind] ELSE {}

(* buildIdMappings and mapReference: an id of the archive gets the mapped  *)
(* id, any other value stays.  Schemas and audit events keep their ids.    *)
MapId(records, from, to, kind, id) ==
    IF kind = "workspaces" THEN IF id = from THEN to ELSE id
    ELSE IF kind \in {"schemas", "auditEvents", "external"} \/ from = to THEN id
    ELSE IF id \in IdsOf(records[kind]) THEN <<to, kind, id>> ELSE id

MapRecord(records, from, to, kind, r) ==
    [r EXCEPT
        !.id = MapId(records, from, to, kind, r.id),
        !.ws = IF kind # "auditEvents" /\ r.ws = from THEN to ELSE r.ws,
        !.refs = [f \in DOMAIN r.refs |->
            IF f \in MappedFields(kind)
            THEN [r.refs[f] EXCEPT !.id = MapId(records, from, to, r.refs[f].to, r.refs[f].id)]
            ELSE r.refs[f]]]

Transform(records, from, to) ==
    [k \in RecordKinds |-> {MapRecord(records, from, to, k, r) : r \in records[k]}]

(* validateGraph: a reference to an absent schema is let pass when the     *)
(* archive has no schema at all.                                           *)
HasSchema(r, records) ==
    \/ Has(r, "schemaPackageId", IdsOf(records.schemas))
    \/ Ref(r, "schemaPackageId") # {} /\ records.schemas = {}

RelationEndValid(r, field, records) ==
    \A ref \in Ref(r, field) :
        \/ ref.to = "external"
        \/ ref.to \in {"resources", "revisions", "blobs"} /\ ref.id \in IdsOf(records[ref.to])

RevisionValid(v, records) ==
    /\ Has(v, "resourceId", IdsOf(records.resources))
    /\ Has(v, "datasetId", IdsOf(records.datasets))
    /\ HasSchema(v, records)
    /\ \A other \in records.revisions :
          other.refs["resourceId"] = v.refs["resourceId"] /\ other.number = v.number
             => other = v
    /\ \A ref \in Ref(v, "parentRevisionId") :
          \E parent \in records.revisions :
              /\ parent.id = ref.id
              /\ parent.refs["resourceId"] = v.refs["resourceId"]
              /\ parent.number < v.number

TombstoneValid(t, records) ==
    /\ \A ref \in Ref(t, "subjectId") :
          ref.to \in {"resources", "datasets", "relations"} /\ ref.id \in IdsOf(records[ref.to])
    /\ RefersTo(t, "priorRevisionId", IdsOf(records.revisions))

GraphValid(records, ws) ==
    /\ \A k \in RecordKinds \ {"auditEvents", "schemas"} : \A r \in records[k] : r.ws = ws
    /\ \A d \in records.datasets : HasSchema(d, records)
    /\ \A r \in records.resources :
          /\ Has(r, "datasetId", IdsOf(records.datasets))
          /\ RefersTo(r, "currentRevisionId", IdsOf(records.revisions))
    /\ \A v \in records.revisions : RevisionValid(v, records)
    /\ \A a \in records.attachments :
          /\ Has(a, "revisionId", IdsOf(records.revisions))
          /\ Has(a, "blobObjectId", IdsOf(records.blobs))
    /\ \A r \in records.relations :
          RelationEndValid(r, "sourceId", records) /\ RelationEndValid(r, "targetId", records)
    /\ \A t \in records.tombstones : TombstoneValid(t, records)

(* validateRetentionAssignments and validateSchemaConflicts.               *)
RetentionValid(records) ==
    \A d \in records.datasets : RefersTo(d, "retentionPolicyId", IdsOf(records.retention))

SchemasValid(records, target) ==
    \A s \in records.schemas, t \in target.schemas : s.name = t.name => s.digest = t.digest

Phase(kind) ==
    CASE kind = "workspaces" -> 10 [] kind = "schemas" -> 20 [] kind = "retention" -> 25
      [] kind = "datasets" -> 30 [] kind = "blobs" -> 40 [] kind = "resources" -> 50
      [] kind = "revisions" -> 60 [] kind = "attachments" -> 70 [] kind = "relations" -> 80
      [] kind = "tombstones" -> 90 [] kind = "auditEvents" -> 100

(* dependencies: the records that must be there before this one.  For      *)
(* relationKind an end that is neither a revision nor a blob is a          *)
(* resource, an external one too.                                          *)
DependencyFields(kind) ==
    CASE kind = "datasets" -> {"schemaPackageId"}
      [] kind = "resources" -> {"datasetId"}
      [] kind = "revisions" -> {"resourceId", "datasetId", "schemaPackageId",
                                "parentRevisionId"}
      [] kind = "attachments" -> {"revisionId", "blobObjectId"}
      [] kind = "relations" -> {"sourceId", "targetId"}
      [] kind = "tombstones" -> {"priorRevisionId"}
      [] OTHER -> {}

RelationKind(to) == IF to = "external" THEN "resources" ELSE to

Dependencies(kind, r) ==
    {<<RelationKind(r.refs[f].to), r.refs[f].id>> :
        f \in DependencyFields(kind) \cap DOMAIN r.refs}

(* What becomes of a record: inserted, there already, or in the way of     *)
(* another one.  The workspace itself is never in the way when it is       *)
(* mapped.                                                                 *)
Disposition(kind, r, mode, target) ==
    LET existing == {t \in target[kind] : t.id = r.id}
    IN  IF existing = {} THEN "insert"
        ELSE IF (kind = "workspaces" /\ mode = "mapped_workspace") \/ r \in existing
        THEN "already_present" ELSE "blocked"

Plan(entries, valid, mode, conflictMode, ws, target) ==
    LET m == CHOOSE m \in ManifestOf(entries) : TRUE
        to == IF mode = "mapped_workspace" THEN ws ELSE m.workspaceId
        records == Transform(RecordsOf(entries), m.workspaceId, to)
        actions == {[kind |-> k, record |-> r, phase |-> Phase(k),
                     dependsOn |-> Dependencies(k, r),
                     disposition |-> Disposition(k, r, mode, target)] :
                        <<k, r>> \in {<<k, r>> \in RecordKinds \X UNION {records[k] : k \in RecordKinds} :
                                        r \in records[k]}}
        issues == ~valid \/ (mode = "preserve_ids" /\ ws # m.workspaceId)
                  \/ ~GraphValid(records, to) \/ ~RetentionValid(records)
                  \/ ~SchemasValid(records, target)
                  \/ \E a \in actions : a.disposition = "blocked"
    IN  [status |-> IF conflictMode = "report_only" THEN "report_only"
                    ELSE IF issues THEN "rejected" ELSE "ready",
         records |-> records,
         actions |-> {IF issues /\ conflictMode = "reject_on_error" /\ a.disposition = "insert"
                      THEN [a EXCEPT !.disposition = "blocked"] ELSE a : a \in actions}]

=============================================================================
