------------------------------ MODULE Decisions ------------------------------
(***************************************************************************)
(* The parts that only compute, asked one question per behaviour: what an  *)
(* export of a small workspace contains and how it is read again           *)
(* (ArchiveRules), which clients an environment gives (StorageConfig), how *)
(* a provider's fault is read (StorageConfig) and what an application is   *)
(* offered (AppProtocol).                                                  *)
(***************************************************************************)
EXTENDS ArchiveRules, Sequences

VARIABLE question

Config == INSTANCE StorageConfig

Protocol == INSTANCE AppProtocol WITH Blank <- "blank", Good <- {"good", "other"}

-----------------------------------------------------------------------------
(* A workspace with two datasets.  The first has a resource with two       *)
(* revisions, a blob, a relation to q.target and perhaps a retention       *)
(* policy and a tombstone; the second has a resource with one revision.    *)
(* The audit events were appended in the order of their numbers; q.times   *)
(* gives each its rank by (occurred_at, id), which is another order when   *)
(* the clocks of two API processes differ, when one that took its time     *)
(* first gets the lock second, or when two times are equal.                *)
To(kind, id) == [to |-> kind, id |-> <<id>>]

Record(id, refs) ==
    [id |-> <<id>>, ws |-> <<"w">>, number |-> 0, digest |-> "none", size |-> 0,
     prev |-> {}, at |-> 0, name |-> id, refs |-> refs]

Revision(id, number, resource, dataset, more) ==
    [Record(id, [resourceId |-> To("resources", resource), datasetId |-> To("datasets", dataset),
                 schemaPackageId |-> To("schemas", "s1")] @@ more)
        EXCEPT !.number = number]

Dataset(id, more) == Record(id, [schemaPackageId |-> To("schemas", "s1")] @@ more)

Resource(id, dataset, revision) ==
    Record(id, [datasetId |-> To("datasets", dataset),
                currentRevisionId |-> To("revisions", revision)])

Blob(id, bytes, size) == [Record(id, << >>) EXCEPT !.digest = bytes, !.size = size]

Tombstone(subject) ==
    Record("t1", [datasetId |-> To("datasets", "d1"), subjectId |-> subject]
                 @@ IF subject.to = "resources"
                    THEN [priorRevisionId |-> To("revisions", "v2")] ELSE << >>)

(* appendAudit links an event to the newest one by rank.                   *)
Event(i, times) ==
    [Record("e", << >>) EXCEPT
        !.id = <<"e", i>>, !.at = times[i],
        !.prev = {<<"e", j>> : j \in {j \in 1..(i - 1) :
                                        \A k \in 1..(i - 1) : times[k] <= times[j]}}]

Database(q) ==
    [workspaces |-> {Record("w", << >>)},
     schemas |-> {Record("s1", << >>)},
     retention |-> {Record("p1", << >>)},
     datasets |-> {Dataset("d1", IF q.retained THEN [retentionPolicyId |-> To("retention", "p1")]
                                 ELSE << >>),
                   Dataset("d2", << >>)},
     resources |-> {Resource("r1", "d1", "v2"), Resource("r2", "d2", "v3")},
     revisions |-> {Revision("v1", 1, "r1", "d1", << >>),
                    Revision("v2", 2, "r1", "d1", [parentRevisionId |-> To("revisions", "v1")]),
                    Revision("v3", 1, "r2", "d2", << >>)},
     attachments |-> {Record("a1", [revisionId |-> To("revisions", "v2"),
                                    blobObjectId |-> To("blobs", "b1")])},
     blobs |-> {Blob("b1", q.bytes[1], q.bytes[2]), Blob("b2", "y", 2)},
     relations |-> {Record("l1", [datasetId |-> To("datasets", "d1"),
                                  sourceId |-> To("resources", "r1"), targetId |-> q.target])},
     tombstones |-> {Tombstone(s) : s \in q.deleted},
     auditEvents |-> {Event(i, q.times) : i \in DOMAIN q.times}]

(* Every reference with a short audit trail and a small blob, and some of  *)
(* them with every trail of up to three events and blobs about the limits. *)
Chosen == SUBSET {<<"d1">>, <<"d2">>}

Selections ==
    [about : {"archive"},
     target : {To("resources", "r1"), To("resources", "r2"), To("revisions", "v3"),
               To("blobs", "b1"), To("blobs", "b2"), To("external", "url")},
     deleted : {{}, {To("resources", "r1")}, {To("datasets", "d1")}, {To("relations", "l1")}},
     retained : BOOLEAN, times : {<<1, 2>>}, bytes : {<<"x", 2>>}, chosen : Chosen]

Loads ==
    [about : {"archive"},
     target : {To("resources", "r2"), To("external", "url")},
     deleted : {{}, {To("resources", "r1")}}, retained : BOOLEAN,
     times : {<<>>, <<1>>, <<1, 2>>, <<2, 1>>, <<1, 2, 3>>, <<1, 3, 2>>, <<2, 1, 3>>,
              <<2, 3, 1>>, <<3, 1, 2>>, <<3, 2, 1>>},
     bytes : {<<"x", 2>>, <<"x", 4>>, <<"x", 5>>, <<"zeros", 3>>, <<"zeros", 4>>},
     chosen : Chosen]

ArchiveQuestions == Selections \cup Loads

(* The limits of the export and of the reader, in units of which a blob    *)
(* may have four.  As in the code a blob and an entry have one limit, so   *)
(* have all blobs and all entries, and the container's is below theirs:    *)
(* the export may write what the reader does not take.                     *)
Limits == [entries |-> 20, entryBytes |-> 4, totalBytes |-> 22, containerBytes |-> 20,
           ratio |-> 3, blobBytes |-> 4, totalBlobBytes |-> 22]

Accepted(q) ==
    ExportAccepted(Database(q), <<"w">>, q.chosen, {q.bytes, <<"y", 2>>}, Limits)

Exported(q) == Assemble(<<"w">>, Select(Database(q), <<"w">>, q.chosen))

Known == {{"key"}}

-----------------------------------------------------------------------------
EnvironmentQuestions ==
    [about : {"environment"},
     provider : {"absent", "minio", "s3", "other"}, bucket : {"absent", "b"},
     region : {"absent", "empty", "r"}, endpoint : {"absent", "e"},
     accessKey : {"absent", "empty", "k"}, secretKey : {"absent", "empty", "s"},
     sessionToken : {"absent", "t"}, forcePathStyle : {"absent", "true", "false"}]

Profiles ==
    [bucket : {"own"}, region : {"r2"}, provider : {"minio", "s3"},
     endpointHost : {"absent", "h"},
     credentialMode : {"platform_iam", "cross_account_role", "missing"}]

(* A fault of the provider as the SDK reports it: its code is its name.    *)
Fault(name, status, about) ==
    [name |-> name, code |-> name, status |-> status, about |-> about]

Faults ==
    {Fault("AccessDenied", 403, {}), Fault("InvalidAccessKeyId", 403, {}),
     Fault("SignatureDoesNotMatch", 403, {}), Fault("ExpiredToken", 400, {}),
     Fault("PermanentRedirect", 301, {"region"}), Fault("AuthorizationHeaderMalformed", 400, {"region"}),
     Fault("NoSuchBucket", 404, {}), Fault("NotFound", 404, {}), Fault("PreconditionFailed", 412, {}),
     Fault("SlowDown", 503, {}), Fault("InternalError", 500, {}), Fault("SlowDown", 429, {}),
     Fault("TimeoutError", 0, {}), Fault("ECONNREFUSED", 0, {"network"}),
     Fault("CredentialsProviderError", 0, {"credentials"})}

FaultQuestions == [about : {"fault"}, fault : Faults]

Form(types, capabilities) ==
    [about |-> "bundle", namespace |-> "good", name |-> "good", version |-> "good",
     schemaVersion |-> "other", resourceTypes |-> types, relationTypes |-> {"blank"},
     blobRoles |-> {"good"}, capabilities |-> capabilities]

BundleQuestions ==
    {Form({"good", "blank"}, c) : c \in SUBSET Protocol!AppCapabilities}
      \cup {Form({"blank"}, {}), Form({"bad"}, {}), Form({"good"}, {"dataset:write"})}

Questions == ArchiveQuestions \cup EnvironmentQuestions \cup FaultQuestions \cup BundleQuestions

Init == question \in Questions

-----------------------------------------------------------------------------
(* Every event but the last was the newest one when it was appended, so    *)
(* that the next one is linked to it.                                      *)
OneChain(times) ==
    \A i \in 2..(Len(times) - 1) : times[i - 1] < times[i]

(* What the reader takes of an accepted export, signed or not, it verifies *)
(* exactly when the workspace's audit events are one chain: selection,     *)
(* assembly and verification agree on what a complete archive is, and the  *)
(* export alone does not see that the events fork.                         *)
ExportedArchiveVerifies ==
    question.about = "archive" /\ Accepted(question) =>
        \A archive \in {Exported(question), Sign(Exported(question), "key")} :
            ContainerTaken(Write(archive), Limits) =>
                (Verify(archive, Limits, Known) = {}) = OneChain(question.times)

Inserted(plan, target) ==
    [k \in RecordKinds |->
        target[k] \cup {a.record : a \in {a \in plan.actions : a.kind = k
                                                         /\ a.disposition = "insert"}}]

Nothing == [k \in RecordKinds |-> {}]

(* The planned actions have the record d, or the relation r names it as    *)
(* something outside the workspace.                                        *)
Provided(d, a, actions) ==
    \/ \E b \in actions : <<b.kind, b.record.id>> = d /\ b.phase <= a.phase
    \/ \E f \in DOMAIN a.record.refs : a.record.refs[f] = [to |-> "external", id |-> d[2]]

(* The archive of an accepted export that verifies can be imported, into   *)
(* its own workspace or mapped into another; every record a planned one    *)
(* needs is planned no later; and planning the same archive again finds    *)
(* everything in place.                                                    *)
ImportOfExportConverges ==
    question.about = "archive" /\ Accepted(question) =>
        \A mode \in {"preserve_ids", "mapped_workspace"} :
            LET into == IF mode = "preserve_ids" THEN <<"w">> ELSE <<"w2">>
                entries == Exported(question)
                valid == Verify(entries, Limits, {}) = {}
                first == Plan(entries, valid, mode, "reject_on_error", into, Nothing)
                again == Plan(entries, valid, mode, "reject_on_error", into,
                              Inserted(first, Nothing))
            IN  IF valid
                THEN /\ first.status = "ready" /\ again.status = "ready"
                     /\ \A a \in first.actions : \A d \in a.dependsOn :
                            Provided(d, a, first.actions)
                     /\ \A a \in again.actions : a.disposition = "already_present"
                ELSE Inserted(first, Nothing) = Nothing

(* Copies of an archive in which an entry was lost, changed or added, and  *)
(* the same with the checksums made anew, or made into an unsigned archive *)
(* of format 0.2, or signed with another key.                              *)
Altered(entries) ==
    {[p \in DOMAIN entries \ {lost} |-> entries[p]] : lost \in DOMAIN entries}
      \cup {[entries EXCEPT ![p] = <<"other">>] : p \in DOMAIN entries}
      \cup {(p :> <<"other">>) @@ entries : p \in {<<"extra">>, <<"signatures", "extra">>}}

Unsigned(entries) ==
    WithChecksums([p \in DOMAIN entries \ {<<"signatures", "manifest">>} |->
        IF p = <<"manifest">> /\ entries[p][1] = "manifest"
        THEN <<"manifest", [entries[p][2] EXCEPT !.format = "0.2", !.key = {}]>>
        ELSE entries[p]])

Copies(entries) ==
    LET altered == Altered(entries) \cup {entries}
    IN  altered \cup {WithChecksums(e) : e \in altered} \cup {Unsigned(e) : e \in altered}
          \cup {Sign(Unsigned(entries), "stranger")}

(* A copy that is accepted as a signed archive is the signed one, up to    *)
(* further files under signatures/, which nothing covers.  Any other copy  *)
(* that is accepted says of itself that it is unsigned: taking the         *)
(* signature off is not detected, changing what it covers is.              *)
AcceptedAsSignedIsUnchanged ==
    question.about = "archive" /\ question.times = <<1, 2>> /\ Accepted(question) =>
        LET signed == Sign(Exported(question), "key")
            Covered(e) == Checksummed(e) \cup {<<"checksums">>, <<"signatures", "manifest">>}
        IN  \A copy \in Copies(signed) :
                Verify(copy, Limits, Known) = {} =>
                    \/ copy[<<"manifest">>][2].key = {}
                    \/ /\ Checksummed(copy) = Checksummed(signed)
                       /\ \A p \in Covered(signed) : copy[p] = signed[p]

(* Every part of the API reads the storage alike: the clients made for the *)
(* storage, the signer and the prober of the platform, and of a binding's  *)
(* profile, agree (ToolsAgree), and a fault is not the operator's in one   *)
(* tier of a probe and the provider's in the other (SameSide).             *)
StorageIsReadAlike ==
    /\ question.about = "environment" =>
          \A profile \in Profiles : Config!ToolsAgree(profile, question)
    /\ question.about = "fault" => Config!SameSide(question.fault)

=============================================================================
