--------------------------- MODULE SchemaRegistry ---------------------------
(***************************************************************************)
(* SchemaRegistry, classifyCompatibility and validateResourcePayload of    *)
(* packages/schema-registry: publications of one schema package, and what  *)
(* its versions accept.                                                    *)
(*                                                                         *)
(* A manifest maps resource types to their fields and their policy for     *)
(* unknown fields, and has relationships and an archive format.  A field   *)
(* has a kind with its format, and is required or not; a value is the set  *)
(* of kinds it matches.  A version is a pair of major and minor; versions  *)
(* with a prerelease tag are left out.                                     *)
(***************************************************************************)
EXTENDS Naturals, Sequences, FiniteSets

CONSTANTS
    Requests,    \* publication requests: manifest, application, key, expected class, approved
    Payloads     \* functions from field names to values

VARIABLES
    packages,    \* the published manifests, in the order of publication
    requests     \* the accepted publication requests

vars == <<packages, requests>>

(* Mutant: a field may become required.                                    *)
FieldsMayBecomeRequired(previous, next) ==
    \/ \E f \in DOMAIN previous :
         \/ f \notin DOMAIN next
         \/ previous[f].kind # next[f].kind
    \/ \E f \in DOMAIN next \ DOMAIN previous : next[f].required

(* compareFields: removed, of another kind or format, or newly required.   *)
FieldsBreak(previous, next) ==
    \/ \E f \in DOMAIN previous :
         \/ f \notin DOMAIN next
         \/ previous[f].kind # next[f].kind
         \/ ~ previous[f].required /\ next[f].required
    \/ \E f \in DOMAIN next \ DOMAIN previous : next[f].required

(* compareResourceTypes.                                                   *)
TypesBreak(previous, next) ==
    \E t \in DOMAIN previous :
        \/ t \notin DOMAIN next
        \/ previous[t].unknown = "preserve" /\ next[t].unknown = "reject"
        \/ FieldsBreak(previous[t].fields, next[t].fields)

(* classifyCompatibility; a relationship is compared as a whole.           *)
Classify(previous, next) ==
    IF previous = {} THEN "initial"
    ELSE IF \E p \in previous : \/ TypesBreak(p.types, next.types)
                                \/ ~ p.relationships \subseteq next.relationships
                                \/ p.format # next.format
    THEN "breaking"
    ELSE "backward-compatible"

Later(v, w) ==
    \/ v[1] > w[1]
    \/ v[1] = w[1] /\ v[2] > w[2]

(* assertVersionMatchesCompatibility.                                      *)
VersionAllowed(previous, next, class) ==
    \A p \in previous :
        /\ Later(next.version, p.version)
        /\ class = "breaking" => next.version[1] > p.version[1]
        /\ class = "backward-compatible" => next.version[1] = p.version[1]

(* assertManifestReferences.                                               *)
ReferencesKnown(manifest) ==
    \A r \in manifest.relationships : r.source \cup r.target \subseteq DOMAIN manifest.types

(* assertGovernedRequest: approved, and declared by the application as it  *)
(* is, with one policy for the unknown fields of all types.                *)
Governed(request) ==
    LET manifest == request.manifest
        declared == request.application
    IN  /\ request.approved
        /\ declared.version = manifest.version
        /\ declared.types = DOMAIN manifest.types
        /\ declared.relationships = {r.type : r \in manifest.relationships}
        /\ \A t \in DOMAIN manifest.types : manifest.types[t].unknown = declared.unknown

(* #latest: the manifest of the highest published version.                 *)
Published == {packages[i] : i \in DOMAIN packages}
Latest == {p \in Published : \A q \in Published : ~ Later(q.version, p.version)}

Init == packages = <<>> /\ requests = {}

(* publishGoverned and #publish: a repeated request is answered with its   *)
(* package; another request under its key is refused, like one that is     *)
(* not governed, not of the expected class, or of a wrong version.         *)
PublishGoverned(request) ==
    LET manifest == request.manifest
        class == Classify(Latest, manifest)
    IN  /\ Governed(request)
        /\ \A r \in requests : r.key # request.key
        /\ class = request.expected
        /\ VersionAllowed(Latest, manifest, class)
        /\ \A p \in Published : p.version # manifest.version
        /\ ReferencesKnown(manifest)
        /\ packages' = Append(packages, manifest)
        /\ requests' = requests \cup {request}

Next == \E request \in Requests : PublishGoverned(request)

Spec == Init /\ [][Next]_vars

-----------------------------------------------------------------------------
(* validateResourcePayload.                                                *)
Valid(manifest, type, payload) ==
    /\ type \in DOMAIN manifest.types
    /\ LET definition == manifest.types[type]
       IN  /\ \A f \in DOMAIN definition.fields :
                IF f \in DOMAIN payload
                THEN definition.fields[f].kind \in payload[f]
                ELSE ~ definition.fields[f].required
           /\ definition.unknown = "preserve" \/ DOMAIN payload \subseteq DOMAIN definition.fields

(* What a version of a package accepts, every later version with the same  *)
(* major number accepts, over any number of publications; a payload that   *)
(* already used the name of a field added later is not promised anything.  *)
SameMajorStaysReadable ==
    \A i, j \in DOMAIN packages :
        i < j /\ packages[i].version[1] = packages[j].version[1] =>
            \A t \in DOMAIN packages[i].types : \A payload \in Payloads :
                (/\ Valid(packages[i], t, payload)
                 /\ t \in DOMAIN packages[j].types
                       => DOMAIN payload \cap DOMAIN packages[j].types[t].fields
                             \subseteq DOMAIN packages[i].types[t].fields)
                    => Valid(packages[j], t, payload)
=============================================================================
