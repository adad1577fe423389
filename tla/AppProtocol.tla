----------------------------- MODULE AppProtocol -----------------------------
(***************************************************************************)
(* packages/app-protocol: the bundle an application starts from.  A        *)
(* manifest is made from the form an application fills in, checked, and    *)
(* turned into the list of methods its capabilities give it.               *)
(*                                                                         *)
(* A text is a member of Texts: Blank when nothing is left of it once      *)
(* trimmed, and otherwise one of the forms its pattern accepts (Good) or   *)
(* refuses.  A method is named by the route of the API it is sent to; a    *)
(* parameter of its path is written as ApiRoutes writes it.                *)
(***************************************************************************)
EXTENDS ApiRoutes

CONSTANTS Blank, Good

AppCapabilities ==
    {"dataset:read", "resource:read", "revision:create", "object:ingest",
     "blob:read", "relation:read", "history:read", "portability:read"}

(* Blank entries are dropped; order and repetition do not survive. *)
Unique(values) == values \ {Blank}

(***************************************************************************)
(* The input: [namespace, name, version, schemaVersion, resourceTypes,     *)
(* relationTypes, blobRoles, capabilities], the last four sets.            *)
(***************************************************************************)
ManifestOf(input) ==
    [namespace |-> input.namespace, name |-> input.name, version |-> input.version,
     schemaVersion |-> input.schemaVersion,
     schemaKey |-> <<input.namespace, input.schemaVersion>>,
     resourceTypes |-> Unique(input.resourceTypes),
     relationTypes |-> Unique(input.relationTypes),
     blobRoles |-> Unique(input.blobRoles),
     capabilities |-> Unique(input.capabilities)]

ValidateAppProtocolManifest(manifest) ==
    {"namespace" : x \in {manifest.namespace} \ Good}
      \cup {"name" : x \in {manifest.name} \cap {Blank}}
      \cup {"applicationVersion" : x \in {manifest.version} \ Good}
      \cup {"schemaPackage.version" : x \in {manifest.schemaVersion} \ Good}
      \cup {"schemaPackage.key" :
              x \in {manifest.schemaKey} \ {<<manifest.namespace, manifest.schemaVersion>>}}
      \cup (IF manifest.resourceTypes = {} THEN {"schemaPackage.resourceTypes"} ELSE {})
      \cup {"schemaPackage.resourceTypes" : x \in manifest.resourceTypes \ Good}
      \cup {"schemaPackage.relationTypes" : x \in manifest.relationTypes \ Good}
      \cup {"schemaPackage.blobRoles" : x \in manifest.blobRoles \ Good}
      \cup {"capabilities" : x \in manifest.capabilities \ AppCapabilities}

Offer(method, path) == [method |-> method, path |-> path]

RequiredMethods == {Offer("POST", "/applications"), Offer("GET", "/schemas")}

CandidateMethods ==
    {<<"dataset:read", Offer("GET", "/datasets")>>,
     <<"resource:read", Offer("GET", "/resources")>>,
     <<"revision:create", Offer("POST", "/resources/:id/revisions")>>,
     <<"object:ingest", Offer("POST", "/uploads")>>,
     <<"object:ingest", Offer("GET", "/uploads/:id/scan-status")>>,
     <<"blob:read", Offer("POST", "/blobs/download-grants")>>,
     <<"relation:read", Offer("GET", "/relations")>>,
     <<"history:read", Offer("GET", "/history")>>,
     <<"portability:read", Offer("GET", "/portability/operations/:id")>>}


InterfaceMethods(capabilities) ==
    RequiredMethods \cup {c[2] : c \in {d \in CandidateMethods : d[1] \in capabilities}}

(* Nothing is made of a manifest with an issue. *)
CreateAppProtocolBundle(input) ==
    LET manifest == ManifestOf(input)
    IN  IF ValidateAppProtocolManifest(manifest) # {}
        THEN {}
        ELSE {[manifest |-> manifest, methods |-> InterfaceMethods(manifest.capabilities)]}

-----------------------------------------------------------------------------
Named(offer) == {r \in Routes : r.method = offer.method /\ r.path = offer.path}

(* The application of a bundle, registered with its capabilities, asks for *)
(* a route; a role of its workspace gives it every action there.           *)
Served(manifest, route) ==
    LET principal == [id |-> "app", type |-> "application", roles |-> {"owner"},
                      workspaces |-> {"w"}]
        registered == [id |-> "app", namespace |-> manifest.namespace, workspace |-> "w",
                       capabilities |-> manifest.capabilities, status |-> "active"]
        scope == [workspace |-> "w", dataset |-> {}, application |-> {}]
    IN  GatewayAllows(principal, route.action, scope, route.apps, {}, {registered}, {}, 0).allowed

ServedMethods(bundle) ==
    {m \in bundle.methods : \A r \in Named(m) : Served(bundle.manifest, r)}

(* Capabilities whose methods are routes that admit no application.        *)
OperatorCapabilities == {"dataset:read", "revision:create", "history:read", "portability:read"}

(***************************************************************************)
(* What a bundle offers is a route of the API each, and the application is *)
(* refused only where the route admits no application: never for a         *)
(* capability it did not declare.  Four of the eight capabilities, and the *)
(* two methods every bundle has, are for its operator alone: the gateway   *)
(* refuses them to the application itself, whatever its role.  Each of the *)
(* other capabilities is worth a method to it.                             *)
(***************************************************************************)
BundleMatchesRoutes(input) ==
    \A b \in CreateAppProtocolBundle(input) :
        LET served == ServedMethods(b)
        IN  /\ \A m \in b.methods : Named(m) # {}
            /\ served = {m \in b.methods : \A r \in Named(m) : r.apps}
            /\ {r.action : r \in UNION {Named(m) : m \in served}}
                 = b.manifest.capabilities \ OperatorCapabilities
=============================================================================
