----------------------------- MODULE ServiceCases ----------------------------
(* What the clients of the services ask for in MCServices.                 *)
EXTENDS ApiRoutes, TLC

-----------------------------------------------------------------------------
(* Access: two users and an application, all of one workspace.             *)
Actor(id, type, roles) ==
    [id |-> id, type |-> type, roles |-> roles, workspaces |-> {"w"}]

Root == Actor("root", "user", {})
Ann == Actor("ann", "user", {})
AnnApp == Actor("ann", "application", {})
Zoe == Actor("zoe", "user", {"owner"})
Cal == Actor("cal", "user", {})

Row(id, type, principal, role, kind, scope) ==
    [id |-> id, workspace |-> "w", type |-> type, principal |-> principal, role |-> role,
     kind |-> kind, scope |-> scope, revoked |-> FALSE]

RootId == <<"w", "seed", "root">>
AnnId == <<"w", "seed", "ann">>

SeededRows ==
    (RootId :> Row(RootId, "user", "root", "admin", "workspace", "w"))
      @@ (AnnId :> Row(AnnId, "user", "ann", "editor", "workspace", "w"))

App(namespace, key) ==
    [id |-> namespace, namespace |-> namespace, key |-> key, workspace |-> "w",
     capabilities |-> {"resource:read", "history:read"}, status |-> "active"]

SeededApps == {App("ann", "k0")}

Named(path, method) == CHOOSE r \in Routes : r.path = path /\ r.method = method

Body(name) ==
    [workspace |-> "w", fields |-> [f \in ValidatorNamed(name).required |-> "good"]]

Req(actor, path, method, command) ==
    [route |-> Named(path, method), actor |-> actor, header |-> {"w"},
     body |-> IF Named(path, method).body = "none"
              THEN NoBody ELSE Body(Named(path, method).body),
     resource |-> {}, about |-> "workspace", proof |-> FALSE, command |-> command]

ReadCommand == [kind |-> "read"]

Create(actor, key, row) ==
    Req(actor, "/policy-assignments", "POST", [kind |-> "create", key |-> key, row |-> row])

Revoke(actor, id) ==
    Req(actor, "/policy-assignments/:id", "DELETE", [kind |-> "revoke", key |-> id])

ForBen == Row(RootId, "user", "ben", "auditor", "workspace", "w")

(* An assignment made for the application named like a user. *)
ForApp == Row(RootId, "application", "ann", "auditor", "workspace", "w")

(* One made for an application that has still to register. *)
BenApp == Actor("ben", "application", {})
ForBenApp == Row(RootId, "application", "ben", "auditor", "application", "ben")

ForCal == Row(RootId, "user", "cal", "auditor", "dataset", "d")

ReadOne(actor) ==
    [Req(actor, "/resources/:id", "GET", ReadCommand) EXCEPT !.resource = {"r"}]

ReadAll(actor) == Req(actor, "/deleted-resources", "GET", ReadCommand)

(* A verification of one dataset, by an auditor of that dataset. *)
VerifyDataset(actor) ==
    [Req(actor, "/verification/runs", "POST", ReadCommand)
        EXCEPT !.resource = {"d"}, !.about = "dataset"]

KnownDatasets == [r |-> "d"]

Grant ==
    [id |-> <<"grant", "g">>, workspace |-> "w", principal |-> "ann",
     actions |-> {"history:read"}, from |-> 0, until |-> 1, revoked |-> FALSE]

Calm(requests) == [requests |-> requests, glass |-> {}]

Register == Req(Zoe, "/applications", "POST", [kind |-> "register", app |-> App("ben", "k3")])

AccessWorkloads ==
    {Calm({Create(Root, "k1", ForBen), Revoke(Root, RootId)}),
     Calm({Create(Root, "k1", ForBen), Revoke(Root, <<"w", "root", "k1">>)}),
     Calm({Create(Zoe, "k2", ForApp), ReadAll(AnnApp), ReadAll(Ann)}),
     [requests |-> {ReadOne(Ann), ReadAll(Ann)}, glass |-> {Grant}],
     [requests |-> {ReadAll(Ann), ReadAll(AnnApp)}, glass |-> {Grant}],
     Calm({Register, Revoke(Zoe, AnnId)}),
     Calm({Register, Create(Zoe, "k5", ForBenApp), ReadAll(BenApp)}),
     Calm({Create(Zoe, "k4", ForCal), VerifyDataset(Cal), ReadOne(Cal)}),
     Calm({Req(Zoe, "/portability/exports", "POST", ReadCommand),
           [ReadAll(Zoe) EXCEPT !.header = {}]})}

-----------------------------------------------------------------------------
(* Portability: exports under one key with one or another dataset, files   *)
(* that can be read or not, plans in both modes and the execution of one.  *)
Export(key, dataset) == [op |-> "export", key |-> key, datasets |-> {dataset}]

File(quality, source) == <<"file", quality, source>>

Upload(key, file) == [op |-> "upload", key |-> key, file |-> file]

OfPlan(op, key, mode) ==
    [op |-> op, key |-> key, archive |-> File("valid", "other"), mode |-> mode]

PortabilityRequests ==
    {Export("k", "d1"), Export("k", "d2"),
     Upload("k", File("valid", "other")),
     Upload("k", File("invalid", "own")), Upload("k", File("unreadable", "own")),
     OfPlan("plan", "k", "mapped_workspace"), OfPlan("plan", "k", "preserve_ids"),
     OfPlan("plan", "k2", "mapped_workspace"), OfPlan("execute", "k", "mapped_workspace")}

-----------------------------------------------------------------------------
(* Schemas: versions of one package whose type "T" has up to one field,    *)
(* and manifests with a relationship, another format or another type.      *)
Fields(names) == [names -> [kind : {"string", "sha256"}, required : BOOLEAN]]

SchemaManifest(version, fields, unknown) ==
    [version |-> version, format |-> "1", relationships |-> {},
     types |-> [t \in {"T"} |-> [fields |-> fields, unknown |-> unknown]]]

PlainManifests ==
    {SchemaManifest(v, f, u) : v \in {<<1, 0>>, <<1, 1>>, <<1, 2>>, <<2, 0>>},
        f \in Fields({}) \cup Fields({"a"}), u \in {"preserve", "reject"}}

OddManifests ==
    LET base == SchemaManifest(<<1, 1>>, [f \in {"a"} |-> [kind |-> "string", required |-> FALSE]],
                               "preserve")
    IN  {[base EXCEPT !.relationships = {[type |-> "r", source |-> {"T"}, target |-> {t}]}] :
            t \in {"T", "U"}}
        \cup {[base EXCEPT !.format = "2"],
              [base EXCEPT !.types = [t \in {"U"} |-> base.types["T"]]]}

Publication(m, unknown, key, class) ==
    [manifest |-> m, key |-> key, expected |-> class, approved |-> TRUE,
     application |-> [version |-> m.version, types |-> DOMAIN m.types, unknown |-> unknown,
                      relationships |-> {r.type : r \in m.relationships}]]

Classes == {"initial", "breaking", "backward-compatible"}

SchemaRequests ==
    {Publication(m, "preserve", k, c) : m \in PlainManifests \cup OddManifests, k \in 1..3, c \in Classes}
      \cup {Publication(m, "reject", m.version[2] + 1, c) : m \in PlainManifests, c \in Classes}

Payloads ==
    UNION {[d -> {{"string"}, {"string", "sha256"}, {"number"}}] : d \in SUBSET {"a", "b"}}
=============================================================================
