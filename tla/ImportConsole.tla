---------------------------- MODULE ImportConsole ----------------------------
(***************************************************************************)
(* The Control Centre's portability page (PortabilityView of App.tsx) in   *)
(* front of the API's in-memory portability provider.  The page keeps one  *)
(* candidate: the file chosen, the archive verified, the plan and the      *)
(* operation.  Each button starts a run; a run ends when its answer comes, *)
(* and meanwhile the operator may choose another file or start the export, *)
(* which only its own run disables.  Another client, a second page or the  *)
(* SDK, uses the same provider.  Every click sends a fresh idempotency     *)
(* key (createIdempotencyKey of client.ts), so the provider's replays are  *)
(* not reached from here and are left out.                                 *)
(***************************************************************************)
EXTENDS Integers, FiniteSets, Functions, TLC

CONSTANTS
    Content,    \* file -> [status, home, records]: what reading it yields
    MaxChoices, MaxRuns, MaxMixedRuns, MaxFlights,
    MaxAsides,  \* exports, downloads and faults together
    MaxOthers   \* requests of another client

VARIABLES
    view,       \* what the page holds
    reading,    \* the files whose bytes are being read
    flights,    \* run number -> the run, while its request is under way
    strays,     \* requests given up by the page that may yet be served
    provider,   \* the provider's maps
    ways,       \* how the page may have come to mix two candidates
    used        \* choices, runs, asides and others so far

vars == <<view, reading, flights, strays, provider, ways, used>>

Files == DOMAIN Content
Modes == {"mapped_workspace", "preserve_ids"}
Kinds == {"verify", "plan", "execute", "create-export", "download-export"}

NewProvider ==
    [archives |-> {}, plans |-> <<>>, operations |-> {}, records |-> <<>>, exports |-> {}]

(* The page once an export was made on it: before that it only lacks the   *)
(* button to download one.                                                 *)
Init ==
    /\ view = [name |-> {}, bytes |-> {}, archive |-> {}, plan |-> {}, operation |-> {},
               export |-> {"export"}, busy |-> ""]
    /\ provider = [NewProvider EXCEPT !.exports = {"export"}]
    /\ reading = {} /\ flights = <<>> /\ strays = {} /\ ways = {}
    /\ used = [choices |-> 0, runs |-> 0, asides |-> 0, others |-> 0]

-----------------------------------------------------------------------------
(* The provider.                                                           *)
Answer(ok, value) == {[ok |-> ok, value |-> value]}
Refusal == Answer(FALSE, {})

(* uploadArchive: an archive is kept under its digest, also when its       *)
(* verification failed.  (One that cannot be read is refused, as by Fail.)  *)
UploadArchive(file) ==
    [answer |-> Answer(TRUE, {[id |-> file, status |-> Content[file].status]}),
     provider |-> [provider EXCEPT !.archives = @ \cup {file}]]

(* A record of another workspace is given an id of the target workspace.   *)
TargetId(file, id) == <<IF Content[file].home THEN "own" ELSE "mapped", id>>

Blocked(file, records) ==
    {id \in DOMAIN Content[file].records :
        /\ TargetId(file, id) \in DOMAIN records
        /\ records[TargetId(file, id)] # Content[file].records[id]}

Absent(file, records) ==
    {id \in DOMAIN Content[file].records : TargetId(file, id) \notin DOMAIN records}

(* createPlan: the plan's id leaves the dispositions out, so planning      *)
(* again replaces what an earlier plan of the archive and mode said.       *)
CreatePlan(archive, mode) ==
    LET rejected == \/ Content[archive].status # "verified"
                    \/ Blocked(archive, provider.records) # {}
        plan == [archive |-> archive, status |-> IF rejected THEN "rejected" ELSE "ready",
                 insert |-> IF rejected THEN {} ELSE Absent(archive, provider.records)]
        id == <<archive, mode>>
        plans == [p \in DOMAIN provider.plans \cup {id} |->
                    IF p = id THEN plan ELSE provider.plans[p]]
    IN  IF \/ archive \notin provider.archives
           \/ mode = "preserve_ids" /\ ~Content[archive].home
          THEN [answer |-> Refusal, provider |-> provider]
          ELSE [answer |-> Answer(TRUE, {[id |-> id, archive |-> archive,
                                          status |-> plan.status]}),
                provider |-> [provider EXCEPT !.plans = plans]]

(* commitMetadata: the records to insert are set, whatever is there by now *)
(* (revalidate of this provider finds no issue).                           *)
CommitMetadata(plan) ==
    LET new == [t \in {TargetId(plan.archive, id) : id \in plan.insert} |->
                  Content[plan.archive].records[t[2]]]
    IN  [t \in DOMAIN provider.records \cup DOMAIN new |->
            IF t \in DOMAIN new THEN new[t] ELSE provider.records[t]]

(* An operation runs to its end without a pause, for all of it is in       *)
(* memory; a plan that has one is not run again (begin and advance).       *)
RunOperation(id) ==
    IF id \in provider.operations THEN provider
    ELSE [provider EXCEPT !.operations = @ \cup {id},
                          !.records = CommitMetadata(provider.plans[id])]

ExecutePlan(id) ==
    IF id \notin DOMAIN provider.plans \/ provider.plans[id].status # "ready"
      THEN [answer |-> Refusal, provider |-> provider]
      ELSE [answer |-> Answer(TRUE, {id}), provider |-> RunOperation(id)]

(* createExport: exports are not told apart.  (A selection that is not the *)
(* fixture's is refused, as by Fail.)                                      *)
CreateExport(id) ==
    [answer |-> Answer(TRUE, {id}), provider |-> [provider EXCEPT !.exports = {id}]]

DownloadExport(id) ==
    [answer |-> IF id \in provider.exports THEN Answer(TRUE, {id}) ELSE Refusal,
     provider |-> provider]

Served(request) ==
    CASE request.kind = "verify" -> UploadArchive(request.input)
      [] request.kind = "plan" -> CreatePlan(request.input[1], request.input[2])
      [] request.kind = "execute" -> ExecutePlan(request.input)
      [] request.kind = "create-export" -> CreateExport(request.input)
      [] request.kind = "download-export" -> DownloadExport(request.input)

Serve(n) ==
    /\ flights[n].answer = {}
    /\ provider' = Served(flights[n]).provider
    /\ flights' = [flights EXCEPT ![n].answer = Served(flights[n]).answer]
    /\ UNCHANGED <<view, reading, strays, ways, used>>

(* A bound of the model: a behaviour has asides or another client.         *)
AsideLeft == used.asides < MaxAsides /\ used.others = 0

(* The connection fails: the answer is lost, or the request may be served  *)
(* at any later time or never.                                             *)
Fail(n) ==
    /\ flights[n].answer # Refusal /\ AsideLeft
    /\ used' = [used EXCEPT !.asides = @ + 1]
    /\ strays' = strays \cup {[kind |-> flights[n].kind, input |-> flights[n].input] :
                                x \in {x \in {1} : flights[n].answer = {}}}
    /\ flights' = [flights EXCEPT ![n].answer = Refusal]
    /\ UNCHANGED <<view, reading, provider, ways>>

(* A request whose answer no run of the page awaits.                       *)
Unawaited(request, way) ==
    /\ provider' = Served(request).provider
    /\ ways' = ways \cup {w \in {way} : provider'.records # provider.records}
    /\ UNCHANGED <<view, reading, flights>>

ServeStray(request) ==
    Unawaited(request, "stray") /\ strays' = strays \ {request} /\ UNCHANGED used

(* Another client sends a request that changes something.                  *)
Other(request) ==
    /\ used.others < MaxOthers /\ used.asides = 0
    /\ Unawaited(request, "other") /\ provider' # provider
    /\ used' = [used EXCEPT !.others = @ + 1]
    /\ UNCHANGED strays

ImportRequests ==
    [kind : {"verify"}, input : Files] \cup [kind : {"plan", "execute"}, input : Files \X Modes]

(* The API starts again: everything it held was in memory.                 *)
Restart ==
    /\ AsideLeft
    /\ used' = [used EXCEPT !.asides = @ + 1]
    /\ provider' = NewProvider
    /\ UNCHANGED <<view, reading, flights, strays, ways>>

-----------------------------------------------------------------------------
(* The page.  A run sets busy to its kind and sends its request at once.   *)
(* What the operator types into the page's fields (the identity mode, the  *)
(* proof, the datasets) is an input of the click that reads it.            *)
Run(kind, input) ==
    /\ view' = [view EXCEPT !.busy = kind]
    /\ \E n \in 1..MaxFlights \ DOMAIN flights :
          /\ \A m \in 1..(n - 1) : m \in DOMAIN flights
          /\ flights' = flights @@ (n :> [kind |-> kind, input |-> input,
                                          answer |-> {}])
    /\ ways' = ways \cup {w \in {"overlap"} : flights # <<>>}
                    \cup {w \in {"early"} : kind = "verify" /\ {input} # view.name}
    /\ UNCHANGED <<reading, strays, provider>>

(* A bound of the model: fewer runs once the page may mix two candidates.  *)
RunLimit == IF ways \cap {"late", "early"} = {} THEN MaxRuns ELSE MaxMixedRuns

ImportRun(kind, input) ==
    /\ view.busy = "" /\ used.runs < RunLimit
    /\ used' = [used EXCEPT !.runs = @ + 1]
    /\ Run(kind, input)

ExportRun(kind, input) ==
    /\ view.busy # kind /\ AsideLeft
    /\ used' = [used EXCEPT !.asides = @ + 1]
    /\ Run(kind, input)

Verify == \E file \in view.bytes : ImportRun("verify", file)

PlanImport ==
    \E a \in view.archive, mode \in Modes :
        a.status = "verified" /\ ImportRun("plan", <<a.id, mode>>)

Execute == \E p \in view.plan : p.status = "ready" /\ ImportRun("execute", p.id)

StartExport == ExportRun("create-export", "export")

Download == \E id \in view.export : ExportRun("download-export", id)

(* Mutant: a new file leaves the plan of the last one on the page.         *)
ResetArchiveOnly(v) == [v EXCEPT !.archive = {}, !.operation = {}]

ResetCandidate(v) == [v EXCEPT !.archive = {}, !.plan = {}, !.operation = {}]

(* Choosing a file names it and forgets the candidate; its bytes come      *)
(* later, and until then those of the file before stay.                    *)
ChooseFile(file) ==
    /\ used.choices < MaxChoices
    /\ used' = [used EXCEPT !.choices = @ + 1]
    /\ view' = [ResetCandidate(view) EXCEPT !.name = {file}]
    /\ reading' = reading \cup {[n |-> used.choices, file |-> file]}
    /\ ways' = ways \cup {w \in {"late"} : \E n \in DOMAIN flights : flights[n].kind \in {"verify", "plan"}}
    /\ UNCHANGED <<flights, strays, provider>>

FileRead(r) ==
    /\ reading' = reading \ {r}
    /\ view' = [view EXCEPT !.bytes = {r.file}]
    /\ UNCHANGED <<flights, strays, provider, ways, used>>

(* What a run does with its value.                                         *)
Apply(kind, value) ==
    CASE kind = "verify" -> [view EXCEPT !.archive = value, !.plan = {}, !.operation = {}]
      [] kind = "plan" -> [view EXCEPT !.plan = value]
      [] kind = "execute" -> [view EXCEPT !.operation = value]
      [] kind = "create-export" -> [view EXCEPT !.export = value]
      [] kind = "download-export" -> view

(* The answer reaches the page: a refusal only shows its message.          *)
Settle(n) ==
    /\ \E a \in flights[n].answer :
          view' = [(IF a.ok THEN Apply(flights[n].kind, a.value) ELSE view)
                     EXCEPT !.busy = ""]
    /\ flights' = Restrict(flights, DOMAIN flights \ {n})
    /\ UNCHANGED <<reading, strays, provider, ways, used>>

Next ==
    \/ Verify \/ PlanImport \/ Execute \/ StartExport \/ Download
    \/ Restart
    \/ \E file \in Files : ChooseFile(file)
    \/ \E r \in reading : FileRead(r)
    \/ \E n \in DOMAIN flights : Serve(n) \/ Fail(n) \/ Settle(n)
    \/ \E request \in strays : ServeStray(request)
    \/ \E request \in ImportRequests : Other(request)

Spec == Init /\ [][Next]_vars

-----------------------------------------------------------------------------
TypeOK ==
    /\ view.name \subseteq Files /\ view.bytes \subseteq Files
    /\ view.busy \in Kinds \cup {""}
    /\ \A field \in {"name", "bytes", "archive", "plan", "operation", "export"} :
          Cardinality(view[field]) <= 1
    /\ provider.archives \subseteq Files /\ DOMAIN provider.plans \subseteq Files \X Modes
    /\ provider.operations \subseteq Files \X Modes
    /\ ways \subseteq {"overlap", "early", "late", "stray", "other"}
    /\ \A request \in strays : request.kind \in Kinds

(* A plan that the page offers to execute is of the file the page names,   *)
(* unless a file was chosen while its predecessor was verified or planned  *)
(* (late) or bytes were verified before those of the named file were read  *)
(* (early).  And executing it replaces no record, for what it inserts is   *)
(* absent or there already, unless records were committed that the page    *)
(* does not know of: by another client, by a request the page had given up *)
(* (stray), or by an execution still under way when the end of an export   *)
(* enabled the page's buttons again (overlap).  commitMetadata looks at    *)
(* none of this: a plan's dispositions are as old as the plan.             *)
OfferedPlanIsOfNamedFile ==
    \A p \in {p \in view.plan : p.status = "ready"} :
        /\ ways \cap {"late", "early"} = {} => {p.archive} = view.name
        /\ ways \cap {"other", "stray", "overlap"} = {} /\ p.id \in DOMAIN provider.plans =>
             \A id \in provider.plans[p.id].insert :
                TargetId(p.archive, id) \in DOMAIN provider.records =>
                  provider.records[TargetId(p.archive, id)] = Content[p.archive].records[id]
=============================================================================
