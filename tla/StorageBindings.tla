--------------------------- MODULE StorageBindings ---------------------------
(***************************************************************************)
(* The storage bindings of one application: the commands of                *)
(* app-storage-commands.ts over the registry that every API process keeps  *)
(* in memory (InMemoryAppStorageRegistry), hydrated from and persisted to  *)
(* the tables of PostgreSQL by PostgresAppStorageRegistry.                 *)
(*                                                                         *)
(* A command hydrates the workspace unless the process has it flagged as   *)
(* hydrated, changes the memory in one synchronous step, awaits the write  *)
(* of a copy taken in that step and drops the flag.  Commands of a process *)
(* interleave at every await; processes share only the tables.             *)
(*                                                                         *)
(* A binding and its profile have one id here: every binding is created    *)
(* with a profile of its own and keeps it.  No command starts a migration, *)
(* so no binding is migrating and a cutover is always refused.             *)
(***************************************************************************)
EXTENDS StorageRules, Functions, TLC

CONSTANTS
    Procs,          \* API processes
    Calls,          \* command slots
    First,          \* what the first binding was saved with
    Workloads,      \* sets of commands that may arrive together, each with op,
                    \* id, setting, expected, amount and force
    Objects,        \* objects that are ingested
    MaxBindings,    \* bound on the bindings created
    MaxGeneration,  \* bound on generations
    MaxCommands,    \* bound on the commands
    MaxFaults       \* bound on crashes and failed writes

VARIABLES
    rows,           \* storage_bindings and storage_profiles, by id
    versions,       \* storage_binding_versions: how often each one is there
    sticky,         \* the binding and bucket of every object catalogued
    mem,            \* bindings and profiles in the memory of a process
    hist,           \* versions in the memory of a process
    hydrated,       \* processes that have the workspace flagged
    calls,          \* the local state of every command
    workload,       \* the commands of this behaviour
    created,        \* ids given out
    commands,       \* commands begun
    faults,         \* crashes and failed writes
    stale           \* history: why a memory may differ from the tables

vars == <<rows, versions, sticky, mem, hist, hydrated, calls, workload,
          created, commands, faults, stale>>

Ids == 1..MaxBindings
Empty == [id \in {} |-> 0]

(* Versions are counted up to two: no more than two are ever looked at.    *)
AddVersion(bag, v) ==
    [x \in DOMAIN bag \cup {v} |->
        IF x \notin DOMAIN bag THEN 1 ELSE IF x = v THEN 2 ELSE bag[x]]

AddVersions(bag, more) ==
    [x \in DOMAIN bag \cup DOMAIN more |->
        IF x \in DOMAIN bag \cap DOMAIN more THEN 2
        ELSE IF x \in DOMAIN bag THEN bag[x] ELSE more[x]]

Idle == [step |-> "idle", proc |-> {}, op |-> "read", id |-> 0, setting |-> {},
         expected |-> {}, amount |-> 0, force |-> FALSE,
         profiles |-> {}, bindings |-> {}, reading |-> 0, copy |-> {}, write |-> "none",
         since |-> {}]

NewBinding(scope, status) ==
    [scope |-> scope, status |-> status, generation |-> 1, probed |-> {},
     plan |-> "unknown", usage |-> {}, quota |-> {}, disabled |-> FALSE]

Profile(s) == [bucket |-> s.bucket, mode |-> s.mode, declared |-> {}]

(* The application starts with a binding that an earlier process saved.    *)
Init ==
    \E s \in First :
        LET b == NewBinding(s.scope, NewStatus(s.mode, s.roleArn))
            v == [id |-> 1, generation |-> 1, profile |-> Profile(s)]
        IN  /\ rows = [id \in {1} |-> [b |-> b, p |-> Profile(s)]]
            /\ versions = [x \in {v} |-> 1]
            /\ sticky = Empty
            /\ mem = [p \in Procs |-> [b |-> Empty, p |-> Empty]]
            /\ hist = [p \in Procs |-> Empty]
            /\ hydrated = {}
            /\ calls = [c \in Calls |-> Idle]
            /\ workload \in Workloads
            /\ created = 1
            /\ commands = 0
            /\ faults = 0
            /\ stale = [p \in Procs |-> {}]

-----------------------------------------------------------------------------
(* The process of a call, its step and its end.                            *)
P(c) == calls[c].proc
Goto(c, changes) == calls' = [calls EXCEPT ![c] = changes @@ @]
End(c) == calls' = [calls EXCEPT ![c] = Idle]
Tables == <<rows, versions, sticky>>
Bounds == <<workload, created, commands, faults>>

(* A command arrives; ensureHydrated returns at once when the flag is set. *)
Begin(c) ==
    /\ calls[c].step = "idle"
    /\ commands < MaxCommands
    /\ commands' = commands + 1
    /\ \E r \in workload, p \in Procs :
           /\ r.id <= created
           /\ calls' = [calls EXCEPT ![c] =
                  [step |-> IF p \in hydrated THEN "ready" ELSE "read",
                   proc |-> p] @@ r @@ Idle]
    /\ UNCHANGED <<Tables, mem, hist, hydrated, workload, created, faults, stale>>

(* ensureHydrated: profiles and bindings are read in transactions of their *)
(* own, then put into the memory over what is there, then the versions are *)
(* read and appended, then the flag is set.                                *)
ReadProfiles(c) ==
    /\ calls[c].step = "read" /\ calls[c].profiles = {}
    /\ Goto(c, [profiles |-> {[id \in DOMAIN rows |-> rows[id].p]},
                step |-> IF calls[c].bindings = {} THEN "read" ELSE "apply"])
    /\ UNCHANGED <<Tables, mem, hist, hydrated, Bounds, stale>>

ReadBindings(c) ==
    /\ calls[c].step = "read" /\ calls[c].bindings = {}
    /\ Goto(c, [bindings |-> {[id \in DOMAIN rows |-> rows[id].b]},
                step |-> IF calls[c].profiles = {} THEN "read" ELSE "apply"])
    /\ UNCHANGED <<Tables, mem, hist, hydrated, Bounds, stale>>

\* Mutant: a binding already in memory is left as it is.
HydrateAround(c, bs, memory) ==
    IF DOMAIN bs = {}
    THEN /\ mem' = [mem EXCEPT ![P(c)] = memory]
         /\ hydrated' = hydrated \cup {P(c)}
         /\ stale' = [stale EXCEPT ![P(c)] = @ \cup calls[c].since]
         /\ Goto(c, [step |-> "ready", profiles |-> {}, bindings |-> {},
                     since |-> {}])
    ELSE \E id \in DOMAIN bs :
         /\ mem' = [mem EXCEPT ![P(c)] = [memory EXCEPT !.b = @ @@ (id :> bs[id])]]
         /\ stale' = [stale EXCEPT ![P(c)] = calls[c].since \cup (@ \ {id})]
         /\ Goto(c, [step |-> "versions", reading |-> id, profiles |-> {},
                     bindings |-> {Restrict(bs, DOMAIN bs \ {id})}])
         /\ UNCHANGED hydrated

(* What is left of the bindings read is put into the memory one by one,    *)
(* each followed by a read of its versions.                                *)
HydrateNext(c, bs, memory) ==
    IF DOMAIN bs = {}
    THEN /\ mem' = [mem EXCEPT ![P(c)] = memory]
         /\ hydrated' = hydrated \cup {P(c)}
         /\ stale' = [stale EXCEPT ![P(c)] = @ \cup calls[c].since]
         /\ Goto(c, [step |-> "ready", profiles |-> {}, bindings |-> {},
                     since |-> {}])
    ELSE \E id \in DOMAIN bs :
         /\ mem' = [mem EXCEPT ![P(c)] = [memory EXCEPT !.b = (id :> bs[id]) @@ @]]
         /\ stale' = [stale EXCEPT ![P(c)] = calls[c].since \cup (@ \ {id})]
         /\ Goto(c, [step |-> "versions", reading |-> id, profiles |-> {},
                     bindings |-> {Restrict(bs, DOMAIN bs \ {id})}])
         /\ UNCHANGED hydrated

ApplyRead(c) ==
    /\ calls[c].step = "apply"
    /\ \E ps \in calls[c].profiles, bs \in calls[c].bindings :
           HydrateNext(c, bs, [mem[P(c)] EXCEPT !.p = ps @@ @])
    /\ UNCHANGED <<Tables, hist, Bounds>>

ReadVersions(c) ==
    /\ calls[c].step = "versions"
    /\ hist' = [hist EXCEPT ![P(c)] = AddVersions(@,
           Restrict(versions, {v \in DOMAIN versions : v.id = calls[c].reading}))]
    /\ \E bs \in calls[c].bindings : HydrateNext(c, bs, mem[P(c)])
    /\ UNCHANGED <<Tables, Bounds>>

-----------------------------------------------------------------------------
(* The synchronous part of a command.  Change puts a binding and a profile *)
(* into the memory and takes the copy that will be written.                *)
Ready(c, op) == calls[c].step = "ready" /\ calls[c].op = op
Bindings(c) == mem[P(c)].b
Profiles(c) == mem[P(c)].p
Known(c, id) == id \in DOMAIN Bindings(c) /\ id \in DOMAIN Profiles(c)

Change(c, id, b, p, write) ==
    /\ mem' = [mem EXCEPT ![P(c)] = [b |-> (id :> b) @@ @.b,
                                     p |-> (id :> p) @@ @.p]]
    /\ Goto(c, [step |-> "write", id |-> id, write |-> write,
                copy |-> {[b |-> b, p |-> p]}])

Snapshot(c, id, b, p) ==
    hist' = [hist EXCEPT ![P(c)] =
                AddVersion(@, [id |-> id, generation |-> b.generation,
                               profile |-> p])]

(* A binding whose profile was not read: disable and refresh have changed  *)
(* the binding when they fail on it, and what they changed is not saved.   *)
ChangeAndFail(c, id, b) ==
    /\ mem' = [mem EXCEPT ![P(c)].b[id] = b]
    /\ stale' = [stale EXCEPT ![P(c)] = @ \cup {id}]
    /\ End(c)

(* The lists and reads; a command for a binding that is not in memory; and *)
(* the commands that fail on a missing profile before they change anything.*)
ReadOnly(c) ==
    /\ calls[c].step = "ready"
    /\ \/ calls[c].op = "read"
       \/ calls[c].op \notin {"upsert", "ingest"}
          /\ calls[c].id \notin DOMAIN Bindings(c)
       \/ calls[c].op \in {"probe", "acceptPlan", "rollback"}
          /\ ~Known(c, calls[c].id)
    /\ End(c)
    /\ UNCHANGED <<Tables, mem, hist, hydrated, Bounds, stale>>

(* upsertBinding: the first binding of the scope is changed, or one made.  *)
UpsertExisting(c) ==
    /\ Ready(c, "upsert")
    /\ \E s \in calls[c].setting, id \in DOMAIN Bindings(c) :
          LET old == Bindings(c)[id]
              b == [old EXCEPT !.generation = @ + 1, !.probed = {},
                               !.status = SavedStatus(s.mode, s.roleArn)]
          IN
          /\ old.scope = s.scope
          /\ IF ~Known(c, id) \/ \E g \in calls[c].expected : g # old.generation
             THEN End(c) /\ UNCHANGED <<mem, hist>>
             ELSE /\ old.generation < MaxGeneration
                  /\ Change(c, id, b, Profile(s), "full")
                  /\ Snapshot(c, id, b, Profile(s))
    /\ UNCHANGED <<Tables, hydrated, Bounds, stale>>

UpsertNew(c) ==
    /\ Ready(c, "upsert")
    /\ created < MaxBindings
    /\ created' = created + 1
    /\ \E s \in calls[c].setting :
          LET b == NewBinding(s.scope, NewStatus(s.mode, s.roleArn)) IN
          /\ \A id \in DOMAIN Bindings(c) : Bindings(c)[id].scope # s.scope
          /\ Change(c, created', b, Profile(s), "full")
          /\ Snapshot(c, created', b, Profile(s))
    /\ UNCHANGED <<Tables, hydrated, workload, commands, faults, stale>>

(* probeStorageBinding: a role cannot be probed live; otherwise the bucket *)
(* of the profile is probed and the answer is recorded when it comes.      *)
ProbeBegin(c) ==
    /\ Ready(c, "probe") /\ Known(c, calls[c].id)
    /\ LET id == calls[c].id
           old == Bindings(c)[id]
           p == Profiles(c)[id]
       IN  IF p.mode = "cross_account_role"
           THEN Change(c, id, [old EXCEPT !.status = DeferredStatus(@),
                                          !.probed = {}], p, "state")
           ELSE Goto(c, [step |-> "probing", copy |-> {[b |-> old, p |-> p]}])
                /\ UNCHANGED mem
    /\ UNCHANGED <<Tables, hist, hydrated, Bounds, stale>>

RecordProbe(c, ok, write) ==
    LET id == calls[c].id
        b == [Bindings(c)[id] EXCEPT !.probed = {ok},
                 !.status = IF ok THEN "connected" ELSE "needs_attention"]
    IN  IF Known(c, id)
        THEN Change(c, id, b, Profiles(c)[id], write) /\ UNCHANGED stale
        ELSE IF id \in DOMAIN Bindings(c)
        THEN ChangeAndFail(c, id, [b EXCEPT !.probed = {FALSE},
                                            !.status = "needs_attention"])
        ELSE End(c) /\ UNCHANGED <<mem, stale>>

ProbeAnswer(c, ok) ==
    /\ calls[c].step = "probing"
    /\ RecordProbe(c, ok, "probe")
    /\ UNCHANGED <<Tables, hist, hydrated, Bounds>>

RefreshPlan(c) ==
    /\ Ready(c, "refreshPlan") /\ calls[c].id \in DOMAIN Bindings(c)
    /\ LET id == calls[c].id
           old == Bindings(c)[id]
           quota == {calls[c].amount}
       IN  IF Known(c, id)
           THEN /\ Change(c, id,
                      [old EXCEPT !.quota = quota,
                           !.plan = EvaluatePlanSync(Profiles(c)[id].declared,
                                                     old.usage, quota, old.quota)],
                      Profiles(c)[id], "state")
                /\ UNCHANGED stale
           ELSE ChangeAndFail(c, id, [old EXCEPT !.quota = quota])
    /\ UNCHANGED <<Tables, hist, hydrated, Bounds>>

AcceptPlan(c) ==
    /\ Ready(c, "acceptPlan") /\ Known(c, calls[c].id)
    /\ LET id == calls[c].id
           old == Bindings(c)[id]
           declared == {calls[c].amount}
       IN  Change(c, id,
                  [old EXCEPT !.plan = EvaluatePlanSync(declared, old.usage,
                                                        old.quota, old.quota)],
                  [Profiles(c)[id] EXCEPT !.declared = declared], "plan")
    /\ UNCHANGED <<Tables, hist, hydrated, Bounds, stale>>

DisableBinding(c) ==
    /\ Ready(c, "disable") /\ calls[c].id \in DOMAIN Bindings(c)
    /\ LET id == calls[c].id
           b == [Bindings(c)[id] EXCEPT !.disabled = TRUE, !.status = "disabled",
                                        !.generation = @ + 1]
       IN  /\ b.generation <= MaxGeneration
           /\ IF Known(c, id)
              THEN Change(c, id, b, Profiles(c)[id], "state") /\ UNCHANGED stale
              ELSE ChangeAndFail(c, id, b)
    /\ UNCHANGED <<Tables, hist, hydrated, Bounds>>

(* rollbackBinding looks at the two newest versions in memory, however     *)
(* often hydration has put the same one there.                             *)
Newer(c, v) == {w \in DOMAIN hist[P(c)] : w.id = v.id /\ w.generation > v.generation}
InTopTwo(c, v) ==
    LET newer == Newer(c, v) IN
    newer = {} \/ (Cardinality(newer) = 1 /\ \A w \in newer : hist[P(c)][w] = 1)

Rollback(c) ==
    /\ Ready(c, "rollback") /\ Known(c, calls[c].id)
    /\ LET id == calls[c].id
           old == Bindings(c)[id]
           previous == {v \in DOMAIN hist[P(c)] :
                           /\ v.id = id /\ v.generation < old.generation
                           /\ InTopTwo(c, v)}
           b == [old EXCEPT !.generation = @ + 1, !.status = "configured",
                            !.probed = {}, !.disabled = FALSE]
       IN  IF previous = {}
           THEN End(c) /\ UNCHANGED <<mem, hist>>
           ELSE \E v \in previous :
                /\ \A w \in previous : w.generation <= v.generation
                /\ old.generation < MaxGeneration
                /\ Change(c, id, b, v.profile, "full")
                /\ Snapshot(c, id, b, v.profile)
    /\ UNCHANGED <<Tables, hydrated, Bounds, stale>>

(* deleteStorageBinding: objects are counted first, unless it is forced.   *)
CountSticky(c) ==
    /\ Ready(c, "delete") /\ calls[c].id \in DOMAIN Bindings(c)
    /\ ~calls[c].force
    /\ IF \E o \in DOMAIN sticky : sticky[o].id = calls[c].id
       THEN End(c)
       ELSE Goto(c, [step |-> "counted"])
    /\ UNCHANGED <<Tables, mem, hist, hydrated, Bounds, stale>>

DeleteBinding(c) ==
    /\ calls[c].op = "delete"
    /\ calls[c].step = "counted" \/ (calls[c].step = "ready" /\ calls[c].force)
    /\ LET id == calls[c].id IN
       IF Known(c, id) /\ (calls[c].force \/ Bindings(c)[id].status # "connected")
       THEN /\ mem' = [mem EXCEPT ![P(c)] =
                          [b |-> Restrict(@.b, DOMAIN @.b \ {id}),
                           p |-> Restrict(@.p, DOMAIN @.p \ {id})]]
            /\ Goto(c, [step |-> "write", write |-> "delete"])
       ELSE /\ calls[c].step = "counted" \/ id \in DOMAIN Bindings(c)
            /\ End(c) /\ UNCHANGED mem
    /\ UNCHANGED <<Tables, hist, hydrated, Bounds, stale>>

(* An ingest is routed by the memory and stores the object some time later.*)
IngestContext == [purpose |-> "ingest", application |-> TRUE, tenant |-> FALSE,
                  externalKey |-> FALSE, generation |-> {}]

Ingest(c) ==
    /\ Ready(c, "ingest")
    /\ LET scoped == {id \in DOMAIN Bindings(c) : Bindings(c)[id].scope = "app"}
           Routed(ids) ==
               ForIngest(TRUE, TRUE,
                         Resolve(IngestContext, {}, {}, {},
                                 {Bindings(c)[id] : id \in ids}),
                         {Profiles(c)[id] : id \in ids \cap DOMAIN Profiles(c)})
       IN  \/ /\ scoped = {} \/ \E id \in scoped : Routed({id}).to # "binding"
              /\ End(c)
           \/ \E id \in scoped :
              /\ Routed({id}).to = "binding"
              /\ Goto(c, [step |-> "storing", id |-> id,
                          copy |-> {[b |-> Bindings(c)[id], p |-> Profiles(c)[id]]}])
    /\ UNCHANGED <<Tables, mem, hist, hydrated, Bounds, stale>>

Store(c) ==
    /\ calls[c].step = "storing"
    /\ \E o \in Objects, route \in calls[c].copy :
          /\ o \notin DOMAIN sticky
          /\ sticky' = (o :> [id |-> calls[c].id, bucket |-> route.p.bucket]) @@ sticky
    /\ End(c)
    /\ UNCHANGED <<rows, versions, mem, hist, hydrated, Bounds, stale>>

-----------------------------------------------------------------------------
(* A write that commits makes the memories of other processes old, and so  *)
(* does it with what a hydration in progress has read.  A deletion does so *)
(* with its own process, when a hydration has put the binding back.        *)
Reading(d) == \/ calls[d].step \in {"apply", "versions"}
              \/ calls[d].step = "read"
                 /\ (calls[d].profiles # {} \/ calls[d].bindings # {})

Committed(c, id, next) ==
    /\ stale' = [p \in Procs |->
                    IF p = P(c) /\ (id \in DOMAIN Bindings(c) => id \in DOMAIN rows')
                    THEN stale[p] ELSE stale[p] \cup {id}]
    /\ calls' = [d \in Calls |->
                    IF d = c THEN next @@ calls[d]
                    ELSE IF Reading(d)
                    THEN [calls[d] EXCEPT !.since = @ \cup {id}]
                    ELSE calls[d]]

Writing(c, kinds) == calls[c].step = "write" /\ calls[c].write \in kinds
Finishing == [step |-> "finish"]

\* Mutant: the version is not saved with the profile.
PersistUnversioned(c) ==
    /\ Writing(c, {"full"})
    /\ \E row \in calls[c].copy :
          LET id == calls[c].id IN
          /\ \A other \in DOMAIN rows \ {id} : rows[other].b.scope # row.b.scope
          /\ rows' = (id :> row) @@ rows
          /\ Committed(c, id, Finishing)
    /\ UNCHANGED <<versions, sticky, mem, hist, hydrated, Bounds>>

(* upsertProfileAndBinding, refused when another binding has the scope.    *)
PersistBinding(c) ==
    /\ Writing(c, {"full"})
    /\ \E row \in calls[c].copy :
          LET id == calls[c].id IN
          /\ \A other \in DOMAIN rows \ {id} : rows[other].b.scope # row.b.scope
          /\ rows' = (id :> row) @@ rows
          /\ versions' = AddVersion(versions,
                 [id |-> id, generation |-> row.b.generation, profile |-> row.p])
          /\ Committed(c, id, Finishing)
    /\ UNCHANGED <<sticky, mem, hist, hydrated, Bounds>>

ScopeTaken(c) ==
    /\ Writing(c, {"full"})
    /\ \E row \in calls[c].copy, other \in DOMAIN rows \ {calls[c].id} :
          rows[other].b.scope = row.b.scope
    /\ stale' = [stale EXCEPT ![P(c)] = @ \cup {calls[c].id}]
    /\ End(c)
    /\ UNCHANGED <<Tables, mem, hist, hydrated, Bounds>>

(* updateBindingState changes no row when the binding was deleted.         *)
PersistState(c) ==
    /\ Writing(c, {"state", "probe"})
    /\ LET id == calls[c].id IN
       IF id \in DOMAIN rows
       THEN /\ \E row \in calls[c].copy : rows' = [rows EXCEPT ![id].b = row.b]
            /\ Committed(c, id, Finishing)
       ELSE /\ stale' = [stale EXCEPT ![P(c)] = @ \cup {id}]
            /\ Goto(c, Finishing)
            /\ UNCHANGED rows
    /\ UNCHANGED <<versions, sticky, mem, hist, hydrated, Bounds>>

(* persistPlan: the declared plan, then the binding's state as it is then, *)
(* or as it was when a hydration has replaced it in memory.                *)
PersistPlan(c) ==
    /\ Writing(c, {"plan"})
    /\ LET id == calls[c].id
           now == IF Known(c, id) THEN {[b |-> Bindings(c)[id], p |-> Profiles(c)[id]]}
                  ELSE {}
       IN  \E copy \in calls[c].copy, row \in calls[c].copy \cup now :
           IF id \in DOMAIN rows
           THEN /\ rows' = [rows EXCEPT ![id].p.declared = copy.p.declared]
                /\ Committed(c, id, [write |-> "state", copy |-> {row}])
           ELSE Goto(c, [write |-> "state", copy |-> {row}])
                /\ UNCHANGED <<rows, stale>>
    /\ UNCHANGED <<versions, sticky, mem, hist, hydrated, Bounds>>

PersistDelete(c) ==
    /\ Writing(c, {"delete"})
    /\ LET id == calls[c].id IN
       /\ rows' = Restrict(rows, DOMAIN rows \ {id})
       /\ versions' = Restrict(versions, {v \in DOMAIN versions : v.id # id})
       /\ Committed(c, id, Finishing)
    /\ UNCHANGED <<sticky, mem, hist, hydrated, Bounds>>

Finish(c) ==
    /\ calls[c].step = "finish"
    /\ hydrated' = hydrated \ {P(c)}
    /\ End(c)
    /\ UNCHANGED <<Tables, mem, hist, Bounds, stale>>

(* A write fails: the memory keeps the change and the flag stays.  A probe *)
(* whose result could not be saved is recorded again, as failed.           *)
PersistFails(c) ==
    /\ calls[c].step = "write"
    /\ faults < MaxFaults
    /\ faults' = faults + 1
    /\ IF calls[c].write = "probe"
       THEN RecordProbe(c, FALSE, "state")
       ELSE /\ stale' = [stale EXCEPT ![P(c)] = @ \cup {calls[c].id}]
            /\ End(c) /\ UNCHANGED mem
    /\ UNCHANGED <<Tables, hist, hydrated, workload, created, commands>>

Crash(p) ==
    /\ faults < MaxFaults
    /\ faults' = faults + 1
    /\ mem' = [mem EXCEPT ![p] = [b |-> Empty, p |-> Empty]]
    /\ hist' = [hist EXCEPT ![p] = Empty]
    /\ hydrated' = hydrated \ {p}
    /\ calls' = [c \in Calls |-> IF P(c) = p THEN Idle ELSE calls[c]]
    /\ stale' = [stale EXCEPT ![p] = {}]
    /\ UNCHANGED <<Tables, workload, created, commands>>

Hydrate(c) == ReadProfiles(c) \/ ReadBindings(c) \/ ApplyRead(c) \/ ReadVersions(c)
Command(c) ==
    \/ ReadOnly(c) \/ UpsertExisting(c) \/ UpsertNew(c)
    \/ ProbeBegin(c) \/ (\E ok \in BOOLEAN : ProbeAnswer(c, ok))
    \/ RefreshPlan(c) \/ AcceptPlan(c) \/ DisableBinding(c) \/ Rollback(c)
    \/ CountSticky(c) \/ DeleteBinding(c) \/ Ingest(c) \/ Store(c)
Write(c) == \/ PersistBinding(c) \/ ScopeTaken(c) \/ PersistState(c)
            \/ PersistPlan(c) \/ PersistDelete(c) \/ Finish(c)
Next ==
    \/ \E c \in Calls : Begin(c) \/ Hydrate(c) \/ Command(c) \/ Write(c)
                        \/ PersistFails(c)
    \/ \E p \in Procs : Crash(p)

Spec == Init /\ [][Next]_vars

-----------------------------------------------------------------------------
(* The memory of a process that has nothing under way agrees with the      *)
(* tables for every binding, unless another process wrote it since it was  *)
(* read, or during the read, or a write of its own did not take effect.    *)
Quiet(p) == \A c \in Calls : P(c) = p => calls[c].step \in {"idle", "ready"}

StaleForAReason ==
    \A p \in hydrated : Quiet(p) =>
        \A id \in Ids \ stale[p] :
            /\ id \in DOMAIN mem[p].b <=> id \in DOMAIN rows
            /\ id \in DOMAIN rows => rows[id] = [b |-> mem[p].b[id], p |-> mem[p].p[id]]

(* The bucket and mode of every saved binding are those of a version saved *)
(* for it, whatever commands ran over each other.                          *)
HistoryCoversProfile ==
    \A id \in DOMAIN rows : \E v \in DOMAIN versions :
        /\ v.id = id
        /\ v.profile.bucket = rows[id].p.bucket
        /\ v.profile.mode = rows[id].p.mode

=============================================================================
