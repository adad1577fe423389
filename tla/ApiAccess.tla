------------------------------ MODULE ApiAccess ------------------------------
(***************************************************************************)
(* Requests to the Trust API while the rules that decide them change.      *)
(*                                                                         *)
(* A request goes through secured() of apps/trust-api/src/app.ts: its      *)
(* scope is resolved, three lists are read (assignments, applications,     *)
(* break-glass grants; three database calls in flight together, each in a  *)
(* transaction of its own), the policy is evaluated, a use of break-glass  *)
(* is recorded, and only then does the command run.  The commands modelled *)
(* are those that change the rules themselves: creating and revoking an    *)
(* assignment (postgres-commands.ts), whose row and audit event are two    *)
(* transactions, and registering an application.  Any other command is a   *)
(* read.                                                                   *)
(***************************************************************************)
EXTENDS ApiRoutes

CONSTANTS
    Slots,          \* requests in flight at one time
    Workloads,      \* what a behaviour draws from: [requests, glass], glass being
                    \* the break-glass grants an operator may issue
    FirstRows,      \* the assignments at the start: a function from ids to rows
    FirstApps,      \* the applications registered at the start
    DatasetOf,      \* the dataset of each resource
    MaxRequests, MaxNow, MaxFaults

(* The records of the tables; no assignment starts out revoked.            *)
AssignmentFields == {"id", "workspace", "type", "principal", "role", "kind", "scope", "revoked"}
GrantFields == {"id", "workspace", "principal", "actions", "from", "until", "revoked"}

ASSUME AccessConstants ==
    /\ \A a \in DOMAIN FirstRows :
         /\ DOMAIN FirstRows[a] = AssignmentFields
         /\ FirstRows[a].id = a /\ ~FirstRows[a].revoked
    /\ \A w \in Workloads :
         /\ \A r \in w.requests : r.command.kind = "create" =>
              DOMAIN r.command.row = AssignmentFields /\ ~r.command.row.revoked
         /\ \A g \in w.glass : DOMAIN g = GrantFields /\ g.until \in Nat

VARIABLES
    now,            \* the clock
    assignments,    \* policy_assignments: id -> row
    applications,   \* application_registrations
    grants,         \* break_glass_grants
    trail,          \* audit_events of the kinds recorded here
    slots,          \* the request in each slot
    workload,       \* the requests and grants of this behaviour
    arrivals, faults,
    lost            \* changes whose request failed between row and audit event

accessVars == <<now, assignments, applications, grants, trail, slots, workload,
          arrivals, faults, lost>>

tables == <<assignments, applications, grants, trail>>

Lists == {"assignments", "applications", "grants"}

(* n numbers the requests; since holds the grounds of this request that    *)
(* were in force at some instant since it arrived.                         *)
Idle ==
    [step |-> "idle", n |-> 0, request |-> << >>, at |-> 0, workspace |-> "",
     pending |-> {}, rows |-> {}, apps |-> {}, glass |-> {},
     source |-> "", ground |-> "", since |-> {}]

AccessInit ==
    /\ now = 0
    /\ assignments = FirstRows
    /\ applications = FirstApps
    /\ grants = {}
    /\ trail = {}
    /\ slots = [s \in Slots |-> Idle]
    /\ workload \in Workloads
    /\ arrivals = 0
    /\ faults = 0
    /\ lost = {}

(***************************************************************************)
(* The scope a request is decided in.  A request is [route, actor, header, *)
(* body, resource, about, proof, command]; resource is optional, and about *)
(* says of a verification, or of the report of one, whether it names a     *)
(* resource or a dataset.                                                  *)
(***************************************************************************)
DatasetFor(r) ==
    LET kind == IF r.route.scope \in {"verification", "report"} THEN r.about ELSE r.route.scope
    IN  IF kind = "resource" THEN {DatasetOf[x] : x \in r.resource \cap DOMAIN DatasetOf}
        ELSE IF kind = "dataset" THEN r.resource
        ELSE {}

ScopeOf(r, ws) == [workspace |-> ws, dataset |-> DatasetFor(r), application |-> {}]

(***************************************************************************)
(* What could justify a request now, stated apart from the code: a live    *)
(* assignment or claim that is the actor's, covers the scope and carries   *)
(* the action, or a grant within its time.  Of an application's assignment *)
(* to an application, "of" is the one it is confined to.                   *)
(***************************************************************************)
Ground(id, of) == [id |-> id, of |-> of]

ConfinedTo(row) == IF row.kind = "application" THEN {row.scope} ELSE {}

Covers(row, r, ws) ==
    \/ row.kind = "workspace" /\ row.scope = ws
    \/ row.kind = "dataset" /\ row.scope \in DatasetFor(r)
    \/ row.kind = "application" /\ r.actor.type = "application"

JustifiedByRow(row, r, ws) ==
    /\ ~row.revoked
    /\ row.workspace = ws
    /\ row.type = r.actor.type /\ row.principal = r.actor.id
    /\ Covers(row, r, ws)
    /\ row.role \in Roles /\ r.route.action \in RoleCapabilities[row.role]

JustifiedByGlass(g, r, ws, time) ==
    /\ ~g.revoked
    /\ g.from <= time /\ time < g.until
    /\ g.workspace = ws /\ g.principal = r.actor.id
    /\ r.route.action \in g.actions \cap BreakGlassEligible

InForce(r, ws, rows, glass, time) ==
    {Ground(a, ConfinedTo(rows[a])) : a \in {b \in DOMAIN rows : JustifiedByRow(rows[b], r, ws)}}
    \cup {Ground(<<"identity-claim", role>>, {}) : role \in
            {x \in r.actor.roles \cap Roles : /\ ws \in r.actor.workspaces
                                              /\ r.route.action \in RoleCapabilities[x]}}
    \cup {Ground(g.id, {}) : g \in {x \in glass : JustifiedByGlass(x, r, ws, time)}}

(* The slots after a change of the tables: each open request learns what came into force. *)
Observed(sl, rows, glass, time) ==
    [s \in Slots |->
        IF sl[s].step = "idle" THEN sl[s]
        ELSE [sl[s] EXCEPT !.since = @ \cup
                InForce(sl[s].request, sl[s].workspace, rows, glass, time)]]

Goto(s, step) == slots' = [slots EXCEPT ![s].step = step]

End(s) == slots' = [slots EXCEPT ![s] = Idle]

(* A request with no workspace is refused before anything is read. *)
Arrive(s, r) ==
    /\ slots[s].step = "idle"
    /\ arrivals < MaxRequests
    /\ arrivals' = arrivals + 1
    /\ \E ws \in WorkspaceOf(r.body, r.header) :
          slots' = [slots EXCEPT ![s] =
              [Idle EXCEPT !.step = "reading", !.n = arrivals + 1, !.request = r,
                           !.at = now, !.workspace = ws, !.pending = Lists,
                           !.since = InForce(r, ws, assignments, grants, now)]]
    /\ UNCHANGED <<now, tables, workload, faults, lost>>

Refuse(s, r) ==
    /\ slots[s].step = "idle"
    /\ arrivals < MaxRequests
    /\ WorkspaceOf(r.body, r.header) = {}
    /\ arrivals' = arrivals + 1
    /\ UNCHANGED <<now, tables, slots, workload, faults, lost>>

Read(s, list, field, value) ==
    /\ slots[s].step = "reading"
    /\ list \in slots[s].pending
    /\ slots' = [slots EXCEPT ![s].pending = @ \ {list}, ![s][field] = value]
    /\ UNCHANGED <<now, tables, workload, arrivals, faults, lost>>

(* listPolicyAssignments: the live rows of a workspace, for one principal or all. *)
LiveRows(ws) ==
    {assignments[a] : a \in {b \in DOMAIN assignments :
        ~assignments[b].revoked /\ assignments[b].workspace = ws}}

ReadAssignments(s) ==
    Read(s, "assignments", "rows",
         {a \in LiveRows(slots[s].workspace) : a.principal = slots[s].request.actor.id})

ReadApplications(s) ==
    Read(s, "applications", "apps",
         {a \in applications : a.workspace = slots[s].workspace})

ReadGrants(s) ==
    Read(s, "grants", "glass",
         {g \in grants : /\ g.workspace = slots[s].workspace
                         /\ g.principal = slots[s].request.actor.id
                         /\ ~g.revoked
                         /\ g.from <= slots[s].at /\ g.until > slots[s].at})

(* The decision, from the lists as they were read. *)
Decide(s) ==
    LET q == slots[s]
        r == q.request
        decision == GatewayAllows(r.actor, r.route.action, ScopeOf(r, q.workspace),
                        r.route.apps, q.rows, q.apps, q.glass, q.at)
    IN  /\ q.step = "reading"
        /\ q.pending = {}
        /\ IF ~decision.allowed
           THEN End(s)
           ELSE \E g \in decision.grounds :
                  slots' = [slots EXCEPT ![s].source = decision.source, ![s].ground = g,
                      ![s].step = IF decision.source = "break_glass" THEN "use" ELSE "confirm"]
        /\ UNCHANGED <<now, tables, workload, arrivals, faults, lost>>

ChangeEvent(kind, subject, n) == [event |-> kind, subject |-> subject, by |-> n]

RecordUse(s) ==
    /\ slots[s].step = "use"
    /\ trail' = trail \cup {ChangeEvent("break_glass.used", slots[s].ground, slots[s].n)}
    /\ Goto(s, "confirm")
    /\ UNCHANGED <<now, assignments, applications, grants, workload, arrivals, faults, lost>>

(* Fresh proof where the route asks for it, then the body, then the command. *)
Confirm(s) ==
    LET r == slots[s].request
    IN  /\ slots[s].step = "confirm"
        /\ IF (r.route.reauth /\ ~r.proof) \/ ~Valid(r.route.body, r.body)
           THEN End(s)
           ELSE Goto(s, "run")
        /\ UNCHANGED <<now, tables, workload, arrivals, faults, lost>>

-----------------------------------------------------------------------------
(* The commands. *)

Running(s, step, kind) == slots[s].step = step /\ slots[s].request.command.kind = kind

(* The workspace the command works in. *)
Told(s) == CommandWorkspace(slots[s].request.route, slots[s].request.body, slots[s].workspace)

(* The id is a digest of the workspace, the actor and the idempotency key. *)
AssignmentId(s) ==
    <<Told(s), slots[s].request.actor.id, slots[s].request.command.key>>

NewRow(s) ==
    [slots[s].request.command.row EXCEPT !.id = AssignmentId(s),
                                         !.workspace = Told(s)]

(* createPolicyAssignment: a live row of that id answers the request, *)
(* as a replay or as a conflict.                                      *)
LookUp(s) ==
    LET existing == {a \in LiveRows(Told(s)) : a.id = AssignmentId(s)}
    IN  /\ Running(s, "run", "create")
        /\ IF existing # {} THEN End(s) ELSE Goto(s, "insert")
        /\ UNCHANGED <<now, tables, workload, arrivals, faults, lost>>

(* A second row of the same id is refused by the primary key. *)
Insert(s) ==
    LET id == AssignmentId(s)
        rows == [a \in DOMAIN assignments \cup {id} |->
                    IF a = id THEN NewRow(s) ELSE assignments[a]]
    IN  /\ slots[s].step = "insert"
        /\ IF id \in DOMAIN assignments
           THEN End(s) /\ UNCHANGED assignments
           ELSE /\ assignments' = rows
                /\ slots' = Observed([slots EXCEPT ![s].step = "audit"],
                                    rows, grants, now)
        /\ UNCHANGED <<now, applications, grants, trail, workload, arrivals, faults, lost>>

(* revokePolicyAssignment: nothing is done to a row already revoked. *)
Fetch(s) ==
    LET id == slots[s].request.command.key
    IN  /\ Running(s, "run", "revoke")
        /\ IF \/ id \notin DOMAIN assignments
              \/ assignments[id].workspace # Told(s)
              \/ assignments[id].revoked
           THEN End(s)
           ELSE Goto(s, "update")
        /\ UNCHANGED <<now, tables, workload, arrivals, faults, lost>>

\* Mutant: a revocation ends with the row.
UpdateOnly(s) ==
    /\ slots[s].step = "update"
    /\ assignments' = [assignments EXCEPT ![slots[s].request.command.key].revoked = TRUE]
    /\ End(s)
    /\ UNCHANGED <<now, applications, grants, trail, workload, arrivals, faults, lost>>

Update(s) ==
    LET id == slots[s].request.command.key
    IN  /\ slots[s].step = "update"
        /\ assignments' = [assignments EXCEPT ![id].revoked = TRUE]
        /\ Goto(s, "audit")
        /\ UNCHANGED <<now, applications, grants, trail, workload, arrivals, faults, lost>>

(* What the request in this slot changed, as its audit event names it. *)
ChangeOf(s) ==
    IF slots[s].request.command.kind = "create"
    THEN ChangeEvent("policy_assignment.created", AssignmentId(s), slots[s].n)
    ELSE ChangeEvent("policy_assignment.revoked", slots[s].request.command.key, slots[s].n)

RecordChange(s) ==
    /\ slots[s].step = "audit"
    /\ trail' = trail \cup {ChangeOf(s)}
    /\ End(s)
    /\ UNCHANGED <<now, assignments, applications, grants, workload, arrivals, faults, lost>>

(* registerApplication, one statement: the key, then the namespace, decide. *)
Register(s) ==
    LET app == slots[s].request.command.app
        replay == {a \in applications : a.workspace = app.workspace /\ a.key = app.key}
        taken == {a \in applications : a.workspace = app.workspace
                                       /\ a.namespace = app.namespace}
    IN  /\ Running(s, "run", "register")
        /\ applications' = IF replay \cup taken # {} \/ ~(app.capabilities \subseteq PolicyActions)
                           THEN applications
                           ELSE applications \cup {app}
        /\ End(s)
        /\ UNCHANGED <<now, assignments, grants, trail, workload, arrivals, faults, lost>>

Answer(s) ==
    /\ Running(s, "run", "read")
    /\ End(s)
    /\ UNCHANGED <<now, tables, workload, arrivals, faults, lost>>

-----------------------------------------------------------------------------
(* The world around the requests. *)

(* A grant needs eligible actions and an end after its start. *)
GrantBreakGlass(g) ==
    LET issued == grants \cup {[g EXCEPT !.from = now, !.until = now + g.until]}
    IN  /\ g.id \notin {x.id : x \in grants}
        /\ g.actions # {} /\ g.actions \subseteq BreakGlassEligible
        /\ g.until > 0
        /\ grants' = issued
        /\ slots' = Observed(slots, assignments, issued, now)
        /\ UNCHANGED <<now, assignments, applications, trail, workload, arrivals, faults, lost>>

RevokeBreakGlass(g) ==
    /\ ~g.revoked
    /\ grants' = (grants \ {g}) \cup {[g EXCEPT !.revoked = TRUE]}
    /\ UNCHANGED <<now, assignments, applications, trail, slots, workload, arrivals, faults, lost>>

AccessTick ==
    /\ now < MaxNow
    /\ now' = now + 1
    /\ slots' = Observed(slots, assignments, grants, now + 1)
    /\ UNCHANGED <<tables, workload, arrivals, faults, lost>>

(* A database call fails, or the process dies: the request ends where it is. *)
Fail(s) ==
    /\ slots[s].step # "idle"
    /\ faults < MaxFaults
    /\ faults' = faults + 1
    /\ lost' = IF slots[s].step = "audit"
               THEN lost \cup {<<ChangeOf(s).event, ChangeOf(s).subject>>}
               ELSE lost
    /\ End(s)
    /\ UNCHANGED <<now, tables, workload, arrivals>>

Command(s) ==
    LookUp(s) \/ Insert(s) \/ Fetch(s) \/ Update(s) \/ RecordChange(s) \/ Register(s) \/ Answer(s)

AccessNext ==
    \/ \E s \in Slots :
          \/ \E r \in workload.requests : Arrive(s, r) \/ Refuse(s, r)
          \/ ReadAssignments(s) \/ ReadApplications(s) \/ ReadGrants(s)
          \/ Decide(s) \/ RecordUse(s) \/ Confirm(s)
          \/ Command(s)
          \/ Fail(s)
    \/ \E g \in workload.glass : GrantBreakGlass(g)
    \/ \E g \in grants : RevokeBreakGlass(g)
    \/ AccessTick

AccessSpec == AccessInit /\ [][AccessNext]_accessVars

-----------------------------------------------------------------------------
Acting == {"run", "insert", "update", "audit"}

(***************************************************************************)
(* A command only runs on grounds that were in force at some instant after *)
(* its request arrived: an assignment of that very principal (a user and   *)
(* an application of the same id are two), a role its token claims, or a   *)
(* grant within its time.  The three lists are read one by one while the   *)
(* tables change, so no instant need exist at which all three were true;   *)
(* the one the decision rests on is.  An application moreover is           *)
(* registered in the workspace with the capability, and an assignment to   *)
(* an application is to itself.                                            *)
(***************************************************************************)
IsRegistered(x, r, ws) ==
    /\ x.workspace = ws /\ x.status = "active"
    /\ r.actor.id \in {x.id, x.namespace}

Grounded(s) ==
    LET r == slots[s].request
        own == {x \in applications : IsRegistered(x, r, slots[s].workspace)}
    IN  /\ \E g \in slots[s].since : g.id = slots[s].ground /\ g.of \subseteq {x.id : x \in own}
        /\ r.actor.type = "application" => \E x \in own : r.route.action \in x.capabilities

GrantedOnlyWithGrounds ==
    \A s \in Slots : slots[s].step \in Acting => Grounded(s)

Recorded(event, id) ==
    \/ \E e \in trail : e.event = event /\ e.subject = id
    \/ \E s \in Slots : /\ slots[s].step = "audit"
                        /\ ChangeOf(s).event = event
                        /\ ChangeOf(s).subject = id
    \/ <<event, id>> \in lost

(***************************************************************************)
(* Every assignment created, and every one revoked, is in the audit trail  *)
(* or about to be, unless the request that changed it failed between the   *)
(* row and the event.  (A retry does not make up for that failure: it      *)
(* finds the row as wanted and answers without recording.)                 *)
(***************************************************************************)
ChangesAreAudited ==
    \A id \in DOMAIN assignments :
        /\ id \notin DOMAIN FirstRows => Recorded("policy_assignment.created", id)
        /\ assignments[id].revoked => Recorded("policy_assignment.revoked", id)
=============================================================================
