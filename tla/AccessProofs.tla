---------------------------- MODULE AccessProofs ----------------------------
(***************************************************************************)
(* Proofs about PolicyRules and about ApiAccess.                           *)
(***************************************************************************)
EXTENDS ApiAccess, TLAPS

(***************************************************************************)
(* The policy and the gateway in front of it, for every principal, every   *)
(* scope and every content of the three lists.                             *)
(***************************************************************************)
(* What a positive answer of evaluatePolicy rests on. *)
LEMMA EvaluateAllows ==
    ASSUME NEW principal, NEW action, NEW scope, NEW rows, NEW apps,
           NEW glass, NEW at,
           EvaluatePolicy(principal, action, scope, rows, apps, glass, at).allowed
    PROVE  /\ principal.type = "application" =>
                \E a \in RegisteredApplication(principal, scope, apps) :
                    action \in a.capabilities
           /\ \/ \E a \in rows \cup ClaimedRoleAssignments(principal, scope) :
                    /\ AssignmentMatches(a, principal, scope)
                    /\ action \in CapabilitiesForRole(a.role)
              \/ ActiveBreakGlass(principal, action, scope, glass, at) # {}
BY DEF EvaluatePolicy, Denied

(* What the policy is asked by the gateway: the same question, with the    *)
(* application of the scope replaced by the principal's own.               *)
OwnScope(principal, scope, apps) ==
    [scope EXCEPT !.application =
        IF principal.type = "application"
        THEN {a.id : a \in RegisteredApplication(principal, scope, apps)}
        ELSE {}]

(* A positive answer of the gateway is one of the policy. *)
LEMMA GatewayAsksPolicy ==
    ASSUME NEW principal, NEW action, NEW scope, NEW admits, NEW rows,
           NEW apps, NEW glass, NEW at,
           GatewayAllows(principal, action, scope, admits, rows, apps,
                         glass, at).allowed
    PROVE  /\ principal.type = "application" => admits
           /\ EvaluatePolicy(principal, action, OwnScope(principal, scope, apps),
                             rows, apps, glass, at).allowed
BY DEF GatewayAllows, OwnScope, Denied

(* An application is let through only by a route that admits apps, *)
(* and only for an action that an active registration of it in that very   *)
(* workspace declares: no role, claim or break-glass grant widens what an  *)
(* application asked for when it registered.                               *)
THEOREM ApplicationStaysWithinCapabilities ==
    ASSUME NEW principal, NEW action, NEW workspace, NEW dataset, NEW application,
           NEW admits, NEW rows, NEW apps, NEW glass, NEW at,
           principal.type = "application",
           GatewayAllows(principal, action,
               [workspace |-> workspace, dataset |-> dataset, application |-> application],
               admits, rows, apps, glass, at).allowed
    PROVE  /\ admits
           /\ \E a \in apps :
                /\ a.workspace = workspace
                /\ a.status = "active"
                /\ principal.id \in {a.id, a.namespace}
                /\ action \in a.capabilities
<1> DEFINE scope == [workspace |-> workspace, dataset |-> dataset, application |-> application]
           own == OwnScope(principal, scope, apps)
<1>1. own.workspace = workspace
  BY DEF OwnScope
<1>2. /\ admits
      /\ EvaluatePolicy(principal, action, own, rows, apps, glass, at).allowed
  <2> HIDE DEF scope
  <2>1. GatewayAllows(principal, action, scope, admits, rows, apps,
                      glass, at).allowed
    BY DEF scope
  <2>2. QED BY <2>1, GatewayAsksPolicy
<1> HIDE DEF own
<1>3. PICK a \in RegisteredApplication(principal, own, apps) : action \in a.capabilities
  BY <1>2, EvaluateAllows
<1>4. QED BY <1>1, <1>2, <1>3 DEF RegisteredApplication

(* A role that only administers the infrastructure opens no content:       *)
(* where a principal's every matching assignment and every role its token  *)
(* claims is infrastructure_operator or worker, a content action is        *)
(* allowed only under an unrevoked break-glass grant of that principal and *)
(* that workspace, for that action and within its time, and never for an   *)
(* action that changes content other than a restore.                       *)
THEOREM InfrastructureCannotReachContent ==
    ASSUME NEW principal, NEW action \in ContentActions, NEW scope, NEW rows,
           NEW apps, NEW glass, NEW at,
           \A a \in rows : AssignmentMatches(a, principal, scope)
                => a.role \in {"infrastructure_operator", "worker"},
           principal.roles \subseteq {"infrastructure_operator", "worker"},
           EvaluatePolicy(principal, action, scope, rows, apps, glass, at).allowed
    PROVE  /\ action \in BreakGlassEligible
           /\ \E g \in glass :
                /\ g.workspace = scope.workspace
                /\ g.principal = principal.id
                /\ ~g.revoked
                /\ action \in g.actions
                /\ g.from <= at /\ g.until > at
<1>1. \A role \in {"infrastructure_operator", "worker"} :
          action \notin CapabilitiesForRole(role)
  BY DEF CapabilitiesForRole, Roles, RoleCapabilities, ContentActions
<1>2. \A a \in ClaimedRoleAssignments(principal, scope) : a.role \in principal.roles
  BY DEF ClaimedRoleAssignments
<1>3. ~ \E a \in rows \cup ClaimedRoleAssignments(principal, scope) :
          AssignmentMatches(a, principal, scope) /\ action \in CapabilitiesForRole(a.role)
  BY <1>1, <1>2
<1>4. ActiveBreakGlass(principal, action, scope, glass, at) # {}
  BY <1>3, EvaluateAllows
<1>5. QED BY <1>4 DEF ActiveBreakGlass

(* What the policy grants rests on something of the principal's own: an    *)
(* assignment that is not revoked, of its id and its kind, in the          *)
(* workspace asked about; a role its token claims there; or a break-glass  *)
(* grant.  An assignment of another workspace, of another principal, or of *)
(* a user with the id of an application, is never grounds.                 *)
THEOREM GroundsAreOnesOwn ==
    ASSUME NEW principal, NEW action, NEW scope, NEW rows, NEW apps,
           NEW glass, NEW at,
           EvaluatePolicy(principal, action, scope, rows, apps, glass, at).allowed
    PROVE  \/ \E a \in rows :
                /\ ~a.revoked
                /\ a.workspace = scope.workspace
                /\ a.type = principal.type /\ a.principal = principal.id
                /\ action \in CapabilitiesForRole(a.role)
           \/ /\ scope.workspace \in principal.workspaces
              /\ \E role \in principal.roles : action \in CapabilitiesForRole(role)
           \/ \E g \in glass : /\ g.workspace = scope.workspace
                                /\ g.principal = principal.id
                                /\ action \in g.actions \cap BreakGlassEligible
<1>1. CASE ActiveBreakGlass(principal, action, scope, glass, at) # {}
  BY <1>1 DEF ActiveBreakGlass
<1>2. ASSUME NEW a \in ClaimedRoleAssignments(principal, scope),
             action \in CapabilitiesForRole(a.role)
      PROVE  /\ scope.workspace \in principal.workspaces
             /\ \E role \in principal.roles : action \in CapabilitiesForRole(role)
  BY <1>2 DEF ClaimedRoleAssignments
<1>3. ASSUME NEW a \in rows, AssignmentMatches(a, principal, scope)
      PROVE  /\ ~a.revoked
             /\ a.workspace = scope.workspace
             /\ a.type = principal.type /\ a.principal = principal.id
  BY <1>3 DEF AssignmentMatches
<1>4. QED BY <1>1, <1>2, <1>3, EvaluateAllows

-----------------------------------------------------------------------------
(***************************************************************************)
(* Access.  What is in force is among what every open request has seen in  *)
(* force; what it has read was in force when it was read; and what it has  *)
(* been granted rests on what it has read.                                 *)
(***************************************************************************)
Decided == {"use", "confirm"} \cup Acting

AccessTypeOK ==
    /\ now \in Nat /\ DOMAIN slots = Slots /\ workload \in Workloads
    /\ \A a \in DOMAIN assignments : /\ DOMAIN assignments[a] = AssignmentFields
                                     /\ assignments[a].id = a
    /\ \A g \in grants : DOMAIN g = GrantFields /\ g.from \in Nat /\ g.until \in Nat
    /\ \A s \in Slots : /\ DOMAIN slots[s] = DOMAIN Idle
                        /\ slots[s].step \in {"idle", "reading"} \cup Decided

(* What the lists of this request hold has been seen in force. *)
ListsInv(q) ==
    /\ \A a \in q.rows : JustifiedByRow(a, q.request, q.workspace)
                         => Ground(a.id, ConfinedTo(a)) \in q.since
    /\ q.apps \subseteq {x \in applications : x.workspace = q.workspace}
    /\ \A g \in q.glass : JustifiedByGlass(g, q.request, q.workspace, q.at)
                          => Ground(g.id, {}) \in q.since

(* So has what the tables hold, and what they held when it arrived. *)
TablesInv(q) ==
    /\ InForce(q.request, q.workspace, assignments, grants, now) \subseteq q.since
    /\ \A g \in grants : JustifiedByGlass(g, q.request, q.workspace, q.at)
                         => Ground(g.id, {}) \in q.since

SlotInv(s) ==
    LET q == slots[s]
    IN  q.step # "idle" =>
            /\ q.request \in workload.requests
            /\ q.at \in Nat /\ q.at <= now
            /\ ListsInv(q) /\ TablesInv(q)
            /\ q.step \in Decided => Grounded(s)
            /\ q.step = "insert" => q.request.command.kind = "create"
            /\ q.step = "update" => q.request.command.kind = "revoke"

AccessInv ==
    /\ AccessTypeOK
    /\ \A s \in Slots : SlotInv(s)
    /\ ChangesAreAudited

(* A change of one field of a slot leaves the others. *)
LEMMA StepChanged ==
    ASSUME NEW q, DOMAIN q = DOMAIN Idle, NEW step, NEW x, x = [q EXCEPT !.step = step]
    PROVE  /\ DOMAIN x = DOMAIN Idle /\ x.step = step /\ x.request = q.request /\ x.at = q.at
           /\ x.workspace = q.workspace /\ x.rows = q.rows /\ x.apps = q.apps
           /\ x.glass = q.glass /\ x.ground = q.ground /\ x.since = q.since
BY DEF Idle

LEMMA SinceChanged ==
    ASSUME NEW q, DOMAIN q = DOMAIN Idle, NEW since, NEW x, x = [q EXCEPT !.since = since]
    PROVE  /\ DOMAIN x = DOMAIN Idle /\ x.since = since /\ x.request = q.request /\ x.at = q.at
           /\ x.workspace = q.workspace /\ x.rows = q.rows /\ x.apps = q.apps
           /\ x.glass = q.glass /\ x.ground = q.ground /\ x.step = q.step
BY Zenon DEF Idle

(* The slot holds the same request, which may have seen more in force. *)
Carries(s) ==
    /\ slots'[s].request = slots[s].request /\ slots'[s].workspace = slots[s].workspace
    /\ slots'[s].at = slots[s].at /\ slots'[s].ground = slots[s].ground
    /\ slots'[s].rows = slots[s].rows /\ slots'[s].apps = slots[s].apps
    /\ slots'[s].glass = slots[s].glass
    /\ slots[s].since \subseteq slots'[s].since

(* The clock does not go back, and no registration is undone. *)
TimeGoesOn ==
    /\ now \in Nat /\ now' \in Nat /\ now <= now'
    /\ applications \subseteq applications' /\ UNCHANGED workload

LEMMA GroundedStays ==
    ASSUME NEW s \in Slots, Grounded(s), Carries(s), applications \subseteq applications'
    PROVE  Grounded(s)'
<1>1. PICK g \in slots[s].since :
          /\ g.id = slots[s].ground
          /\ g.of \subseteq {x.id : x \in {y \in applications :
                 IsRegistered(y, slots[s].request, slots[s].workspace)}}
  BY DEF Grounded
<1>2. /\ g \in slots'[s].since /\ g.id = slots'[s].ground
      /\ g.of \subseteq {x.id : x \in {y \in applications' :
                 IsRegistered(y, slots'[s].request, slots'[s].workspace)}}
  BY <1>1 DEF Carries
<1>3. ASSUME slots[s].request.actor.type = "application"
      PROVE  \E x \in {y \in applications' :
                 IsRegistered(y, slots'[s].request, slots'[s].workspace)} :
                     slots'[s].request.route.action \in x.capabilities
  BY <1>3 DEF Grounded, Carries
<1>4. slots'[s].request = slots[s].request
  BY DEF Carries
<1>5. QED BY <1>2, <1>3, <1>4 DEF Grounded, IsRegistered

LEMMA ListsStay ==
    ASSUME NEW s \in Slots, ListsInv(slots[s]), Carries(s), applications \subseteq applications'
    PROVE  ListsInv(slots[s])'
BY Zenon DEF ListsInv, Carries, JustifiedByRow, JustifiedByGlass, Covers, DatasetFor

(* A request that stays open keeps its invariant when what is now in force *)
(* has been observed.                                                      *)
LEMMA SlotStays ==
    ASSUME NEW s \in Slots, SlotInv(s), slots[s].step # "idle", Carries(s), TimeGoesOn,
           TablesInv(slots[s])',
           slots'[s].step \in Decided => slots[s].step \in Decided,
           slots'[s].step = "insert" => slots[s].request.command.kind = "create",
           slots'[s].step = "update" => slots[s].request.command.kind = "revoke"
    PROVE  SlotInv(s)'
<1>1. ListsInv(slots[s])'
  BY ListsStay DEF SlotInv, TimeGoesOn
<1>2. slots'[s].step \in Decided => Grounded(s)'
  BY GroundedStays DEF SlotInv, TimeGoesOn
<1>3. slots'[s].request \in workload'.requests /\ slots'[s].at \in Nat /\ slots'[s].at <= now'
  BY DEF SlotInv, TimeGoesOn, Carries
<1>4. QED BY <1>1, <1>2, <1>3 DEF SlotInv, Carries

(* What is in force only shrinks when rows and grants are only revoked. *)
NothingNew ==
    /\ now' = now
    /\ \A a \in DOMAIN assignments' :
         /\ a \in DOMAIN assignments
         /\ assignments'[a] = assignments[a] \/ assignments'[a].revoked
    /\ \A g \in grants' : g \in grants \/ g.revoked

LEMMA TablesShrink ==
    ASSUME NEW s \in Slots, TablesInv(slots[s]), Carries(s), NothingNew
    PROVE  TablesInv(slots[s])'
<1> DEFINE r == slots[s].request
           ws == slots[s].workspace
<1>1. InForce(r, ws, assignments', grants', now') \subseteq InForce(r, ws, assignments, grants, now)
  <2>1. \A a \in DOMAIN assignments' : JustifiedByRow(assignments'[a], r, ws) =>
            a \in DOMAIN assignments /\ assignments'[a] = assignments[a]
    BY DEF NothingNew, JustifiedByRow
  <2>2. \A g \in grants' : JustifiedByGlass(g, r, ws, now') => g \in grants /\ now' = now
    BY DEF NothingNew, JustifiedByGlass
  <2>3. QED BY <2>1, <2>2, Zenon DEF InForce
<1>2. slots'[s].request = r /\ slots'[s].workspace = ws
  BY DEF Carries
<1>3. InForce(slots'[s].request, slots'[s].workspace, assignments', grants', now')
          \subseteq slots'[s].since
  BY <1>1, <1>2 DEF TablesInv, Carries
<1>4. \A g \in grants' : JustifiedByGlass(g, slots'[s].request, slots'[s].workspace, slots'[s].at)
                         => Ground(g.id, {}) \in slots'[s].since
  BY DEF NothingNew, TablesInv, Carries, JustifiedByGlass
<1>5. QED BY <1>3, <1>4 DEF TablesInv

(* A change once recorded, or about to be, stays so. *)
StillRecorded ==
    /\ trail \subseteq trail' /\ lost \subseteq lost'
    /\ \A s \in Slots : slots[s].step = "audit" =>
         \/ /\ slots'[s].step = "audit" /\ slots'[s].request = slots[s].request
            /\ slots'[s].workspace = slots[s].workspace
         \/ \E e \in trail' : e.event = ChangeOf(s).event /\ e.subject = ChangeOf(s).subject
         \/ <<ChangeOf(s).event, ChangeOf(s).subject>> \in lost'

LEMMA ChangeOfRequest ==
    ASSUME NEW s \in Slots, slots'[s].request = slots[s].request,
           slots'[s].workspace = slots[s].workspace
    PROVE  ChangeOf(s)'.event = ChangeOf(s).event /\ ChangeOf(s)'.subject = ChangeOf(s).subject
<1>1. AssignmentId(s)' = AssignmentId(s)
  BY DEF AssignmentId, Told
<1>2. QED BY <1>1 DEF ChangeOf, ChangeEvent

LEMMA RecordedStays ==
    ASSUME StillRecorded, NEW event, NEW id, Recorded(event, id)
    PROVE  Recorded(event, id)'
<1>1. CASE \E e \in trail : e.event = event /\ e.subject = id
  BY <1>1 DEF StillRecorded, Recorded
<1>2. CASE <<event, id>> \in lost
  BY <1>2 DEF StillRecorded, Recorded
<1>3. ASSUME NEW s \in Slots, slots[s].step = "audit", ChangeOf(s).event = event,
             ChangeOf(s).subject = id
      PROVE  Recorded(event, id)'
  BY <1>3, ChangeOfRequest DEF StillRecorded, Recorded
<1>4. QED BY <1>1, <1>2, <1>3 DEF Recorded

LEMMA AuditStays ==
    ASSUME AccessInv, UNCHANGED assignments, StillRecorded
    PROVE  ChangesAreAudited'
BY RecordedStays DEF AccessInv, ChangesAreAudited

(* What the invariant says of the tables. *)
RowsOK ==
    /\ \A a \in DOMAIN assignments : /\ DOMAIN assignments[a] = AssignmentFields
                                     /\ assignments[a].id = a
    /\ \A g \in grants : DOMAIN g = GrantFields /\ g.from \in Nat /\ g.until \in Nat

Steps == {"idle", "reading"} \cup Decided

(* A step of one request that puts nothing into force. *)
LEMMA OneSlot ==
    ASSUME AccessInv, NEW s \in Slots, NEW x, slots' = [slots EXCEPT ![s] = x], NothingNew,
           applications \subseteq applications', UNCHANGED workload,
           DOMAIN x = DOMAIN Idle, x.step \in Steps, SlotInv(s)', RowsOK', ChangesAreAudited'
    PROVE  AccessInv'
<1>1. slots'[s] = x /\ \A t \in Slots \ {s} : slots'[t] = slots[t]
  BY DEF AccessInv, AccessTypeOK
<1>2. AccessTypeOK'
  BY <1>1 DEF AccessInv, AccessTypeOK, RowsOK, NothingNew, Steps
<1>3. TimeGoesOn
  BY DEF TimeGoesOn, NothingNew, AccessInv, AccessTypeOK
<1>4. ASSUME NEW t \in Slots \ {s} PROVE SlotInv(t)'
  <2>1. CASE slots[t].step = "idle"
    BY <1>1, <2>1 DEF SlotInv
  <2>2. CASE slots[t].step # "idle"
    <3>1. Carries(t) /\ SlotInv(t)
      BY <1>1 DEF Carries, AccessInv
    <3>2. TablesInv(slots[t])
      BY <2>2, <3>1 DEF SlotInv
    <3>3. TablesInv(slots[t])'
      BY <3>1, <3>2, TablesShrink
    <3>4. /\ slots'[t].step = slots[t].step
          /\ slots[t].step = "insert" => slots[t].request.command.kind = "create"
          /\ slots[t].step = "update" => slots[t].request.command.kind = "revoke"
      BY <1>1, <2>2, <3>1 DEF SlotInv
    <3>5. QED BY <1>3, <2>2, <3>1, <3>3, <3>4, SlotStays
  <2>3. QED BY <2>1, <2>2
<1>5. QED BY <1>2, <1>4 DEF AccessInv

LEMMA RowsStay ==
    ASSUME AccessInv, UNCHANGED <<assignments, grants>>
    PROVE  RowsOK'
BY DEF AccessInv, AccessTypeOK, RowsOK

(* The request ends. *)
LEMMA SlotEnds ==
    ASSUME AccessInv, NEW s \in Slots, End(s), UNCHANGED <<now, assignments, grants, workload>>,
           applications \subseteq applications', trail \subseteq trail', lost \subseteq lost',
           slots[s].step = "audit" =>
             \/ \E e \in trail' : e.event = ChangeOf(s).event /\ e.subject = ChangeOf(s).subject
             \/ <<ChangeOf(s).event, ChangeOf(s).subject>> \in lost'
    PROVE  AccessInv'
<1>1. slots'[s] = Idle /\ \A t \in Slots \ {s} : slots'[t] = slots[t]
  BY DEF End, AccessInv, AccessTypeOK
<1>2. Idle.step = "idle"
  BY DEF Idle
<1>3. SlotInv(s)'
  BY <1>1, <1>2 DEF SlotInv
<1>4. ChangesAreAudited'
  BY <1>1, AuditStays DEF StillRecorded
<1>5. NothingNew /\ RowsOK'
  BY RowsStay DEF NothingNew
<1>6. QED BY <1>2, <1>3, <1>4, <1>5, OneSlot, Zenon DEF End, Steps

(* A decided request goes on, before it changes anything. *)
LEMMA SlotGoes ==
    ASSUME AccessInv, NEW s \in Slots, NEW step \in {"confirm", "run", "insert", "update"},
           Goto(s, step), UNCHANGED <<now, assignments, applications, grants, workload, lost>>,
           trail \subseteq trail', slots[s].step \in Decided \ {"audit"},
           step = "insert" => slots[s].request.command.kind = "create",
           step = "update" => slots[s].request.command.kind = "revoke"
    PROVE  AccessInv'
<1> DEFINE x == [slots[s] EXCEPT !.step = step]
<1>1. slots' = [slots EXCEPT ![s] = x] /\ DOMAIN slots[s] = DOMAIN Idle
  BY DEF Goto, AccessInv, AccessTypeOK
<1>2. /\ DOMAIN x = DOMAIN Idle /\ x.step = step /\ x.request = slots[s].request
      /\ x.at = slots[s].at /\ x.workspace = slots[s].workspace /\ x.rows = slots[s].rows
      /\ x.apps = slots[s].apps /\ x.glass = slots[s].glass /\ x.ground = slots[s].ground
      /\ x.since = slots[s].since
  BY <1>1, StepChanged
<1> HIDE DEF x
<1>3. slots'[s] = x /\ \A t \in Slots \ {s} : slots'[t] = slots[t]
  BY <1>1 DEF AccessInv, AccessTypeOK
<1>4. Carries(s) /\ SlotInv(s) /\ slots[s].step # "idle"
  BY <1>2, <1>3 DEF Carries, AccessInv, Decided, Acting
<1>5. NothingNew /\ RowsOK' /\ TimeGoesOn
  BY RowsStay DEF NothingNew, TimeGoesOn, AccessInv, AccessTypeOK
<1>6. TablesInv(slots[s])'
  BY <1>4, <1>5, TablesShrink DEF SlotInv
<1>7. SlotInv(s)'
  BY <1>2, <1>3, <1>4, <1>5, <1>6, SlotStays DEF Decided
<1>8. ChangesAreAudited'
  BY <1>3, AuditStays DEF StillRecorded
<1>9. QED BY <1>1, <1>2, <1>5, <1>7, <1>8, OneSlot, Zenon DEF Steps, Decided, Acting

(* A step that leaves the requests and puts nothing into force. *)
LEMMA SlotsRest ==
    ASSUME AccessInv, UNCHANGED <<slots, assignments, applications, trail, lost, workload>>,
           NothingNew, RowsOK'
    PROVE  AccessInv'
<1>1. AccessTypeOK'
  BY DEF AccessInv, AccessTypeOK, RowsOK, NothingNew
<1>2. TimeGoesOn
  BY DEF TimeGoesOn, NothingNew, AccessInv, AccessTypeOK
<1>3. ASSUME NEW t \in Slots PROVE SlotInv(t)'
  <2>1. CASE slots[t].step = "idle"
    BY <2>1 DEF SlotInv
  <2>2. CASE slots[t].step # "idle"
    <3>1. Carries(t) /\ SlotInv(t)
      BY DEF Carries, AccessInv
    <3>2. TablesInv(slots[t])
      BY <2>2, <3>1 DEF SlotInv
    <3>3. TablesInv(slots[t])'
      BY <3>1, <3>2, TablesShrink
    <3>4. /\ slots'[t].step = slots[t].step
          /\ slots[t].step = "insert" => slots[t].request.command.kind = "create"
          /\ slots[t].step = "update" => slots[t].request.command.kind = "revoke"
      BY <2>2, <3>1 DEF SlotInv
    <3>5. QED BY <1>2, <2>2, <3>1, <3>3, <3>4, SlotStays
  <2>3. QED BY <2>1, <2>2
<1>4. ChangesAreAudited'
  BY AuditStays DEF StillRecorded
<1>5. QED BY <1>1, <1>3, <1>4 DEF AccessInv

LEMMA AccessInitHolds == AccessInit => AccessInv
<1> SUFFICES ASSUME AccessInit PROVE AccessInv
  OBVIOUS
<1>1. Idle.step = "idle" /\ \A s \in Slots : slots[s] = Idle
  BY Zenon DEF AccessInit, Idle
<1>2. AccessTypeOK
  BY <1>1, AccessConstants DEF AccessInit, AccessTypeOK
<1>3. ChangesAreAudited
  BY AccessConstants DEF AccessInit, ChangesAreAudited
<1>4. QED BY <1>1, <1>2, <1>3 DEF AccessInv, SlotInv

LEMMA ArriveStep ==
    ASSUME AccessInv, NEW s \in Slots, NEW r \in workload.requests, Arrive(s, r)
    PROVE  AccessInv'
<1>1. PICK ws \in WorkspaceOf(r.body, r.header) :
          slots' = [slots EXCEPT ![s] =
              [Idle EXCEPT !.step = "reading", !.n = arrivals + 1, !.request = r,
                           !.at = now, !.workspace = ws, !.pending = Lists,
                           !.since = InForce(r, ws, assignments, grants, now)]]
  BY Zenon DEF Arrive
<1> DEFINE since == InForce(r, ws, assignments, grants, now)
<1> HIDE DEF since
<1> DEFINE x == [Idle EXCEPT !.step = "reading", !.n = arrivals + 1, !.request = r,
                             !.at = now, !.workspace = ws, !.pending = Lists, !.since = since]
<1>2. /\ DOMAIN x = DOMAIN Idle /\ x.step = "reading" /\ x.request = r /\ x.at = now
      /\ x.workspace = ws /\ x.rows = {} /\ x.apps = {} /\ x.glass = {} /\ x.since = since
  BY DEF Idle
<1>3. slots' = [slots EXCEPT ![s] = x]
  BY <1>1 DEF since
<1> HIDE DEF x
<1>4. slots'[s] = x /\ \A t \in Slots \ {s} : slots'[t] = slots[t]
  BY <1>3 DEF AccessInv, AccessTypeOK
<1>5. /\ UNCHANGED <<now, assignments, applications, grants, trail, workload, lost>>
      /\ slots[s].step = "idle" /\ now \in Nat
  BY DEF Arrive, tables, AccessInv, AccessTypeOK
<1>6. TablesInv(slots[s])'
  <2>1. \A g \in grants : JustifiedByGlass(g, r, ws, now) => Ground(g.id, {}) \in since
    BY DEF since, InForce
  <2>2. InForce(r, ws, assignments, grants, now) \subseteq since
    BY DEF since
  <2>3. QED BY <1>2, <1>4, <1>5, <2>1, <2>2 DEF TablesInv
<1>7. ListsInv(slots[s])'
  BY <1>2, <1>4 DEF ListsInv
<1>8. SlotInv(s)'
  BY <1>2, <1>4, <1>5, <1>6, <1>7 DEF SlotInv, Decided, Acting
<1>9. NothingNew /\ RowsOK' /\ ChangesAreAudited'
  BY <1>4, <1>5, RowsStay, AuditStays DEF NothingNew, StillRecorded
<1>10. QED BY <1>2, <1>3, <1>5, <1>8, <1>9, OneSlot, Zenon DEF Steps

(* A list is read: the slot keeps its other fields. *)
LEMMA ReadKeeps ==
    ASSUME AccessInv, NEW s \in Slots, NEW x, slots' = [slots EXCEPT ![s] = x],
           DOMAIN x = DOMAIN Idle, slots[s].step = "reading", x.step = "reading",
           x.request = slots[s].request, x.at = slots[s].at, x.workspace = slots[s].workspace,
           x.since = slots[s].since, ListsInv(x),
           UNCHANGED <<now, assignments, applications, grants, trail, workload, lost>>
    PROVE  AccessInv'
<1>1. slots'[s] = x /\ \A t \in Slots \ {s} : slots'[t] = slots[t]
  BY DEF AccessInv, AccessTypeOK
<1>2. SlotInv(s)
  BY Zenon DEF AccessInv
<1>3. TablesInv(slots[s])'
  BY <1>1, <1>2, Zenon DEF SlotInv, TablesInv
<1>4. ListsInv(slots[s])'
  BY <1>1 DEF ListsInv
<1>5. SlotInv(s)'
  BY <1>1, <1>2, <1>3, <1>4, Zenon DEF SlotInv, Decided, Acting
<1>6. NothingNew /\ RowsOK' /\ ChangesAreAudited'
  BY <1>1, RowsStay, AuditStays DEF NothingNew, StillRecorded
<1>7. QED BY <1>5, <1>6, OneSlot, Zenon DEF Steps

LEMMA ReadAssignmentsStep ==
    ASSUME AccessInv, NEW s \in Slots, ReadAssignments(s)
    PROVE  AccessInv'
<1> DEFINE q == slots[s]
           value == {a \in LiveRows(q.workspace) : a.principal = q.request.actor.id}
           x == [q EXCEPT !.pending = @ \ {"assignments"}, !.rows = value]
<1>1. /\ slots' = [slots EXCEPT ![s] = x] /\ q.step = "reading" /\ DOMAIN q = DOMAIN Idle
      /\ UNCHANGED <<now, assignments, applications, grants, trail, workload, lost>>
  BY Zenon DEF ReadAssignments, Read, tables, AccessInv, AccessTypeOK
<1>2. \A a \in value : \E b \in DOMAIN assignments : a = assignments[b]
  BY DEF LiveRows
<1> HIDE DEF value
<1>3. /\ DOMAIN x = DOMAIN Idle /\ x.step = q.step /\ x.request = q.request /\ x.at = q.at
      /\ x.workspace = q.workspace /\ x.rows = value /\ x.apps = q.apps /\ x.glass = q.glass
      /\ x.since = q.since
  BY <1>1, Zenon DEF Idle
<1> HIDE DEF x
<1>4. ListsInv(q) /\ TablesInv(q)
  BY <1>1 DEF AccessInv, SlotInv
<1>5. ASSUME NEW a \in value, JustifiedByRow(a, q.request, q.workspace)
      PROVE  Ground(a.id, ConfinedTo(a)) \in q.since
  <2>1. PICK b \in DOMAIN assignments : a = assignments[b]
    BY <1>2
  <2>2. a.id = b
    BY <2>1 DEF AccessInv, AccessTypeOK
  <2>3. Ground(a.id, ConfinedTo(a)) \in InForce(q.request, q.workspace, assignments, grants, now)
    BY <1>5, <2>1, <2>2, SMTT(30) DEF InForce
  <2>4. QED BY <1>4, <2>3 DEF TablesInv
<1>6. ListsInv(x)
  BY <1>3, <1>4, <1>5 DEF ListsInv
<1>7. QED BY <1>1, <1>3, <1>6, ReadKeeps, Zenon

LEMMA ReadApplicationsStep ==
    ASSUME AccessInv, NEW s \in Slots, ReadApplications(s)
    PROVE  AccessInv'
<1> DEFINE q == slots[s]
           value == {a \in applications : a.workspace = q.workspace}
           x == [q EXCEPT !.pending = @ \ {"applications"}, !.apps = value]
<1>1. /\ slots' = [slots EXCEPT ![s] = x] /\ q.step = "reading" /\ DOMAIN q = DOMAIN Idle
      /\ UNCHANGED <<now, assignments, applications, grants, trail, workload, lost>>
  BY Zenon DEF ReadApplications, Read, tables, AccessInv, AccessTypeOK
<1>2. /\ DOMAIN x = DOMAIN Idle /\ x.step = q.step /\ x.request = q.request /\ x.at = q.at
      /\ x.workspace = q.workspace /\ x.rows = q.rows /\ x.apps = value /\ x.glass = q.glass
      /\ x.since = q.since
  BY <1>1 DEF Idle
<1> HIDE DEF x
<1>3. ListsInv(q)
  BY <1>1 DEF AccessInv, SlotInv
<1>4. ListsInv(x)
  BY <1>2, <1>3 DEF ListsInv
<1>5. QED BY <1>1, <1>2, <1>4, ReadKeeps, Zenon

LEMMA ReadGrantsStep ==
    ASSUME AccessInv, NEW s \in Slots, ReadGrants(s)
    PROVE  AccessInv'
<1> DEFINE q == slots[s]
           value == {g \in grants : /\ g.workspace = q.workspace
                                    /\ g.principal = q.request.actor.id
                                    /\ ~g.revoked
                                    /\ g.from <= q.at /\ g.until > q.at}
           x == [q EXCEPT !.pending = @ \ {"grants"}, !.glass = value]
<1>1. /\ slots' = [slots EXCEPT ![s] = x] /\ q.step = "reading" /\ DOMAIN q = DOMAIN Idle
      /\ UNCHANGED <<now, assignments, applications, grants, trail, workload, lost>>
  BY Zenon DEF ReadGrants, Read, tables, AccessInv, AccessTypeOK
<1>2. value \subseteq grants
  OBVIOUS
<1> HIDE DEF value
<1>3. /\ DOMAIN x = DOMAIN Idle /\ x.step = q.step /\ x.request = q.request /\ x.at = q.at
      /\ x.workspace = q.workspace /\ x.rows = q.rows /\ x.apps = q.apps /\ x.glass = value
      /\ x.since = q.since
  BY <1>1 DEF Idle
<1> HIDE DEF x
<1>4. ListsInv(q) /\ TablesInv(q)
  BY <1>1 DEF AccessInv, SlotInv
<1>5. ListsInv(x)
  BY <1>2, <1>3, <1>4 DEF ListsInv, TablesInv
<1>6. QED BY <1>1, <1>3, <1>5, ReadKeeps, Zenon

LEMMA ApplicationReplaced ==
    ASSUME NEW ws, NEW dataset, NEW before, NEW after
    PROVE  [[workspace |-> ws, dataset |-> dataset, application |-> before]
                EXCEPT !.application = after]
           = [workspace |-> ws, dataset |-> dataset, application |-> after]
OBVIOUS

(* The decision on a request, and what a positive one rests on. *)
DecisionOn(q) ==
    GatewayAllows(q.request.actor, q.request.route.action, ScopeOf(q.request, q.workspace),
                  q.request.route.apps, q.rows, q.apps, q.glass, q.at)

RegisteredIn(q, apps) == {x \in apps : IsRegistered(x, q.request, q.workspace)}

RestsOn(q, g) ==
    LET r == q.request
        ws == q.workspace
    IN  /\ \/ \E a \in q.rows : /\ a.id = g /\ JustifiedByRow(a, r, ws)
                                /\ ConfinedTo(a) \subseteq {x.id : x \in RegisteredIn(q, q.apps)}
           \/ \E role \in r.actor.roles \cap Roles :
                /\ ws \in r.actor.workspaces /\ r.route.action \in RoleCapabilities[role]
                /\ g = <<"identity-claim", role>>
           \/ \E b \in q.glass : b.id = g /\ JustifiedByGlass(b, r, ws, q.at)
        /\ r.actor.type = "application" =>
             \E x \in RegisteredIn(q, q.apps) : r.route.action \in x.capabilities

LEMMA DecisionRests ==
    ASSUME NEW q, DecisionOn(q).allowed, NEW g \in DecisionOn(q).grounds
    PROVE  RestsOn(q, g)
<1> DEFINE r == q.request
           ws == q.workspace
           rows == q.rows
           apps == q.apps
           glass == q.glass
           at == q.at
           d == DecisionOn(q)
           p == r.actor
           action == r.route.action
           scope == ScopeOf(r, ws)
           self == {x.id : x \in {y \in apps : IsRegistered(y, r, ws)}}
           after == IF p.type = "application" THEN self ELSE {}
           own == [workspace |-> ws, dataset |-> DatasetFor(r), application |-> after]
           registered == RegisteredApplication(p, own, apps)
           roles == {a \in rows \cup ClaimedRoleAssignments(p, own) :
                       AssignmentMatches(a, p, own) /\ action \in CapabilitiesForRole(a.role)}
           broken == ActiveBreakGlass(p, action, own, glass, at)
<1>1. RegisteredApplication(p, scope, apps) = {y \in apps : IsRegistered(y, r, ws)}
  BY DEF RegisteredApplication, IsRegistered, ScopeOf
<1>2. registered = {y \in apps : IsRegistered(y, r, ws)}
  BY DEF RegisteredApplication, IsRegistered
<1>3. d = EvaluatePolicy(p, action, own, rows, apps, glass, at)
  <2>1. own = [scope EXCEPT !.application = after]
    <3> HIDE DEF after
    <3>1. QED BY ApplicationReplaced DEF ScopeOf
  <2>2. self = {a.id : a \in RegisteredApplication(p, scope, apps)}
    BY <1>1
  <2> HIDE DEF own, scope, self
  <2>3. d = GatewayAllows(p, action, scope, r.route.apps, rows, apps, glass, at) /\ d.allowed
    BY Zenon DEF scope, DecisionOn
  <2>4. QED BY <2>1, <2>2, <2>3 DEF GatewayAllows, Denied
<1> HIDE DEF own
<1>4. /\ p.type = "application" => \E x \in registered : action \in x.capabilities
      /\ g \in d.grounds /\ d.allowed
      /\ g \in {a.id : a \in roles} \/ g \in {b.id : b \in broken}
  <2> HIDE DEF p, action
  <2>1. QED BY <1>3 DEF EvaluatePolicy, Denied
<1>5. own.workspace = ws /\ own.dataset = DatasetFor(r)
      /\ own.application = IF p.type = "application" THEN self ELSE {}
  BY DEF own
<1>6. CASE g \in {a.id : a \in roles}
  <2>1. PICK a \in roles : a.id = g
    BY <1>6
  <2>2. /\ AssignmentMatches(a, p, own) /\ a.role \in Roles
        /\ action \in RoleCapabilities[a.role]
    BY <2>1, Zenon DEF CapabilitiesForRole
  <2>3. CASE a \in rows
    <3>1. JustifiedByRow(a, r, ws)
      BY <1>5, <2>2 DEF AssignmentMatches, JustifiedByRow, Covers
    <3>2. ConfinedTo(a) \subseteq self
      BY <1>5, <2>2, Zenon DEF AssignmentMatches, ConfinedTo
    <3>3. QED BY <1>2, <1>4, <2>1, <2>3, <3>1, <3>2, SMTT(30) DEF RestsOn, RegisteredIn
  <2>4. CASE a \in ClaimedRoleAssignments(p, own)
    <3>1. /\ ws \in p.workspaces
          /\ \E role \in p.roles : a.role = role /\ a.id = <<"identity-claim", role>>
      BY <1>5, <2>4, SMTT(30) DEF ClaimedRoleAssignments
    <3>2. QED BY <1>2, <1>4, <2>1, <2>2, <3>1, Zenon DEF RestsOn, RegisteredIn
  <2>5. QED BY <2>1, <2>3, <2>4
<1>7. CASE g \in {b.id : b \in broken}
  <2>1. PICK b \in broken : b.id = g
    BY <1>7
  <2>2. b \in glass /\ JustifiedByGlass(b, r, ws, at)
    BY <1>5, <2>1 DEF ActiveBreakGlass, JustifiedByGlass
  <2>3. QED BY <1>2, <1>4, <2>1, <2>2 DEF RestsOn, RegisteredIn
<1>8. QED BY <1>4, <1>6, <1>7

LEMMA DecideStep ==
    ASSUME AccessInv, NEW s \in Slots, Decide(s)
    PROVE  AccessInv'
<1> DEFINE q == slots[s]
           r == q.request
           d == DecisionOn(q)
<1>1. /\ q.step = "reading" /\ DOMAIN q = DOMAIN Idle /\ SlotInv(s)
      /\ UNCHANGED <<now, assignments, applications, grants, trail, workload, lost>>
  BY Zenon DEF Decide, tables, AccessInv, AccessTypeOK
<1>2. CASE ~d.allowed
  BY <1>1, <1>2, SlotEnds, Zenon DEF Decide, DecisionOn
<1>3. CASE d.allowed
  <2>1. PICK g \in d.grounds :
            slots' = [slots EXCEPT ![s].source = d.source, ![s].ground = g,
                ![s].step = IF d.source = "break_glass" THEN "use" ELSE "confirm"]
    BY <1>3, Zenon DEF Decide, DecisionOn
  <2>2. RestsOn(q, g)
    BY <1>3, DecisionRests
  <2> DEFINE step == IF d.source = "break_glass" THEN "use" ELSE "confirm"
             source == d.source
  <2>3. step \in {"use", "confirm"}
    OBVIOUS
  <2>4. slots' = [slots EXCEPT ![s].source = source, ![s].ground = g, ![s].step = step]
    BY <2>1
  <2> HIDE DEF d, step, source
  <2> DEFINE x == [q EXCEPT !.source = source, !.ground = g, !.step = step]
  <2>5. /\ DOMAIN x = DOMAIN Idle /\ x.step = step /\ x.ground = g /\ x.request = r
        /\ x.at = q.at /\ x.workspace = q.workspace /\ x.rows = q.rows /\ x.apps = q.apps
        /\ x.glass = q.glass /\ x.since = q.since
    BY <1>1 DEF Idle
  <2>6. slots' = [slots EXCEPT ![s] = x]
    BY <2>4, Zenon
  <2> HIDE DEF x
  <2>7. slots'[s] = x /\ \A t \in Slots \ {s} : slots'[t] = slots[t]
    BY <2>6 DEF AccessInv, AccessTypeOK
  <2>8. ListsInv(q) /\ TablesInv(q) /\ r \in workload.requests /\ q.at \in Nat /\ q.at <= now
    BY <1>1 DEF SlotInv
  <2> DEFINE known == {y.id : y \in RegisteredIn(q, applications)}
  <2>9. RegisteredIn(q, q.apps) \subseteq RegisteredIn(q, applications)
    BY <2>8, Zenon DEF ListsInv, RegisteredIn
  <2>10. \E f \in q.since : f.id = g /\ f.of \subseteq known
    <3>1. ASSUME NEW a \in q.rows, a.id = g, JustifiedByRow(a, r, q.workspace),
                 ConfinedTo(a) \subseteq {y.id : y \in RegisteredIn(q, q.apps)}
          PROVE  \E f \in q.since : f.id = g /\ f.of \subseteq known
      <4>1. Ground(a.id, ConfinedTo(a)) \in q.since
        BY <2>8, <3>1 DEF ListsInv
      <4>2. ConfinedTo(a) \subseteq known
        BY <2>9, <3>1, Zenon
      <4>3. QED BY <3>1, <4>1, <4>2 DEF Ground
    <3>2. ASSUME NEW role \in r.actor.roles \cap Roles, q.workspace \in r.actor.workspaces,
                 r.route.action \in RoleCapabilities[role], g = <<"identity-claim", role>>
          PROVE  \E f \in q.since : f.id = g /\ f.of \subseteq known
      <4>1. Ground(<<"identity-claim", role>>, {}) \in
                InForce(r, q.workspace, assignments, grants, now)
        BY <3>2, Zenon DEF InForce
      <4>2. Ground(g, {}) \in q.since
        BY <2>8, <3>2, <4>1, Zenon DEF TablesInv
      <4>3. QED BY <4>2 DEF Ground
    <3>3. ASSUME NEW b \in q.glass, b.id = g, JustifiedByGlass(b, r, q.workspace, q.at)
          PROVE  \E f \in q.since : f.id = g /\ f.of \subseteq known
      <4>1. Ground(g, {}) \in q.since
        BY <2>8, <3>3, Zenon DEF ListsInv
      <4>2. QED BY <4>1 DEF Ground
    <3>4. QED BY <2>2, <3>1, <3>2, <3>3, Zenon DEF RestsOn
  <2>11. Grounded(s)'
    <3>1. r.actor.type = "application" =>
              \E y \in RegisteredIn(q, applications) : r.route.action \in y.capabilities
      BY <2>2, <2>9 DEF RestsOn
    <3>2. QED BY <1>1, <2>5, <2>7, <2>10, <3>1, SMTT(30) DEF Grounded, RegisteredIn, IsRegistered
  <2>12. ListsInv(slots[s])' /\ TablesInv(slots[s])'
    BY <1>1, <2>5, <2>7, <2>8, Zenon DEF ListsInv, TablesInv
  <2>13. SlotInv(s)'
    BY <1>1, <2>3, <2>5, <2>7, <2>8, <2>11, <2>12, Zenon DEF SlotInv
  <2>14. NothingNew /\ RowsOK' /\ ChangesAreAudited'
    BY <1>1, <2>7, RowsStay, AuditStays, Zenon DEF NothingNew, StillRecorded
  <2>15. QED BY <1>1, <2>3, <2>5, <2>6, <2>13, <2>14, OneSlot, Zenon DEF Steps, Decided
<1>4. QED BY <1>2, <1>3

(* A step that changes what is in force, which every open request sees. *)
Resembles(x, q) ==
    /\ DOMAIN x = DOMAIN Idle /\ x.request = q.request /\ x.at = q.at
    /\ x.workspace = q.workspace /\ x.rows = q.rows /\ x.apps = q.apps
    /\ x.glass = q.glass /\ x.ground = q.ground /\ x.since = q.since

Advances(x, q) ==
    /\ x.step \in Steps
    /\ x.step = "idle" <=> q.step = "idle"
    /\ x.step \in Decided => q.step \in Decided
    /\ x.step \in {"insert", "update"} => x.step = q.step
    /\ q.step = "audit" => x.step = "audit"

Learns(x, q) ==
    /\ DOMAIN x = DOMAIN Idle /\ x.request = q.request /\ x.at = q.at
    /\ x.workspace = q.workspace /\ x.rows = q.rows /\ x.apps = q.apps
    /\ x.glass = q.glass /\ x.ground = q.ground /\ q.since \subseteq x.since

LEMMA ObservedSlot ==
    ASSUME NEW sl, NEW rows, NEW glass, NEW time, NEW s \in Slots, NEW q, Resembles(sl[s], q)
    PROVE  /\ Learns(Observed(sl, rows, glass, time)[s], q)
           /\ Observed(sl, rows, glass, time)[s].step = sl[s].step
           /\ sl[s].step # "idle" => InForce(q.request, q.workspace, rows, glass, time)
                                       \subseteq Observed(sl, rows, glass, time)[s].since
<1> DEFINE x == Observed(sl, rows, glass, time)[s]
           seen == q.since \cup InForce(q.request, q.workspace, rows, glass, time)
<1>1. CASE sl[s].step = "idle"
  <2>1. x = sl[s]
    BY <1>1, Zenon DEF Observed
  <2>2. QED BY <1>1, <2>1 DEF Resembles, Learns
<1>2. CASE sl[s].step # "idle"
  <2>1. x = [sl[s] EXCEPT !.since = seen]
    BY <1>2 DEF Observed, Resembles
  <2>2. q.since \subseteq seen
        /\ InForce(q.request, q.workspace, rows, glass, time) \subseteq seen
    OBVIOUS
  <2> HIDE DEF seen, x
  <2>3. /\ DOMAIN x = DOMAIN Idle /\ x.since = seen /\ x.request = sl[s].request
        /\ x.at = sl[s].at /\ x.workspace = sl[s].workspace /\ x.rows = sl[s].rows
        /\ x.apps = sl[s].apps /\ x.glass = sl[s].glass /\ x.ground = sl[s].ground
        /\ x.step = sl[s].step
    BY <2>1, SinceChanged DEF Resembles
  <2>4. Learns(x, q) /\ x.step = sl[s].step
        /\ InForce(q.request, q.workspace, rows, glass, time) \subseteq x.since
    BY <2>2, <2>3, Zenon DEF Resembles, Learns
  <2>5. QED BY <2>4 DEF x
<1>3. QED BY <1>1, <1>2, SMTT(30)

LEMMA SlotObserves ==
    ASSUME NEW sl, slots' = Observed(sl, assignments', grants', now'), NEW s \in Slots,
           Resembles(sl[s], slots[s])
    PROVE  /\ Learns(slots'[s], slots[s]) /\ slots'[s].step = sl[s].step
           /\ sl[s].step # "idle" => InForce(slots[s].request, slots[s].workspace,
                                       assignments', grants', now') \subseteq slots'[s].since
BY ObservedSlot

LEMMA AllObserve ==
    ASSUME AccessInv, NEW sl, slots' = Observed(sl, assignments', grants', now'), TimeGoesOn,
           \A s \in Slots : Resembles(sl[s], slots[s]) /\ Advances(sl[s], slots[s]),
           \A s \in Slots, g \in grants' : g \in grants
               \/ (slots[s].step # "idle"
                   /\ JustifiedByGlass(g, slots[s].request, slots[s].workspace, slots[s].at)
                   => JustifiedByGlass(g, slots[s].request, slots[s].workspace, now')),
           RowsOK', ChangesAreAudited'
    PROVE  AccessInv'
<1>1. ASSUME NEW s \in Slots
      PROVE  /\ Carries(s) /\ slots'[s].step = sl[s].step /\ DOMAIN slots'[s] = DOMAIN Idle
             /\ sl[s].step # "idle" => InForce(slots[s].request, slots[s].workspace,
                                         assignments', grants', now') \subseteq slots'[s].since
  <2>1. /\ Learns(slots'[s], slots[s]) /\ slots'[s].step = sl[s].step
        /\ sl[s].step # "idle" => InForce(slots[s].request, slots[s].workspace,
                                    assignments', grants', now') \subseteq slots'[s].since
    BY <1>1, SlotObserves, Zenon
  <2>2. QED BY <2>1, Zenon DEF Carries, Learns
<1>2. AccessTypeOK'
  BY <1>1 DEF AccessInv, AccessTypeOK, RowsOK, TimeGoesOn, Steps, Advances, Observed
<1>3. ASSUME NEW s \in Slots PROVE SlotInv(s)'
  <2>1. CASE slots[s].step = "idle"
    BY <1>1, <2>1, Zenon DEF SlotInv, Advances
  <2>2. CASE slots[s].step # "idle"
    <3> DEFINE q == slots[s]
               r == q.request
               ws == q.workspace
    <3>1. Carries(s) /\ SlotInv(s) /\ sl[s].step # "idle" /\ slots'[s].step = sl[s].step
          /\ InForce(r, ws, assignments', grants', now') \subseteq slots'[s].since
      BY <1>1, <2>2, Zenon DEF AccessInv, Advances
    <3>2. ASSUME NEW g \in grants', JustifiedByGlass(g, r, ws, q.at)
          PROVE  Ground(g.id, {}) \in slots'[s].since
      <4>1. CASE g \in grants
        BY <2>2, <3>1, <3>2, <4>1, Zenon DEF SlotInv, TablesInv, Carries
      <4>2. CASE JustifiedByGlass(g, r, ws, now')
        <5>1. Ground(g.id, {}) \in InForce(r, ws, assignments', grants', now')
          BY <3>2, <4>2, Zenon DEF InForce
        <5>2. QED BY <3>1, <5>1, Zenon
      <4>3. QED BY <2>2, <3>2, <4>1, <4>2
    <3>3. TablesInv(slots[s])'
      <4>1. slots'[s].request = r /\ slots'[s].workspace = ws /\ slots'[s].at = q.at
        BY <3>1, SMTT(30) DEF Carries
      <4>2. InForce(slots'[s].request, slots'[s].workspace, assignments', grants', now')
                \subseteq slots'[s].since
        BY <3>1, <4>1, Zenon
      <4>3. \A g \in grants' :
                JustifiedByGlass(g, slots'[s].request, slots'[s].workspace, slots'[s].at)
                => Ground(g.id, {}) \in slots'[s].since
        BY <3>2, <4>1
      <4>4. QED BY <4>2, <4>3, Zenon DEF TablesInv
    <3>4. /\ slots'[s].step \in Decided => slots[s].step \in Decided
          /\ slots'[s].step = "insert" => slots[s].request.command.kind = "create"
          /\ slots'[s].step = "update" => slots[s].request.command.kind = "revoke"
      BY <2>2, <3>1, Zenon DEF Advances, SlotInv
    <3>5. QED BY <2>2, <3>1, <3>3, <3>4, SlotStays, Zenon
  <2>3. QED BY <2>1, <2>2, Zenon
<1>4. QED BY <1>2, <1>3, Zenon DEF AccessInv

LEMMA SlotsResemble ==
    ASSUME AccessInv, NEW s \in Slots
    PROVE  Resembles(slots[s], slots[s]) /\ Advances(slots[s], slots[s])
BY SMTT(30) DEF AccessInv, AccessTypeOK, Resembles, Advances, Steps

LEMMA ObservedRecords ==
    ASSUME AccessInv, NEW sl, slots' = Observed(sl, assignments', grants', now'),
           \A s \in Slots : Resembles(sl[s], slots[s]) /\ Advances(sl[s], slots[s]),
           trail \subseteq trail', lost \subseteq lost'
    PROVE  StillRecorded
<1>1. ASSUME NEW s \in Slots
      PROVE  slots'[s].step = sl[s].step /\ slots'[s].request = slots[s].request
             /\ slots'[s].workspace = slots[s].workspace
  <2>1. Learns(slots'[s], slots[s]) /\ slots'[s].step = sl[s].step
    BY <1>1, SlotObserves, Zenon
  <2>2. QED BY <2>1 DEF Learns
<1>2. QED BY <1>1, Zenon DEF StillRecorded, Advances

LEMMA RecordUseStep ==
    ASSUME AccessInv, NEW s \in Slots, RecordUse(s)
    PROVE  AccessInv'
<1>1. slots[s].step \in Decided \ {"audit"}
  BY DEF RecordUse, Decided
<1>2. /\ UNCHANGED <<now, assignments, applications, grants, workload, lost>>
      /\ trail \subseteq trail' /\ Goto(s, "confirm")
  BY DEF RecordUse
<1>3. QED BY <1>1, <1>2, SlotGoes

LEMMA ConfirmStep ==
    ASSUME AccessInv, NEW s \in Slots, Confirm(s)
    PROVE  AccessInv'
<1>1. slots[s].step = "confirm"
      /\ UNCHANGED <<now, assignments, applications, grants, trail, workload, lost>>
  BY DEF Confirm, tables
<1>2. CASE End(s)
  BY <1>1, <1>2, SlotEnds, Zenon
<1>3. CASE Goto(s, "run")
  BY <1>1, <1>3, SlotGoes DEF Decided
<1>4. QED BY <1>2, <1>3 DEF Confirm

LEMMA LookUpStep ==
    ASSUME AccessInv, NEW s \in Slots, LookUp(s)
    PROVE  AccessInv'
<1>1. /\ slots[s].step = "run" /\ slots[s].request.command.kind = "create"
      /\ UNCHANGED <<now, assignments, applications, grants, trail, workload, lost>>
  BY DEF LookUp, tables, Running
<1>2. CASE End(s)
  BY <1>1, <1>2, SlotEnds, Zenon
<1>3. CASE Goto(s, "insert")
  BY <1>1, <1>3, SlotGoes, Zenon DEF Decided, Acting
<1>4. QED BY <1>2, <1>3 DEF LookUp

LEMMA FetchStep ==
    ASSUME AccessInv, NEW s \in Slots, Fetch(s)
    PROVE  AccessInv'
<1>1. /\ slots[s].step = "run" /\ slots[s].request.command.kind = "revoke"
      /\ UNCHANGED <<now, assignments, applications, grants, trail, workload, lost>>
  BY DEF Fetch, tables, Running
<1>2. CASE End(s)
  BY <1>1, <1>2, SlotEnds, Zenon
<1>3. CASE Goto(s, "update")
  BY <1>1, <1>3, SlotGoes DEF Decided, Acting
<1>4. QED BY <1>2, <1>3, Zenon DEF Fetch

LEMMA RecordChangeStep ==
    ASSUME AccessInv, NEW s \in Slots, RecordChange(s)
    PROVE  AccessInv'
<1>1. /\ UNCHANGED <<now, assignments, applications, grants, workload, lost>> /\ End(s)
      /\ trail \subseteq trail' /\ ChangeOf(s) \in trail'
  BY DEF RecordChange
<1>2. QED BY <1>1, SlotEnds, Zenon

LEMMA RegisterStep ==
    ASSUME AccessInv, NEW s \in Slots, Register(s)
    PROVE  AccessInv'
<1>1. /\ UNCHANGED <<now, assignments, grants, trail, workload, lost>> /\ End(s)
      /\ applications \subseteq applications' /\ slots[s].step = "run"
  BY DEF Register, Running
<1>2. QED BY <1>1, SlotEnds, Zenon

LEMMA AnswerStep ==
    ASSUME AccessInv, NEW s \in Slots, Answer(s)
    PROVE  AccessInv'
<1>1. /\ UNCHANGED <<now, assignments, applications, grants, trail, workload, lost>> /\ End(s)
      /\ slots[s].step = "run"
  BY Zenon DEF Answer, Running, tables
<1>2. QED BY <1>1, SlotEnds, Zenon

LEMMA FailStep ==
    ASSUME AccessInv, NEW s \in Slots, Fail(s)
    PROVE  AccessInv'
<1>1. /\ UNCHANGED <<now, assignments, applications, grants, trail, workload>> /\ End(s)
      /\ lost \subseteq lost'
      /\ slots[s].step = "audit" => <<ChangeOf(s).event, ChangeOf(s).subject>> \in lost'
  BY DEF Fail, tables
<1>2. QED BY <1>1, SlotEnds

LEMMA RevokeBreakGlassStep ==
    ASSUME AccessInv, NEW g \in grants, RevokeBreakGlass(g)
    PROVE  AccessInv'
<1> DEFINE h == [g EXCEPT !.revoked = TRUE]
<1>1. DOMAIN g = GrantFields /\ g.from \in Nat /\ g.until \in Nat
  BY DEF AccessInv, AccessTypeOK
<1>2. DOMAIN h = GrantFields /\ h.from = g.from /\ h.until = g.until /\ h.revoked
  BY <1>1 DEF GrantFields
<1>3. grants' \subseteq grants \cup {h}
  BY DEF RevokeBreakGlass
<1> HIDE DEF h
<1>4. UNCHANGED <<now, slots, assignments, applications, trail, lost, workload>>
  BY DEF RevokeBreakGlass
<1>5. NothingNew
  BY <1>2, <1>3, <1>4 DEF NothingNew
<1>6. RowsOK'
  BY <1>1, <1>2, <1>3, <1>4, SMTT(30) DEF RowsOK, AccessInv, AccessTypeOK
<1>7. QED BY <1>4, <1>5, <1>6, SlotsRest

LEMMA GrantBreakGlassStep ==
    ASSUME AccessInv, NEW g \in workload.glass, GrantBreakGlass(g)
    PROVE  AccessInv'
<1> DEFINE h == [g EXCEPT !.from = now, !.until = now + g.until]
<1>1. DOMAIN g = GrantFields /\ g.until \in Nat /\ now \in Nat /\ g.until > 0
  BY AccessConstants DEF AccessInv, AccessTypeOK, GrantBreakGlass
<1>2. DOMAIN h = GrantFields /\ h.from = now /\ h.until = now + g.until
  BY <1>1 DEF GrantFields
<1>3. grants' = grants \cup {h} /\ slots' = Observed(slots, assignments', grants', now')
      /\ UNCHANGED <<now, assignments, applications, trail, workload, lost>>
  BY DEF GrantBreakGlass
<1> HIDE DEF h
<1>4. TimeGoesOn
  BY <1>1, <1>3, SMTT(30) DEF TimeGoesOn
<1>5. RowsOK'
  BY <1>1, <1>2, <1>3 DEF RowsOK, AccessInv, AccessTypeOK
<1>6. StillRecorded
  BY <1>3, SlotsResemble, ObservedRecords
<1>7. ChangesAreAudited'
  BY <1>3, <1>6, AuditStays, Zenon
<1>8. ASSUME NEW s \in Slots, slots[s].step # "idle",
             JustifiedByGlass(h, slots[s].request, slots[s].workspace, slots[s].at)
      PROVE  JustifiedByGlass(h, slots[s].request, slots[s].workspace, now')
  <2>1. h.from <= now /\ now < h.until /\ now' = now
    BY <1>1, <1>2, <1>3
  <2>2. QED BY <1>8, <2>1 DEF JustifiedByGlass
<1>9. QED BY <1>3, <1>4, <1>5, <1>7, <1>8, SlotsResemble, AllObserve

LEMMA AccessTickStep ==
    ASSUME AccessInv, AccessTick
    PROVE  AccessInv'
<1>1. now \in Nat /\ now' = now + 1 /\ slots' = Observed(slots, assignments', grants', now')
      /\ UNCHANGED <<assignments, applications, grants, trail, workload, lost>>
  BY DEF AccessTick, tables, AccessInv, AccessTypeOK
<1>2. TimeGoesOn
  BY <1>1 DEF TimeGoesOn
<1>3. RowsOK'
  BY <1>1, RowsStay
<1>4. StillRecorded
  BY <1>1, SlotsResemble, ObservedRecords
<1>5. ChangesAreAudited'
  BY <1>1, <1>4, AuditStays
<1>6. QED BY <1>1, <1>2, <1>3, <1>5, SlotsResemble, AllObserve, Zenon

LEMMA UpdateStep ==
    ASSUME AccessInv, NEW s \in Slots, Update(s)
    PROVE  AccessInv'
<1>0. PICK key : key = slots[s].request.command.key
  OBVIOUS
<1> DEFINE q == slots[s]
           x == [q EXCEPT !.step = "audit"]
<1>1. /\ q.step = "update" /\ DOMAIN q = DOMAIN Idle /\ SlotInv(s)
      /\ slots' = [slots EXCEPT ![s] = x]
      /\ assignments' = [assignments EXCEPT ![key].revoked = TRUE]
      /\ UNCHANGED <<now, applications, grants, trail, workload, lost>>
  BY <1>0 DEF Update, Goto, AccessInv, AccessTypeOK
<1>2. /\ DOMAIN x = DOMAIN Idle /\ x.step = "audit" /\ x.request = q.request
      /\ x.at = q.at /\ x.workspace = q.workspace /\ x.rows = q.rows
      /\ x.apps = q.apps /\ x.glass = q.glass /\ x.ground = q.ground
      /\ x.since = q.since
  BY <1>1, StepChanged
<1> HIDE DEF x
<1>3. slots'[s] = x /\ \A t \in Slots \ {s} : slots'[t] = slots[t]
  BY <1>1 DEF AccessInv, AccessTypeOK
<1>4. /\ DOMAIN assignments' = DOMAIN assignments
      /\ \A a \in DOMAIN assignments \ {key} : assignments'[a] = assignments[a]
      /\ key \in DOMAIN assignments =>
           assignments'[key] = [assignments[key] EXCEPT !.revoked = TRUE]
  BY <1>1, Zenon
<1>5. ASSUME key \in DOMAIN assignments
      PROVE  /\ DOMAIN assignments'[key] = AssignmentFields
             /\ assignments'[key].id = key /\ assignments'[key].revoked
  BY <1>4, <1>5 DEF AccessInv, AccessTypeOK, AssignmentFields
<1>6. NothingNew
  BY <1>1, <1>4, <1>5 DEF NothingNew
<1>7. RowsOK'
  BY <1>1, <1>4, <1>5 DEF RowsOK, AccessInv, AccessTypeOK
<1>8. Carries(s) /\ q.step # "idle" /\ q.step \in Decided /\ TimeGoesOn
  BY <1>1, <1>2, <1>3 DEF Carries, Decided, Acting, TimeGoesOn, AccessInv, AccessTypeOK
<1>9. TablesInv(slots[s])'
  BY <1>1, <1>6, <1>8, TablesShrink DEF SlotInv
<1>10. SlotInv(s)'
  BY <1>1, <1>2, <1>3, <1>8, <1>9, SlotStays
<1>11. StillRecorded
  BY <1>1, <1>3 DEF StillRecorded
<1>12. Recorded("policy_assignment.revoked", key)'
  <2>1. slots'[s].request.command.kind = "revoke" /\ slots'[s].request.command.key = key
        /\ slots'[s].step = "audit"
    BY <1>0, <1>1, <1>2, <1>3, Zenon DEF SlotInv
  <2>2. /\ ChangeOf(s)'.event = "policy_assignment.revoked"
        /\ ChangeOf(s)'.subject = key
    BY <2>1 DEF ChangeOf, ChangeEvent
  <2>3. QED BY <2>1, <2>2, Zenon DEF Recorded
<1>13. ChangesAreAudited'
  <2>1. ASSUME NEW id \in DOMAIN assignments, id \notin DOMAIN FirstRows
        PROVE  Recorded("policy_assignment.created", id)'
    BY <1>11, <2>1, RecordedStays DEF AccessInv, ChangesAreAudited
  <2>2. ASSUME NEW id \in DOMAIN assignments, id # key, assignments'[id].revoked
        PROVE  Recorded("policy_assignment.revoked", id)'
    BY <1>4, <1>11, <2>2, RecordedStays DEF AccessInv, ChangesAreAudited
  <2>3. QED BY <1>4, <1>12, <2>1, <2>2 DEF ChangesAreAudited
<1>14. QED BY <1>1, <1>2, <1>6, <1>7, <1>10, <1>13, OneSlot, Zenon DEF Steps, Decided, Acting

LEMMA NewRowFields ==
    ASSUME AccessInv, NEW s \in Slots, slots[s].step = "insert"
    PROVE  /\ DOMAIN NewRow(s) = AssignmentFields /\ NewRow(s).id = AssignmentId(s)
           /\ ~NewRow(s).revoked /\ slots[s].request.command.kind = "create"
<1> DEFINE row == slots[s].request.command.row
<1>1. /\ slots[s].request \in workload.requests /\ workload \in Workloads
      /\ slots[s].request.command.kind = "create"
  BY DEF AccessInv, AccessTypeOK, SlotInv
<1>2. DOMAIN row = AssignmentFields /\ ~row.revoked
  BY <1>1, AccessConstants
<1>3. NewRow(s) = [row EXCEPT !.id = AssignmentId(s), !.workspace = Told(s)]
  BY DEF NewRow
<1> HIDE DEF row
<1>4. QED BY <1>1, <1>2, <1>3, Zenon DEF AssignmentFields

LEMMA InsertStep ==
    ASSUME AccessInv, NEW s \in Slots, Insert(s)
    PROVE  AccessInv'
<1>0. PICK id : id = AssignmentId(s)
  OBVIOUS
<1> DEFINE q == slots[s]
           x == [q EXCEPT !.step = "audit"]
           sl == [slots EXCEPT ![s] = x]
<1>1. /\ q.step = "insert" /\ DOMAIN q = DOMAIN Idle
      /\ UNCHANGED <<now, applications, grants, trail, workload, lost>>
  BY DEF Insert, AccessInv, AccessTypeOK
<1>2. CASE id \in DOMAIN assignments
  <2>1. End(s) /\ UNCHANGED assignments
    BY <1>0, <1>2 DEF Insert
  <2>2. QED BY <1>1, <2>1, SlotEnds, Zenon
<1>3. CASE id \notin DOMAIN assignments
  <2>1. /\ assignments' = [a \in DOMAIN assignments \cup {id} |->
                             IF a = id THEN NewRow(s) ELSE assignments[a]]
        /\ slots' = Observed(sl, assignments', grants', now')
    BY <1>0, <1>1, <1>3 DEF Insert
  <2>2. /\ DOMAIN assignments' = DOMAIN assignments \cup {id} /\ assignments'[id] = NewRow(s)
        /\ \A a \in DOMAIN assignments : assignments'[a] = assignments[a]
    BY <1>3, <2>1
  <2>3. /\ DOMAIN x = DOMAIN Idle /\ x.step = "audit" /\ x.request = q.request
        /\ x.at = q.at /\ x.workspace = q.workspace /\ x.rows = q.rows
        /\ x.apps = q.apps /\ x.glass = q.glass /\ x.ground = q.ground
        /\ x.since = q.since
    BY <1>1, StepChanged
  <2> HIDE DEF x
  <2>4. sl[s] = x /\ \A t \in Slots \ {s} : sl[t] = slots[t]
    BY DEF AccessInv, AccessTypeOK
  <2> HIDE DEF sl
  <2>5. \A t \in Slots : Resembles(sl[t], slots[t]) /\ Advances(sl[t], slots[t])
    <3>1. Resembles(sl[s], slots[s]) /\ Advances(sl[s], slots[s])
      BY <1>1, <2>3, <2>4, Zenon DEF Resembles, Advances, Steps, Decided, Acting
    <3>2. QED BY <2>4, <3>1, SlotsResemble
  <2>6. TimeGoesOn
    BY <1>1, SMTT(30) DEF TimeGoesOn, AccessInv, AccessTypeOK
  <2>7. RowsOK'
    <3>1. DOMAIN NewRow(s) = AssignmentFields /\ NewRow(s).id = id
      BY <1>0, <1>1, NewRowFields
    <3>2. RowsOK /\ grants' = grants
      BY <1>1, Zenon DEF RowsOK, AccessInv, AccessTypeOK
    <3>3. QED BY <2>2, <3>1, <3>2 DEF RowsOK
  <2>8. StillRecorded
    BY <1>1, <2>1, <2>5, ObservedRecords, Zenon
  <2>9. Recorded("policy_assignment.created", id)'
    <3>1. /\ slots'[s].step = "audit" /\ slots'[s].request = q.request
          /\ slots'[s].workspace = q.workspace
      <4>1. Learns(slots'[s], slots[s]) /\ slots'[s].step = sl[s].step
        <5>1. Resembles(sl[s], slots[s])
          BY <2>5, Zenon
        <5>2. QED BY <2>1, <5>1, SlotObserves, Zenon
      <4>2. QED BY <2>3, <2>4, <4>1, SMTT(30) DEF Learns
    <3>2. AssignmentId(s)' = id
      BY <1>0, <3>1 DEF AssignmentId, Told
    <3>3. slots'[s].request.command.kind = "create"
      BY <1>1, <3>1, NewRowFields, Zenon
    <3>4. /\ ChangeOf(s)'.event = "policy_assignment.created" /\ ChangeOf(s)'.subject = id
      BY <3>2, <3>3 DEF ChangeOf, ChangeEvent
    <3>5. QED BY <3>1, <3>4, Zenon DEF Recorded
  <2>10. ChangesAreAudited'
    <3>1. ASSUME NEW a \in DOMAIN assignments
          PROVE  /\ a \notin DOMAIN FirstRows => Recorded("policy_assignment.created", a)'
                 /\ assignments'[a].revoked => Recorded("policy_assignment.revoked", a)'
      BY <2>2, <2>8, <3>1, RecordedStays, Zenon DEF AccessInv, ChangesAreAudited
    <3>2. ~assignments'[id].revoked
      BY <1>1, <2>2, NewRowFields, SMTT(30)
    <3>3. QED BY <2>2, <2>9, <3>1, <3>2, Zenon DEF ChangesAreAudited
  <2>11. QED BY <1>1, <2>1, <2>5, <2>6, <2>7, <2>10, AllObserve, Zenon
<1>4. QED BY <1>2, <1>3

LEMMA AccessNextKeeps == AccessInv /\ [AccessNext]_accessVars => AccessInv'
<1> SUFFICES ASSUME AccessInv, [AccessNext]_accessVars PROVE AccessInv'
  OBVIOUS
<1>1. ASSUME NEW s \in Slots, NEW r \in workload.requests, Arrive(s, r) \/ Refuse(s, r)
      PROVE  AccessInv'
  <2>1. CASE Arrive(s, r)
    BY <2>1, ArriveStep
  <2>2. CASE Refuse(s, r)
    <3>1. UNCHANGED <<now, slots, assignments, applications, grants, trail, lost, workload>>
      BY <2>2 DEF Refuse, tables
    <3>2. QED BY <3>1, RowsStay, SlotsRest DEF NothingNew
  <2>3. QED BY <1>1, <2>1, <2>2, Zenon
<1>2. ASSUME NEW s \in Slots,
             \/ ReadAssignments(s) \/ ReadApplications(s) \/ ReadGrants(s)
             \/ Decide(s) \/ RecordUse(s) \/ Confirm(s) \/ Fail(s)
      PROVE  AccessInv'
  BY <1>2, ReadAssignmentsStep, ReadApplicationsStep, ReadGrantsStep, DecideStep,
     RecordUseStep, ConfirmStep, FailStep
<1>3. ASSUME NEW s \in Slots, Command(s)
      PROVE  AccessInv'
  BY <1>3, LookUpStep, InsertStep, FetchStep, UpdateStep, RecordChangeStep, RegisterStep,
     AnswerStep DEF Command
<1>4. ASSUME NEW g \in workload.glass, GrantBreakGlass(g) PROVE AccessInv'
  BY <1>4, GrantBreakGlassStep
<1>5. ASSUME NEW g \in grants, RevokeBreakGlass(g) PROVE AccessInv'
  BY <1>5, RevokeBreakGlassStep
<1>6. CASE AccessTick
  BY <1>6, AccessTickStep
<1>7. CASE UNCHANGED accessVars
  <2>1. UNCHANGED <<now, slots, assignments, applications, grants, trail, lost, workload>>
    BY <1>7 DEF accessVars
  <2>2. QED BY <2>1, RowsStay, SlotsRest DEF NothingNew
<1>8. QED BY <1>1, <1>2, <1>3, <1>4, <1>5, <1>6, <1>7 DEF AccessNext

(***************************************************************************)
(* A command runs only on grounds that were in force at some instant since *)
(* its request arrived, whatever assignments, registrations and            *)
(* break-glass grants come and go while secured() reads the three lists.   *)
(***************************************************************************)
THEOREM CommandsHaveGrounds == AccessSpec => []GrantedOnlyWithGrounds
<1>1. AccessInv => GrantedOnlyWithGrounds
  BY DEF AccessInv, SlotInv, GrantedOnlyWithGrounds, Decided, Acting
<1>2. QED BY <1>1, AccessInitHolds, AccessNextKeeps, PTL DEF AccessSpec

(***************************************************************************)
(* Every assignment created or revoked is in the audit trail or about to   *)
(* be, unless its request failed between the row and the event.            *)
(***************************************************************************)
THEOREM AssignmentChangesAreAudited == AccessSpec => []ChangesAreAudited
<1>1. AccessInv => ChangesAreAudited
  BY DEF AccessInv
<1>2. QED BY <1>1, AccessInitHolds, AccessNextKeeps, PTL DEF AccessSpec
=============================================================================
