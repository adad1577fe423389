-------------------------- MODULE ApplicationTenants --------------------------
(***************************************************************************)
(* The tenants of an application: created, renamed, suspended and closed   *)
(* through API processes that each keep the tenants in memory              *)
(* (AppStorageRegistry) and save them to application_tenants.              *)
(*                                                                         *)
(* A command changes the object in memory, then saves that object: it asks *)
(* whether a row of its id exists, and creates or updates it in a second   *)
(* transaction.  The object is shared: a later command of the process      *)
(* changes the very object an earlier one is still saving, until a         *)
(* hydration replaces it.  An update must name the updatedAt it starts     *)
(* from, compared in memory and again in the UPDATE; times are those of a  *)
(* clock that need not advance between two commands.                       *)
(***************************************************************************)
EXTENDS Naturals, FiniteSets, Functions, TLC

CONSTANTS Procs, Calls, Keys, MaxTenants, MaxCommands, MaxNow, MaxFaults

VARIABLES
    rows,       \* application_tenants: id -> [key, status, at, changes]
    mem,        \* the tenants in the memory of each process, likewise
    hydrated,   \* the processes whose workspace is flagged as read
    calls, created, commands, now, faults,
    acked,      \* changes answered with success: <<id, number>>
    doubtful    \* ids excepted below, with the reason

vars == <<rows, mem, hydrated, calls, created, commands, now, faults, acked, doubtful>>

Empty == [x \in {} |-> {}]

Idle == [step |-> "idle", proc |-> {}, op |-> "", id |-> 0, key |-> "", number |-> 0,
         expected |-> 0, read |-> {}, held |-> {}, exists |-> FALSE]

Init ==
    /\ rows = Empty
    /\ mem = [p \in Procs |-> Empty]
    /\ hydrated = {}
    /\ calls = [c \in Calls |-> Idle]
    /\ created = 0 /\ commands = 0 /\ now = 0 /\ faults = 0
    /\ acked = {}
    /\ doubtful = {}

Goto(c, changes) == calls' = [calls EXCEPT ![c] = changes @@ @]

End(c) == calls' = [calls EXCEPT ![c] = Idle]

(* A command names a tenant and the updatedAt its client last saw. *)
Begin(c, p) ==
    /\ calls[c].step = "idle"
    /\ commands < MaxCommands
    /\ commands' = commands + 1
    /\ \E op \in {"create", "rename", "suspended", "closed"}, id \in 1..created \cup {0},
          key \in Keys, t \in 0..now :
          /\ op = "create" <=> id = 0
          /\ op = "create" => t = 0
          /\ op # "create" => key = CHOOSE k \in Keys : TRUE
          /\ calls' = [calls EXCEPT ![c] =
                [Idle EXCEPT !.step = IF p \in hydrated THEN "change" ELSE "read",
                             !.proc = {p}, !.op = op, !.id = id, !.key = key,
                             !.number = commands + 1, !.expected = t]]
    /\ UNCHANGED <<rows, mem, hydrated, created, now, faults, acked, doubtful>>

ReadRows(c) ==
    /\ calls[c].step = "read"
    /\ Goto(c, [step |-> "apply", read |-> {rows}])
    /\ UNCHANGED <<rows, mem, hydrated, created, commands, now, faults, acked, doubtful>>

(* The object a call is saving: the one in memory, or the one it kept when *)
(* a hydration put another in its place.                                   *)
Object(c, p) ==
    IF calls[c].held # {} THEN CHOOSE t \in calls[c].held : TRUE ELSE mem[p][calls[c].id]

Saving(d, p) == calls[d].proc = {p} /\ calls[d].step \in {"look", "write"}

ApplyRead(c) ==
    /\ calls[c].step = "apply"
    /\ \E p \in calls[c].proc, read \in calls[c].read :
          /\ mem' = [mem EXCEPT ![p] = read @@ @]
          /\ hydrated' = hydrated \cup {p}
          /\ calls' = [d \in Calls |->
                IF d = c THEN [calls[c] EXCEPT !.step = "change", !.read = {}]
                ELSE IF Saving(d, p) /\ calls[d].id \in DOMAIN read
                THEN [calls[d] EXCEPT !.held = {Object(d, p)}]
                ELSE calls[d]]
    /\ UNCHANGED <<rows, created, commands, now, faults, acked, doubtful>>

(* createTenant: a tenant of that key in memory is the answer, and is saved again. *)
Create(c) ==
    /\ calls[c].step = "change" /\ calls[c].op = "create"
    /\ \E p \in calls[c].proc :
          LET same == {id \in DOMAIN mem[p] : mem[p][id].key = calls[c].key}
          IN  IF same # {}
              THEN /\ \E id \in same :
                        /\ Goto(c, [step |-> "look", id |-> id])
                        /\ doubtful' = doubtful \cup {<<"recreated", id>>}
                   /\ UNCHANGED <<mem, created>>
              ELSE /\ created < MaxTenants
                   /\ created' = created + 1
                   /\ mem' = [mem EXCEPT ![p] = @ @@ ((created + 1) :>
                          [key |-> calls[c].key, status |-> "active", at |-> now,
                           changes |-> {}])]
                   /\ Goto(c, [step |-> "look", id |-> created + 1])
                   /\ UNCHANGED doubtful
    /\ UNCHANGED <<rows, hydrated, commands, now, faults, acked>>

(* Another call of the process is saving the object that this one changes. *)
Shared(c, p) ==
    {<<"shared", calls[c].id>> : d \in
        {d \in Calls \ {c} : Saving(d, p) /\ calls[d].id = calls[c].id /\ calls[d].held = {}}}

(* The UPDATE cannot tell two versions of the same time apart. *)
Tied(id, t) == IF t.at = now THEN {<<"tied", id>>} ELSE {}

\* Mutant: the expected time is not compared in memory.
ChangeUnchecked(c) ==
    /\ calls[c].step = "change" /\ calls[c].op # "create"
    /\ \E p \in calls[c].proc :
          LET id == calls[c].id
          IN  IF id \notin DOMAIN mem[p]
              THEN End(c) /\ UNCHANGED <<mem, doubtful>>
              ELSE /\ mem' = [mem EXCEPT ![p][id] =
                          [@ EXCEPT !.at = now, !.changes = @ \cup {calls[c].number},
                                    !.status = IF calls[c].op = "rename" THEN @ ELSE calls[c].op]]
                   /\ doubtful' = doubtful \cup Shared(c, p) \cup Tied(id, mem[p][id])
                   /\ Goto(c, [step |-> "look"])
    /\ UNCHANGED <<rows, hydrated, created, commands, now, faults, acked>>

(* updateTenant and setTenantStatus. *)
Change(c) ==
    /\ calls[c].step = "change" /\ calls[c].op # "create"
    /\ \E p \in calls[c].proc :
          LET id == calls[c].id
          IN  IF id \notin DOMAIN mem[p] \/ mem[p][id].at # calls[c].expected
              THEN End(c) /\ UNCHANGED <<mem, doubtful>>
              ELSE /\ mem' = [mem EXCEPT ![p][id] =
                          [@ EXCEPT !.at = now, !.changes = @ \cup {calls[c].number},
                                    !.status = IF calls[c].op = "rename" THEN @ ELSE calls[c].op]]
                   /\ doubtful' = doubtful \cup Shared(c, p) \cup Tied(id, mem[p][id])
                   /\ Goto(c, [step |-> "look"])
    /\ UNCHANGED <<rows, hydrated, created, commands, now, faults, acked>>

(* persistTenant: does the row exist? *)
Look(c) ==
    /\ calls[c].step = "look"
    /\ Goto(c, [step |-> "write", exists |-> calls[c].id \in DOMAIN rows,
                expected |-> IF calls[c].op = "create" /\ calls[c].id \in DOMAIN rows
                             THEN rows[calls[c].id].at ELSE calls[c].expected])
    /\ UNCHANGED <<rows, mem, hydrated, created, commands, now, faults, acked, doubtful>>

(* A saved change is acknowledged and the flag of the process dropped. *)
Acknowledge(c, p) ==
    /\ hydrated' = hydrated \ {p}
    /\ acked' = IF calls[c].op = "create" THEN acked
                ELSE acked \cup {<<calls[c].id, calls[c].number>>}
    /\ End(c)

(* A row of the same key, under whichever id, makes the creation a silent no-op. *)
WriteNew(c) ==
    /\ calls[c].step = "write" /\ ~calls[c].exists
    /\ \E p \in calls[c].proc :
          LET t == Object(c, p)
          IN  /\ IF \E id \in DOMAIN rows : rows[id].key = t.key
                 THEN /\ doubtful' = doubtful \cup {<<"unsaved", calls[c].id>>}
                      /\ UNCHANGED rows
                 ELSE /\ rows' = rows @@ (calls[c].id :> t)
                      /\ UNCHANGED doubtful
              /\ Acknowledge(c, p)
    /\ UNCHANGED <<mem, created, commands, now, faults>>

(* The UPDATE, or a conflict. *)
WriteOver(c) ==
    /\ calls[c].step = "write" /\ calls[c].exists
    /\ \E p \in calls[c].proc :
          IF rows[calls[c].id].at = calls[c].expected
          THEN /\ rows' = [rows EXCEPT ![calls[c].id] = Object(c, p)]
               /\ Acknowledge(c, p)
          ELSE End(c) /\ UNCHANGED <<rows, hydrated, acked>>
    /\ UNCHANGED <<mem, created, commands, now, faults, doubtful>>

Fail(c) ==
    /\ calls[c].step \in {"read", "look", "write"}
    /\ faults < MaxFaults
    /\ faults' = faults + 1
    /\ End(c)
    /\ UNCHANGED <<rows, mem, hydrated, created, commands, now, acked, doubtful>>

Tick ==
    /\ now < MaxNow
    /\ now' = now + 1
    /\ UNCHANGED <<rows, mem, hydrated, calls, created, commands, faults, acked, doubtful>>

Next ==
    \/ \E c \in Calls :
          \/ \E p \in Procs : Begin(c, p)
          \/ ReadRows(c) \/ ApplyRead(c)
          \/ Create(c) \/ Change(c) \/ Look(c) \/ WriteNew(c) \/ WriteOver(c)
          \/ Fail(c)
    \/ Tick

Spec == Init /\ [][Next]_vars

(***************************************************************************)
(* A change of a tenant that was acknowledged is in its row, and no later  *)
(* command takes it out again.  The four ways the code loses one are       *)
(* named: the tenant was created by two processes and only one was saved   *)
(* (repo.createTenant answers with the other's row), a repeated creation   *)
(* saved an old memory over whatever the row then was, two versions carry  *)
(* the same time, or two commands of one process overlapped on the object. *)
(***************************************************************************)
AcknowledgedTenantChangeIsKept ==
    \A a \in acked :
        \/ \E why \in {"unsaved", "recreated", "tied", "shared"} : <<why, a[1]>> \in doubtful
        \/ a[1] \in DOMAIN rows /\ a[2] \in rows[a[1]].changes
=============================================================================
