-------------------------- MODULE ResourceHistory --------------------------
(***************************************************************************)
(* The revision history of a resource: ResourceHistoryService              *)
(* (packages/operations) over PostgresHistoryRepository                    *)
(* (packages/persistence-postgres).                                        *)
(*                                                                         *)
(* A request is one call of createRevision, deleteResource or              *)
(* restoreResource, which is one PostgreSQL transaction at READ COMMITTED. *)
(* Every query is a step: a read sees what is committed, a write waits for *)
(* the transaction that holds the row, the unique key or the advisory lock *)
(* it needs.  What a transaction wrote is visible to others when it        *)
(* commits; until then the step it is at tells what it holds.              *)
(*                                                                         *)
(* One resource is modelled: requests for different resources share only   *)
(* the workspace's advisory lock, which AuditChain models.                 *)
(***************************************************************************)
EXTENDS Integers, Sequences, FiniteSets, NoValue

CONSTANTS
    MaxRequests,\* bound on the calls of the service
    MaxAborts   \* bound on transactions that end by an error or a crash

VARIABLES
    resource,   \* the resources row: current_revision_id and status
    revisions,  \* the revisions rows of the resource, by id
    tombstones, \* the tombstones rows of the resource, by id
    trail,      \* its audit_events (and outbox_events), in commit order
    requests,   \* the local state of every request
    aborts      \* transactions ended by an error or a crash

tableVars == <<resource, revisions, tombstones, trail>>
historyVars == <<tableVars, requests, aborts>>

(* Requests are numbered as they arrive; the number is also the id of what *)
(* the request inserts.                                                    *)
Requests == 1..MaxRequests

Kinds == {"create", "delete", "restore"}
RevisionIds == Requests \cup {None}

Resource == [head: RevisionIds, status: {"active", "deleted_logically"}]

(* payload names the request whose payload the revision holds: a restored  *)
(* revision holds the payload of the one it restores.                      *)
Revision == [number: Nat \ {0}, parent: RevisionIds, payload: Requests,
             restoredFrom: RevisionIds]

(* window is recover_until: absent, ahead or past.                         *)
Tombstone == [prior: RevisionIds, open: BOOLEAN,
              window: {"none", "ahead", "past"}]

Event == [action: {"revision.created", "resource.deleted_logically"},
          id: Requests]

(* The steps of a transaction, each the query it is about to run; a        *)
(* request ends committed, with HistoryConflictError, refused by a unique  *)
(* constraint, with another error of the service, or aborted.              *)
Running == {"read", "tombstone", "reread", "insert", "head", "audit",
            "outbox", "close", "commit"}
Ended == {"done", "conflict", "refused", "unrecoverable", "aborted"}

Request == [pc: Running \cup Ended \cup {"idle"}, kind: Kinds \cup {None},
            expected: RevisionIds, tombstone: RevisionIds]

NewRequest == [pc |-> "idle", kind |-> None, expected |-> None,
               tombstone |-> None]

HistoryTypeOK ==
    /\ resource \in Resource
    /\ revisions \in [Requests -> Revision \cup {None}]
    /\ tombstones \in [Requests -> Tombstone \cup {None}]
    /\ trail \in Seq(Event)
    /\ requests \in [Requests -> Request]
    /\ aborts \in 0..MaxAborts

(* What the proofs need of the constants.                                  *)
HistoryConstants ==
    /\ MaxRequests \in Nat
    /\ MaxAborts \in Nat
    /\ None \notin Requests \cup Revision \cup Tombstone

HistoryInit ==
    /\ resource = [head |-> None, status |-> "active"]
    /\ revisions = [q \in Requests |-> None]
    /\ tombstones = [q \in Requests |-> None]
    /\ trail = <<>>
    /\ requests = [q \in Requests |-> NewRequest]
    /\ aborts = 0

----------------------------------------------------------------------------
At(q, pc) == requests[q].pc = pc
Goto(q, pc) == requests' = [requests EXCEPT ![q].pc = pc]
Revises(q) == requests[q].kind \in {"create", "restore"}

(* What the open transactions hold.                                        *)
HasInserted(q) == requests[q].pc \in {"head", "audit", "outbox", "close", "commit"}
HoldsRow(q) == requests[q].pc \in {"audit", "outbox", "close", "commit"}
HoldsAuditLock(q) == requests[q].pc \in {"outbox", "close", "commit"}
HasClosed(q, t) == /\ requests[q].kind = "restore"
                   /\ requests[q].pc = "commit"
                   /\ requests[q].tombstone = t

Inserted == {q \in Requests : revisions[q] # None}
Open == {t \in Requests : tombstones[t] # None /\ tombstones[t].open}
NumberOf(id) == IF id = None THEN 0 ELSE revisions[id].number

(* A call arrives.  The client expects a head the resource has or had;     *)
(* restoreResource takes no expected revision.                             *)
Start(q) ==
    /\ At(q, "idle")
    /\ \A p \in 1..(q - 1) : ~At(p, "idle")
    /\ \E kind \in Kinds, expected \in Inserted \cup {None} :
         /\ kind = "restore" => expected = None
         /\ requests' = [requests EXCEPT ![q] =
              [pc |-> "read", kind |-> kind, expected |-> expected,
               tombstone |-> None]]
    /\ UNCHANGED <<tableVars, aborts>>

(* getResource: the head must be the expected one.                         *)
ReadHead(q) ==
    /\ IF resource.head = requests[q].expected THEN Goto(q, "insert")
                                               ELSE Goto(q, "conflict")
    /\ UNCHANGED <<tableVars, aborts>>

ReadResource(q) ==
    /\ At(q, "read")
    /\ requests[q].kind # "restore"
    /\ ReadHead(q)

(* restoreResource takes the head it reads as the expected one ...         *)
ReadForRestore(q) ==
    /\ At(q, "read")
    /\ requests[q].kind = "restore"
    /\ requests' = [requests EXCEPT ![q].pc = "tombstone",
                                    ![q].expected = resource.head]
    /\ UNCHANGED <<tableVars, aborts>>

(* ... then reads the open tombstone, which must name a prior revision and *)
(* be within its window ...                                                *)
Recoverable(t) == tombstones[t].prior # None /\ tombstones[t].window # "past"

GetOpenTombstone(q) ==
    /\ At(q, "tombstone")
    /\ \/ \E t \in Open :
            /\ Recoverable(t)
            /\ requests' = [requests EXCEPT ![q].pc = "reread",
                                            ![q].tombstone = t]
       \/ /\ \A t \in Open : ~Recoverable(t)
          /\ Goto(q, "unrecoverable")
    /\ UNCHANGED <<tableVars, aborts>>

(* ... and calls createRevisionWithin, which reads the resource again.     *)
ReadAgain(q) == At(q, "reread") /\ ReadHead(q)

----------------------------------------------------------------------------
(* appendRevision: (resource_id, revision_number) is unique.  The insert   *)
(* waits for an open transaction with the same key and is refused when the *)
(* key is committed.                                                       *)
NextNumber(q) == NumberOf(requests[q].expected) + 1

AppendRevision(q) ==
    /\ At(q, "insert")
    /\ Revises(q)
    /\ \A p \in Requests \ {q} :
         Revises(p) /\ HasInserted(p) => NextNumber(p) # NextNumber(q)
    /\ IF \E v \in Inserted : revisions[v].number = NextNumber(q)
       THEN Goto(q, "refused")
       ELSE Goto(q, "head")
    /\ UNCHANGED <<tableVars, aborts>>

(* addTombstone: one_open_resource_tombstone allows one open tombstone.    *)
(* The insert waits for an open transaction that adds one, or closes the   *)
(* one there is.                                                           *)
AddTombstone(q) ==
    /\ At(q, "insert")
    /\ requests[q].kind = "delete"
    /\ \A p \in Requests \ {q} : /\ ~(requests[p].kind = "delete" /\ HasInserted(p))
                                 /\ \A t \in Open : ~HasClosed(p, t)
    /\ IF Open # {} THEN Goto(q, "refused") ELSE Goto(q, "head")
    /\ UNCHANGED <<tableVars, aborts>>

(* Mutant: the row is updated whatever its head is.                        *)
SetHeadUnchecked(q) ==
    /\ At(q, "head")
    /\ \A p \in Requests \ {q} : ~HoldsRow(p)
    /\ Goto(q, "audit")
    /\ UNCHANGED <<tableVars, aborts>>

(* setResourceHead waits for the row and compares the head again.          *)
SetResourceHead(q) ==
    /\ At(q, "head")
    /\ \A p \in Requests \ {q} : ~HoldsRow(p)
    /\ IF resource.head = requests[q].expected THEN Goto(q, "audit")
                                               ELSE Goto(q, "conflict")
    /\ UNCHANGED <<tableVars, aborts>>

(* Mutant: the lock is shared with the inserts.                            *)
AuditAfterInserts(q) ==
    /\ At(q, "audit")
    /\ \A p \in Requests \ {q} : ~HasInserted(p)
    /\ Goto(q, "outbox")
    /\ UNCHANGED <<tableVars, aborts>>

(* appendAudit waits for the workspace's advisory lock.                    *)
AppendAudit(q) ==
    /\ At(q, "audit")
    /\ \A p \in Requests \ {q} : ~HoldsAuditLock(p)
    /\ Goto(q, "outbox")
    /\ UNCHANGED <<tableVars, aborts>>

EnqueueOutbox(q) ==
    /\ At(q, "outbox")
    /\ Goto(q, IF requests[q].kind = "restore" THEN "close" ELSE "commit")
    /\ UNCHANGED <<tableVars, aborts>>

(* closeTombstone waits for the tombstone's row.                           *)
CloseTombstone(q) ==
    /\ At(q, "close")
    /\ \A p \in Requests \ {q} : ~HasClosed(p, requests[q].tombstone)
    /\ Goto(q, "commit")
    /\ UNCHANGED <<tableVars, aborts>>

----------------------------------------------------------------------------
(* Mutant: a restored revision is linked to the one it restores.           *)
LinkToRestored(q) ==
    LET prior == tombstones[requests[q].tombstone].prior
        parent == IF requests[q].kind = "restore" THEN prior
                                                  ELSE requests[q].expected
    IN  [number |-> NextNumber(q), parent |-> parent, payload |-> q,
         restoredFrom |-> IF requests[q].kind = "restore" THEN prior ELSE None]

(* The commit makes the writes of a request visible.                       *)
NewRevision(q) ==
    LET restored == IF requests[q].kind = "restore"
                    THEN tombstones[requests[q].tombstone].prior
                    ELSE None
    IN  [number |-> NextNumber(q), parent |-> requests[q].expected,
         payload |-> IF restored = None THEN q ELSE revisions[restored].payload,
         restoredFrom |-> restored]

CommitRevision(q) ==
    /\ At(q, "commit")
    /\ Revises(q)
    /\ revisions' = [revisions EXCEPT ![q] = NewRevision(q)]
    /\ resource' = [head |-> q, status |-> "active"]
    /\ tombstones' = IF requests[q].kind = "restore"
                     THEN [tombstones EXCEPT ![requests[q].tombstone].open = FALSE]
                     ELSE tombstones
    /\ trail' = Append(trail, [action |-> "revision.created", id |-> q])
    /\ Goto(q, "done")
    /\ UNCHANGED aborts

CommitDelete(q) ==
    /\ At(q, "commit")
    /\ requests[q].kind = "delete"
    /\ \E window \in {"none", "ahead"} :
         tombstones' = [tombstones EXCEPT ![q] =
             [prior |-> requests[q].expected, open |-> TRUE, window |-> window]]
    /\ resource' = [resource EXCEPT !.status = "deleted_logically"]
    /\ trail' = Append(trail, [action |-> "resource.deleted_logically", id |-> q])
    /\ Goto(q, "done")
    /\ UNCHANGED <<revisions, aborts>>

(* The recovery window of a tombstone ends.                                *)
WindowEnds(t) ==
    /\ tombstones[t] # None
    /\ tombstones[t].window = "ahead"
    /\ tombstones' = [tombstones EXCEPT ![t].window = "past"]
    /\ UNCHANGED <<resource, revisions, trail, requests, aborts>>

(* A failing query, a lost connection or a crash rolls the request back.   *)
Abort(q) ==
    /\ requests[q].pc \in Running
    /\ aborts < MaxAborts
    /\ aborts' = aborts + 1
    /\ Goto(q, "aborted")
    /\ UNCHANGED tableVars

RequestStep(q) ==
    \/ ReadResource(q) \/ ReadForRestore(q) \/ GetOpenTombstone(q)
    \/ ReadAgain(q) \/ AppendRevision(q) \/ AddTombstone(q)
    \/ SetResourceHead(q) \/ AppendAudit(q) \/ EnqueueOutbox(q)
    \/ CloseTombstone(q) \/ CommitRevision(q) \/ CommitDelete(q)

HistoryNext ==
    \/ \E q \in Requests : Start(q) \/ RequestStep(q) \/ Abort(q)
    \/ \E t \in Requests : WindowEnds(t)

HistorySpec == HistoryInit /\ [][HistoryNext]_historyVars

(* The database answers every query it can answer.                         *)
HistoryFairSpec == HistorySpec /\ \A q \in Requests : WF_historyVars(RequestStep(q))

----------------------------------------------------------------------------
(* However requests interleave, the revisions are one line without gaps or *)
(* branches from revision 1 to the head: the check of the expected head,   *)
(* the unique revision number and the compare-and-set of setResourceHead   *)
(* together let one of two competing revisions through.                    *)
HistoryIsLinear ==
    /\ NumberOf(resource.head) = Cardinality(Inserted)
    /\ \A v \in Inserted :
         /\ NumberOf(revisions[v].parent) = revisions[v].number - 1
         /\ \A w \in Inserted : revisions[v].number = revisions[w].number => v = w

(* Replaying the audit trail gives the resource's row: the trail is        *)
(* written in the order of the changes although its lock is another one    *)
(* than the row's, and no change is missing from it.                       *)
LastAction == trail[Len(trail)]
TrailExplainsResource ==
    IF trail = <<>>
    THEN resource = [head |-> None, status |-> "active"]
    ELSE IF LastAction.action = "revision.created"
         THEN resource = [head |-> LastAction.id, status |-> "active"]
         ELSE /\ resource.status = "deleted_logically"
              /\ tombstones[LastAction.id].prior = resource.head

(* A deleted resource has exactly one open tombstone, which names the      *)
(* revision to restore; no resource ever has two.                          *)
DeletedIsRecorded ==
    /\ \A t, u \in Open : t = u
    /\ resource.status = "deleted_logically" =>
         \E t \in Open : tombstones[t].prior = resource.head

(* What is recorded of a resource explains its row.                        *)
RecordsExplainResource == TrailExplainsResource /\ DeletedIsRecorded

(* A resource with an open tombstone is logically deleted.  The            *)
(* verification service reports anything else as an error, and the code    *)
(* does not keep it: createRevision does not look at the status of the     *)
(* resource, and setResourceHead makes a deleted one active again while    *)
(* its tombstone stays open.                                               *)
OpenTombstoneMeansDeleted == Open # {} => resource.status = "deleted_logically"

(* Row, key and advisory locks are never waited for in a circle: every     *)
(* request that started ends.                                              *)
RequestsEnd ==
    \A q \in Requests : At(q, "read") ~> requests[q].pc \in Ended

=============================================================================
