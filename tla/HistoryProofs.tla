--------------------------- MODULE HistoryProofs ---------------------------
(***************************************************************************)
(* Proofs about ResourceHistory, for any number of requests and aborts:    *)
(* the revisions of a resource are one line, and its row is what its audit *)
(* trail and its tombstones say.                                           *)
(*                                                                         *)
(* Both rest on two locks.  A request that has passed setResourceHead      *)
(* holds the row of the resource until it ends, so the head it compared is *)
(* still the head when it commits; and a deletion that has passed          *)
(* addTombstone holds the place of the one open tombstone.                 *)
(***************************************************************************)
EXTENDS ResourceHistory, FiniteSetTheorems, TLAPS

(* The ids of revisions a row may name.                                    *)
Known == Inserted \cup {None}

Deletes(q) == requests[q].kind = "delete" /\ HasInserted(q)

(* From reread on, a restore has found the tombstone it will close.        *)
HasTombstone(q) ==
    /\ requests[q].kind = "restore"
    /\ requests[q].pc \in {"reread", "insert", "head", "audit", "outbox", "close", "commit"}

(* What a request relies on at each of its steps.                          *)
Unwritten(q) == requests[q].pc # "done" => revisions[q] = None /\ tombstones[q] = None

OwnsRow(q) ==
    HoldsRow(q) => /\ resource.head = requests[q].expected
                   /\ \A p \in Requests : HoldsRow(p) => p = q

OwnsTombstone(q) ==
    Deletes(q) => Open = {} /\ \A p \in Requests : Deletes(p) => p = q

FoundTombstone(q) ==
    HasTombstone(q) => /\ requests[q].tombstone \in Requests
                       /\ tombstones[requests[q].tombstone] # None
                       /\ tombstones[requests[q].tombstone].prior \in Inserted

RequestInv ==
    \A q \in Requests :
        /\ requests[q].expected \in Known
        /\ Unwritten(q) /\ OwnsRow(q) /\ OwnsTombstone(q) /\ FoundTombstone(q)

(* What the rows name exists, and no revision is newer than the head.      *)
RowsInv ==
    /\ resource.head \in Known
    /\ \A t \in Requests : tombstones[t] # None => tombstones[t].prior \in Known
    /\ \A v \in Inserted : /\ revisions[v].parent \in Known
                           /\ revisions[v].number <= NumberOf(resource.head)

IInv ==
    /\ HistoryTypeOK /\ RequestInv /\ RowsInv
    /\ HistoryIsLinear /\ TrailExplainsResource /\ DeletedIsRecorded

-----------------------------------------------------------------------------
(* What stays true of the tables stays true of the properties that only    *)
(* look at the tables.                                                     *)
LEMMA SameTables ==
    ASSUME UNCHANGED tableVars
    PROVE  /\ Inserted' = Inserted /\ Known' = Known /\ Open' = Open
           /\ RowsInv => RowsInv'
           /\ HistoryIsLinear => HistoryIsLinear'
           /\ TrailExplainsResource => TrailExplainsResource'
           /\ DeletedIsRecorded => DeletedIsRecorded'
<1> USE DEF tableVars
<1>1. Inserted' = Inserted /\ Known' = Known /\ Open' = Open
  BY DEF Inserted, Known, Open
<1>2. \A id : NumberOf(id)' = NumberOf(id)
  BY DEF NumberOf
<1>3. RowsInv => RowsInv'
  BY <1>1, <1>2 DEF RowsInv
<1>4. HistoryIsLinear => HistoryIsLinear'
  BY <1>1, <1>2 DEF HistoryIsLinear
<1>5. TrailExplainsResource => TrailExplainsResource'
  BY DEF TrailExplainsResource, LastAction
<1>6. DeletedIsRecorded => DeletedIsRecorded'
  BY <1>1 DEF DeletedIsRecorded
<1>7. QED BY <1>1, <1>3, <1>4, <1>5, <1>6

(* A step that only moves one request keeps the invariant when the request *)
(* has what it relies on where it goes.                                    *)
LEMMA Move ==
    ASSUME IInv, NEW q \in Requests, NEW r \in Request,
           requests' = [requests EXCEPT ![q] = r],
           UNCHANGED tableVars, aborts' \in 0..MaxAborts,
           r.expected \in Known,
           Unwritten(q)', OwnsRow(q)', OwnsTombstone(q)', FoundTombstone(q)'
    PROVE  IInv'
<1>1. HistoryTypeOK'
  BY DEF IInv, HistoryTypeOK, tableVars
<1>2. requests'[q] = r /\ \A p \in Requests \ {q} : requests'[p] = requests[p]
  BY DEF IInv, HistoryTypeOK
<1>3. /\ RowsInv' /\ HistoryIsLinear' /\ TrailExplainsResource' /\ DeletedIsRecorded'
      /\ Known' = Known /\ Inserted' = Inserted /\ Open' = Open
  BY SameTables DEF IInv
<1>4. ASSUME NEW p \in Requests, p # q
      PROVE  /\ requests'[p].expected \in Known'
             /\ Unwritten(p)' /\ OwnsRow(p)' /\ OwnsTombstone(p)' /\ FoundTombstone(p)'
  <2>1. requests'[p] = requests[p]
    BY <1>2, <1>4
  <2>2. /\ requests[p].expected \in Known
        /\ Unwritten(p) /\ OwnsRow(p) /\ OwnsTombstone(p) /\ FoundTombstone(p)
    BY DEF IInv, RequestInv
  <2>3. requests'[p].expected \in Known' /\ Unwritten(p)'
    BY <1>3, <2>1, <2>2 DEF Unwritten, tableVars
  <2>4. OwnsRow(p)'
    BY <1>2, <1>4, <2>1, <2>2 DEF OwnsRow, HoldsRow, tableVars
  <2>5. OwnsTombstone(p)'
    BY <1>2, <1>3, <1>4, <2>1, <2>2 DEF OwnsTombstone, Deletes, HasInserted
  <2>6. FoundTombstone(p)'
    BY <1>3, <2>1, <2>2 DEF FoundTombstone, HasTombstone, tableVars
  <2>7. QED BY <2>3, <2>4, <2>5, <2>6
<1>5. RequestInv'
  BY <1>2, <1>3, <1>4 DEF RequestInv
<1>6. QED BY <1>1, <1>3, <1>5 DEF IInv

(* The same for a step that changes the program counter alone.             *)
LEMMA MovePc ==
    ASSUME IInv, NEW q \in Requests, NEW pc \in Running \cup Ended, Goto(q, pc),
           UNCHANGED tableVars, aborts' \in 0..MaxAborts, requests[q].pc # "done",
           OwnsRow(q)', OwnsTombstone(q)', FoundTombstone(q)'
    PROVE  IInv'
<1> DEFINE r == [requests[q] EXCEPT !.pc = pc]
<1>1. /\ requests' = [requests EXCEPT ![q] = r]
      /\ r \in Request /\ r.expected = requests[q].expected /\ requests'[q] = r
  BY Zenon DEF IInv, HistoryTypeOK, Request, Goto
<1>2. requests[q].expected \in Known /\ revisions[q] = None /\ tombstones[q] = None
  BY DEF IInv, RequestInv, Unwritten
<1>3. Unwritten(q)'
  BY <1>2 DEF Unwritten, tableVars
<1> HIDE DEF r
<1>4. QED BY <1>1, <1>2, <1>3, Move, Zenon

(* A request that ends without a commit gives up what it holds.            *)
LEMMA MoveToEnd ==
    ASSUME IInv, NEW q \in Requests, NEW pc \in Ended, Goto(q, pc), pc # "done",
           UNCHANGED tableVars, aborts' \in 0..MaxAborts, requests[q].pc # "done"
    PROVE  IInv'
<1>1. requests'[q].pc = pc
  BY DEF IInv, HistoryTypeOK, Request, Goto
<1>2. OwnsRow(q)' /\ OwnsTombstone(q)' /\ FoundTombstone(q)'
  BY <1>1 DEF Ended, OwnsRow, OwnsTombstone, FoundTombstone, HoldsRow, Deletes,
              HasInserted, HasTombstone
<1>3. QED BY <1>2, MovePc DEF Ended

-----------------------------------------------------------------------------
LEMMA StartStep ==
    ASSUME IInv, NEW q \in Requests, Start(q)
    PROVE  IInv'
<1>1. PICK kind \in Kinds, expected \in Inserted \cup {None} :
         requests' = [requests EXCEPT ![q] = [pc |-> "read", kind |-> kind,
                                              expected |-> expected, tombstone |-> None]]
  BY Zenon DEF Start
<1> DEFINE r == [pc |-> "read", kind |-> kind, expected |-> expected, tombstone |-> None]
<1>2. r \in Request
  BY DEF Request, Running, RevisionIds, Inserted
<1>3. requests'[q].pc = "read"
  BY <1>1 DEF IInv, HistoryTypeOK
<1>4. UNCHANGED tableVars /\ aborts' \in 0..MaxAborts /\ requests[q].pc = "idle"
  BY DEF Start, At, IInv, HistoryTypeOK
<1>5. Unwritten(q)'
  BY <1>4 DEF IInv, RequestInv, Unwritten, tableVars
<1>6. OwnsRow(q)' /\ OwnsTombstone(q)' /\ FoundTombstone(q)'
  BY <1>3 DEF OwnsRow, OwnsTombstone, FoundTombstone, HoldsRow, Deletes, HasInserted,
              HasTombstone
<1>7. r.expected \in Known /\ requests' = [requests EXCEPT ![q] = r]
  BY <1>1 DEF Known
<1> HIDE DEF r
<1>8. QED BY <1>2, <1>4, <1>5, <1>6, <1>7, Move, Zenon

(* Before the insert nothing is held.                                      *)
LEMMA ReadHeadStep ==
    ASSUME IInv, NEW q \in Requests, ReadHead(q), requests[q].pc \in {"read", "reread"},
           requests[q].kind = "restore" => requests[q].pc = "reread"
    PROVE  IInv'
<1>1. UNCHANGED tableVars /\ aborts' \in 0..MaxAborts
  BY DEF ReadHead, IInv, HistoryTypeOK
<1>2. CASE Goto(q, "conflict")
  BY <1>1, <1>2, MoveToEnd DEF Ended
<1>3. CASE Goto(q, "insert")
  <2>1. /\ requests'[q].pc = "insert" /\ requests'[q].kind = requests[q].kind
        /\ requests'[q].tombstone = requests[q].tombstone
    BY <1>3 DEF IInv, HistoryTypeOK, Request, Goto
  <2>2. OwnsRow(q)' /\ OwnsTombstone(q)'
    BY <2>1 DEF OwnsRow, OwnsTombstone, HoldsRow, Deletes, HasInserted
  <2>3. FoundTombstone(q)
    BY DEF IInv, RequestInv
  <2>4. FoundTombstone(q)'
    BY <1>1, <2>1, <2>3, SameTables DEF FoundTombstone, HasTombstone, tableVars
  <2>5. QED BY <1>1, <1>3, <2>2, <2>4, MovePc DEF Running
<1>4. QED BY <1>2, <1>3 DEF ReadHead

LEMMA ReadForRestoreStep ==
    ASSUME IInv, NEW q \in Requests, ReadForRestore(q)
    PROVE  IInv'
<1> DEFINE r == [requests[q] EXCEPT !.pc = "tombstone", !.expected = resource.head]
<1>1. requests' = [requests EXCEPT ![q] = r] /\ requests'[q] = r /\ r \in Request
  <2>1. requests \in [Requests -> Request] /\ resource.head \in RevisionIds
    BY DEF IInv, HistoryTypeOK, Resource
  <2>2. r \in Request
    BY <2>1, Zenon DEF Request, Running
  <2>3. requests' = [requests EXCEPT ![q] = r]
    BY Zenon DEF ReadForRestore
  <2> HIDE DEF r
  <2>4. QED BY <2>1, <2>2, <2>3
<1>2. requests'[q].pc = "tombstone" /\ r.expected = resource.head
  BY <1>1 DEF IInv, HistoryTypeOK, Request
<1>3. UNCHANGED tableVars /\ aborts' \in 0..MaxAborts /\ requests[q].pc = "read"
  BY DEF ReadForRestore, At, IInv, HistoryTypeOK
<1>4. resource.head \in Known
  BY DEF IInv, RowsInv
<1>5. Unwritten(q)'
  BY <1>3 DEF IInv, RequestInv, Unwritten, tableVars
<1>6. OwnsRow(q)' /\ OwnsTombstone(q)' /\ FoundTombstone(q)'
  BY <1>2 DEF OwnsRow, OwnsTombstone, FoundTombstone, HoldsRow, Deletes, HasInserted,
              HasTombstone
<1> HIDE DEF r
<1>7. QED BY <1>1, <1>2, <1>3, <1>4, <1>5, <1>6, Move, Zenon

LEMMA GetOpenTombstoneStep ==
    ASSUME HistoryConstants, IInv, NEW q \in Requests, GetOpenTombstone(q)
    PROVE  IInv'
<1>1. UNCHANGED tableVars /\ aborts' \in 0..MaxAborts /\ requests[q].pc = "tombstone"
  BY DEF GetOpenTombstone, At, IInv, HistoryTypeOK
<1>2. CASE Goto(q, "unrecoverable")
  BY <1>1, <1>2, MoveToEnd DEF Ended
<1>3. ASSUME NEW t \in Open, Recoverable(t),
             requests' = [requests EXCEPT ![q].pc = "reread", ![q].tombstone = t]
      PROVE  IInv'
  <2> DEFINE r == [requests[q] EXCEPT !.pc = "reread", !.tombstone = t]
  <2>1. t \in Requests /\ tombstones[t] # None
    BY DEF Open
  <2>2. /\ requests' = [requests EXCEPT ![q] = r] /\ requests'[q] = r /\ r \in Request
        /\ r.pc = "reread" /\ r.tombstone = t /\ r.expected = requests[q].expected
    BY <1>3, <2>1, Zenon DEF IInv, HistoryTypeOK, Request, Running, RevisionIds
  <2>3. tombstones[t].prior \in Inserted
    BY <1>3, <2>1 DEF Recoverable, IInv, RowsInv, Known
  <2>4. Unwritten(q)' /\ requests[q].expected \in Known
    BY <1>1 DEF IInv, RequestInv, Unwritten, tableVars
  <2>5. OwnsRow(q)' /\ OwnsTombstone(q)'
    BY <2>2, Zenon DEF OwnsRow, OwnsTombstone, HoldsRow, Deletes, HasInserted
  <2>6. FoundTombstone(q)'
    BY <1>1, <2>1, <2>2, <2>3, SameTables, Zenon DEF FoundTombstone, tableVars
  <2> HIDE DEF r
  <2>7. QED BY <1>1, <2>2, <2>4, <2>5, <2>6, Move, Zenon
<1>4. QED BY <1>2, <1>3 DEF GetOpenTombstone

-----------------------------------------------------------------------------
(* A step inside the transaction takes no tombstone and keeps the found    *)
(* one: only the row is left to look at.                                   *)
LEMMA MoveInside ==
    ASSUME IInv, NEW q \in Requests, NEW pc, Goto(q, pc), UNCHANGED tableVars,
           aborts' \in 0..MaxAborts,
           requests[q].pc \in {"insert", "head", "audit", "outbox", "close"},
           pc \in {"head", "audit", "outbox", "close", "commit"},
           OwnsTombstone(q)', OwnsRow(q)'
    PROVE  IInv'
<1>1. /\ requests'[q].pc = pc /\ requests'[q].kind = requests[q].kind
      /\ requests'[q].tombstone = requests[q].tombstone
  BY DEF IInv, HistoryTypeOK, Request, Goto
<1>2. FoundTombstone(q)
  BY DEF IInv, RequestInv
<1>3. FoundTombstone(q)'
  BY <1>1, <1>2, SameTables DEF FoundTombstone, HasTombstone, tableVars
<1>4. pc \in Running
  BY DEF Running
<1>5. QED BY <1>3, <1>4, MovePc

(* What is held after the move is held by nobody else.                     *)
LEMMA OthersKept ==
    ASSUME IInv, NEW q \in Requests, NEW pc, Goto(q, pc)
    PROVE  \A p \in Requests \ {q} :
              (HoldsRow(p)' <=> HoldsRow(p)) /\ (Deletes(p)' <=> Deletes(p))
BY DEF IInv, HistoryTypeOK, Goto, HoldsRow, Deletes, HasInserted

LEMMA KeepsTombstone ==
    ASSUME IInv, NEW q \in Requests, NEW pc, Goto(q, pc), UNCHANGED tableVars,
           HasInserted(q) \/ requests[q].kind # "delete"
    PROVE  OwnsTombstone(q)'
<1>1. requests'[q].kind = requests[q].kind
  BY DEF IInv, HistoryTypeOK, Request, Goto
<1>2. OwnsTombstone(q) /\ \A p \in Requests \ {q} : Deletes(p)' <=> Deletes(p)
  BY OthersKept DEF IInv, RequestInv
<1>3. Open' = Open
  BY SameTables
<1>4. QED BY <1>1, <1>2, <1>3 DEF OwnsTombstone, Deletes

LEMMA KeepsRow ==
    ASSUME IInv, NEW q \in Requests, NEW pc, Goto(q, pc), UNCHANGED tableVars,
           HoldsRow(q) \/ pc = "head"
    PROVE  OwnsRow(q)'
<1>1. requests'[q].pc = pc /\ requests'[q].expected = requests[q].expected
  BY DEF IInv, HistoryTypeOK, Request, Goto
<1>2. CASE pc = "head"
  BY <1>1, <1>2 DEF OwnsRow, HoldsRow
<1>3. CASE HoldsRow(q)
  <2>1. OwnsRow(q) /\ \A p \in Requests \ {q} : HoldsRow(p)' <=> HoldsRow(p)
    BY OthersKept DEF IInv, RequestInv
  <2>2. QED BY <1>1, <1>3, <2>1 DEF OwnsRow, tableVars
<1>4. QED BY <1>2, <1>3

LEMMA AppendRevisionStep ==
    ASSUME IInv, NEW q \in Requests, AppendRevision(q)
    PROVE  IInv'
<1>1. /\ UNCHANGED tableVars /\ aborts' \in 0..MaxAborts
      /\ requests[q].pc = "insert" /\ requests[q].kind # "delete"
  BY DEF AppendRevision, At, Revises, IInv, HistoryTypeOK
<1>2. CASE Goto(q, "refused")
  BY <1>1, <1>2, MoveToEnd DEF Ended
<1>3. CASE Goto(q, "head")
  <2>1. OwnsTombstone(q)' /\ OwnsRow(q)'
    BY <1>1, <1>3, KeepsTombstone, KeepsRow
  <2>2. QED BY <1>1, <1>3, <2>1, MoveInside
<1>4. QED BY <1>2, <1>3 DEF AppendRevision

(* The deletion that gets past the insert is the only one, and there is no *)
(* open tombstone then.                                                    *)
LEMMA AddTombstoneStep ==
    ASSUME IInv, NEW q \in Requests, AddTombstone(q)
    PROVE  IInv'
<1>1. /\ UNCHANGED tableVars /\ aborts' \in 0..MaxAborts
      /\ requests[q].pc = "insert" /\ requests[q].kind = "delete"
  BY DEF AddTombstone, At, IInv, HistoryTypeOK
<1>2. CASE Goto(q, "refused")
  BY <1>1, <1>2, MoveToEnd DEF Ended
<1>3. CASE Open = {} /\ Goto(q, "head")
  <2>1. \A p \in Requests \ {q} : ~Deletes(p)'
    BY <1>3, OthersKept DEF AddTombstone, Deletes
  <2>2. OwnsTombstone(q)'
    BY <1>1, <1>3, <2>1, SameTables DEF OwnsTombstone
  <2>3. OwnsRow(q)'
    BY <1>1, <1>3, KeepsRow
  <2>4. QED BY <1>1, <1>3, <2>2, <2>3, MoveInside
<1>4. QED BY <1>2, <1>3 DEF AddTombstone

(* The request that gets past setResourceHead is the only one, and the     *)
(* head is the one it expects.                                             *)
LEMMA SetResourceHeadStep ==
    ASSUME IInv, NEW q \in Requests, SetResourceHead(q)
    PROVE  IInv'
<1>1. UNCHANGED tableVars /\ aborts' \in 0..MaxAborts /\ requests[q].pc = "head"
  BY DEF SetResourceHead, At, IInv, HistoryTypeOK
<1>2. CASE Goto(q, "conflict")
  BY <1>1, <1>2, MoveToEnd DEF Ended
<1>3. CASE resource.head = requests[q].expected /\ Goto(q, "audit")
  <2>1. \A p \in Requests \ {q} : ~HoldsRow(p)'
    BY <1>3, OthersKept DEF SetResourceHead
  <2>2. requests'[q].expected = requests[q].expected
    BY <1>3 DEF IInv, HistoryTypeOK, Request, Goto
  <2>3. OwnsRow(q)'
    BY <1>1, <1>3, <2>1, <2>2 DEF OwnsRow, tableVars
  <2>4. OwnsTombstone(q)'
    BY <1>1, <1>3, KeepsTombstone DEF HasInserted
  <2>5. QED BY <1>1, <1>3, <2>3, <2>4, MoveInside
<1>4. QED BY <1>2, <1>3 DEF SetResourceHead

(* The rest of the transaction holds what it holds.                        *)
LEMMA HoldingStep ==
    ASSUME IInv, NEW q \in Requests,
           AppendAudit(q) \/ EnqueueOutbox(q) \/ CloseTombstone(q)
    PROVE  IInv'
<1>1. UNCHANGED tableVars /\ aborts' \in 0..MaxAborts
  BY DEF AppendAudit, EnqueueOutbox, CloseTombstone, IInv, HistoryTypeOK
<1>2. requests[q].pc \in {"audit", "outbox", "close"}
  BY DEF AppendAudit, EnqueueOutbox, CloseTombstone, At
<1>3. PICK pc \in {"outbox", "close", "commit"} : Goto(q, pc)
  BY DEF AppendAudit, EnqueueOutbox, CloseTombstone
<1>4. OwnsTombstone(q)' /\ OwnsRow(q)'
  BY <1>1, <1>2, <1>3, KeepsTombstone, KeepsRow DEF HasInserted, HoldsRow
<1>5. QED BY <1>1, <1>2, <1>3, <1>4, MoveInside

LEMMA AbortStep ==
    ASSUME HistoryConstants, IInv, NEW q \in Requests, Abort(q)
    PROVE  IInv'
<1>1. UNCHANGED tableVars /\ aborts' \in 0..MaxAborts
  BY DEF Abort, HistoryConstants, IInv, HistoryTypeOK
<1>2. QED BY <1>1, MoveToEnd DEF Abort, Running, Ended

-----------------------------------------------------------------------------
LEMMA NumberType ==
    ASSUME IInv, NEW id \in Known
    PROVE  NumberOf(id) \in Nat
BY DEF IInv, HistoryTypeOK, Revision, NumberOf, Known, Inserted

LEMMA NewRevisionType ==
    ASSUME IInv, NEW q \in Requests, At(q, "commit"), Revises(q)
    PROVE  /\ NewRevision(q) \in Revision
           /\ NewRevision(q).number = NumberOf(resource.head) + 1
           /\ NewRevision(q).parent = resource.head
<1>1. /\ resource.head = requests[q].expected /\ requests[q].expected \in Known
      /\ FoundTombstone(q)
  BY DEF IInv, RequestInv, OwnsRow, HoldsRow, At
<1>2. NumberOf(resource.head) \in Nat
  BY <1>1, NumberType
<1>3. requests[q].expected \in RevisionIds
  BY <1>1 DEF Known, Inserted, RevisionIds
<1>4. CASE requests[q].kind = "restore"
  <2> DEFINE prior == tombstones[requests[q].tombstone].prior
  <2>1. prior \in Requests /\ revisions[prior] \in Revision
    BY <1>1, <1>4, SMTT(30) DEF FoundTombstone, HasTombstone, At, Inserted, IInv, HistoryTypeOK
  <2>2. revisions[prior].payload \in Requests
    BY <2>1, Zenon DEF Revision
  <2> HIDE DEF prior
  <2>3. NewRevision(q) =
          [number |-> NumberOf(resource.head) + 1, parent |-> resource.head,
           payload |-> IF prior = None THEN q ELSE revisions[prior].payload,
           restoredFrom |-> prior]
    BY <1>1, <1>4 DEF NewRevision, NextNumber, prior
  <2>4. QED BY <1>1, <1>2, <1>3, <2>1, <2>2, <2>3 DEF Revision, RevisionIds
<1>5. CASE requests[q].kind = "create"
  <2>1. NewRevision(q) =
          [number |-> NumberOf(resource.head) + 1, parent |-> resource.head,
           payload |-> q, restoredFrom |-> None]
    BY <1>1, <1>5 DEF NewRevision, NextNumber
  <2>2. QED BY <1>1, <1>2, <1>3, <2>1 DEF Revision, RevisionIds
<1>6. QED BY <1>4, <1>5 DEF Revises

(* One more revision, the newest, on top of the head: the line grows.      *)
LEMMA LineGrows ==
    ASSUME HistoryConstants, IInv, NEW q \in Requests, NEW n \in Revision,
           revisions[q] = None, revisions' = [revisions EXCEPT ![q] = n],
           n.number = NumberOf(resource.head) + 1, n.parent = resource.head,
           resource'.head = q
    PROVE  /\ Inserted' = Inserted \cup {q} /\ HistoryIsLinear'
           /\ \A v \in Inserted' : /\ revisions'[v].parent \in Known'
                                   /\ revisions'[v].number <= NumberOf(resource.head)'
<1>1. /\ revisions'[q] = n /\ \A v \in Requests \ {q} : revisions'[v] = revisions[v]
      /\ n # None /\ q # None
  BY DEF IInv, HistoryTypeOK, HistoryConstants
<1>2. Inserted' = Inserted \cup {q} /\ q \notin Inserted
  BY <1>1 DEF Inserted
<1>3. /\ resource.head \in Known /\ NumberOf(resource.head) \in Nat
      /\ NumberOf(resource.head) = Cardinality(Inserted)
  BY NumberType DEF IInv, RowsInv, HistoryIsLinear
<1>4. \A id \in Known : NumberOf(id)' = NumberOf(id) /\ id \in Known'
  BY <1>1, <1>2 DEF NumberOf, Known, Inserted
<1>5. NumberOf(resource.head)' = n.number
  BY <1>1 DEF NumberOf
<1>6. \A v \in Inserted : /\ revisions[v].number \in Nat
                         /\ revisions[v].number <= NumberOf(resource.head)
                         /\ revisions[v].parent \in Known
                         /\ NumberOf(revisions[v].parent) = revisions[v].number - 1
                         /\ revisions'[v] = revisions[v]
  BY <1>1, <1>2 DEF IInv, HistoryTypeOK, RowsInv, HistoryIsLinear, Inserted, Revision
<1>7. Cardinality(Inserted') = Cardinality(Inserted) + 1
  <2>1. IsFiniteSet(Inserted)
    <3>1. IsFiniteSet(Requests)
      BY FS_Interval DEF Requests, HistoryConstants
    <3>2. QED BY <3>1, FS_Subset DEF Inserted
  <2>2. QED BY <1>2, <2>1, FS_AddElement, Zenon
<1>8. \A v \in Inserted' : /\ revisions'[v].parent \in Known'
                          /\ revisions'[v].number <= NumberOf(resource.head)'
  BY <1>1, <1>2, <1>3, <1>4, <1>5, <1>6
<1>9. \A v \in Inserted' : NumberOf(revisions[v].parent)' = revisions'[v].number - 1
  <2>1. ASSUME NEW v \in Inserted
        PROVE  NumberOf(revisions[v].parent)' = revisions'[v].number - 1
    <3>1. NumberOf(revisions[v].parent)' = NumberOf(revisions[v].parent)
      BY <1>4, <1>6 DEF NumberOf
    <3>2. QED BY <1>6, <3>1
  <2>2. NumberOf(revisions[q].parent)' = revisions'[q].number - 1
    <3>1. NumberOf(revisions[q].parent)' = NumberOf(resource.head)
      BY <1>1, <1>3, <1>4 DEF NumberOf
    <3>2. QED BY <1>1, <1>3, <3>1
  <2>3. QED BY <1>2, <2>1, <2>2
<1>10. \A v, w \in Inserted' : revisions'[v].number = revisions'[w].number => v = w
  <2>1. \A v, w \in Inserted : revisions[v].number = revisions[w].number => v = w
    BY DEF IInv, HistoryIsLinear
  <2>2. QED BY <1>1, <1>2, <1>3, <1>6, <2>1
<1>11. HistoryIsLinear'
  BY <1>3, <1>5, <1>7, <1>9, <1>10, SMTT(30) DEF HistoryIsLinear
<1>12. QED BY <1>2, <1>8, <1>11

(* The commit of a request takes nothing away from what the others rely on *)
(* when it leaves their rows alone, keeps every prior, and opens a         *)
(* tombstone only as the one deletion there is.                            *)
LEMMA CommitKeepsRequests ==
    ASSUME IInv, NEW q \in Requests, At(q, "commit"), Goto(q, "done"),
           Inserted \subseteq Inserted',
           \A p \in Requests \ {q} : revisions'[p] = revisions[p],
           \A p \in Requests : tombstones[p] # None =>
               tombstones'[p] # None /\ tombstones'[p].prior = tombstones[p].prior,
           \A p \in Requests \ {q} : tombstones[p] = None => tombstones'[p] = None,
           requests[q].kind = "delete" \/ Open' \subseteq Open
    PROVE  RequestInv'
<1>1. /\ requests'[q].pc = "done" /\ requests'[q].expected = requests[q].expected
      /\ \A p \in Requests \ {q} : requests'[p] = requests[p]
  BY DEF IInv, HistoryTypeOK, Request, Goto
<1>2. Known \subseteq Known'
  BY DEF Known
<1>3. \A p \in Requests : /\ requests[p].expected \in Known
                         /\ Unwritten(p) /\ OwnsRow(p) /\ OwnsTombstone(p) /\ FoundTombstone(p)
  BY DEF IInv, RequestInv
<1>4. HoldsRow(q) /\ HasInserted(q)
  BY DEF At, HoldsRow, HasInserted
<1>5. ASSUME NEW p \in Requests, p # q
      PROVE  Unwritten(p)' /\ OwnsRow(p)' /\ OwnsTombstone(p)' /\ FoundTombstone(p)'
  <2>1. ~HoldsRow(p)
    BY <1>3, <1>4, <1>5 DEF OwnsRow
  <2>2. OwnsRow(p)'
    BY <1>1, <1>5, <2>1 DEF OwnsRow, HoldsRow
  <2>3. Unwritten(p)'
    BY <1>1, <1>3, <1>5, Zenon DEF Unwritten
  <2>4. OwnsTombstone(p)'
    <3>1. SUFFICES ASSUME Deletes(p)'
                   PROVE  Open' = {} /\ \A o \in Requests : Deletes(o)' => o = p
      BY DEF OwnsTombstone
    <3>2. Deletes(p)
      BY <1>1, <1>5, <3>1 DEF Deletes, HasInserted
    <3>3. requests[q].kind # "delete"
      BY <1>3, <1>4, <1>5, <3>2 DEF OwnsTombstone, Deletes
    <3>4. \A o \in Requests : Deletes(o)' => Deletes(o)
      BY <1>1 DEF Deletes, HasInserted
    <3>5. QED BY <1>3, <3>2, <3>3, <3>4, Zenon DEF OwnsTombstone
  <2>5. FoundTombstone(p)'
    BY <1>1, <1>3, <1>5, SMTT(30) DEF FoundTombstone, HasTombstone
  <2>6. QED BY <2>2, <2>3, <2>4, <2>5, Zenon
<1>6. Unwritten(q)' /\ OwnsRow(q)' /\ OwnsTombstone(q)' /\ FoundTombstone(q)'
  BY <1>1 DEF Unwritten, OwnsRow, OwnsTombstone, FoundTombstone, HoldsRow, Deletes,
              HasInserted, HasTombstone
<1>7. QED BY <1>1, <1>2, <1>3, <1>5, <1>6 DEF RequestInv

LEMMA TrailGrows ==
    ASSUME IInv, NEW e \in Event, trail' = Append(trail, e)
    PROVE  trail' \in Seq(Event) /\ trail' # <<>> /\ trail'[Len(trail')] = e
<1>1. trail \in Seq(Event)
  BY DEF IInv, HistoryTypeOK
<1>2. /\ trail' \in Seq(Event) /\ Len(trail') = Len(trail) + 1
      /\ trail'[Len(trail) + 1] = e
  BY <1>1
<1>3. Len(trail) \in Nat
  BY <1>1
<1>4. trail' # <<>>
  BY <1>2, <1>3
<1>5. QED BY <1>2, <1>4

LEMMA CommitRevisionStep ==
    ASSUME HistoryConstants, IInv, NEW q \in Requests, CommitRevision(q)
    PROVE  IInv'
<1> DEFINE t == requests[q].tombstone
<1>1. At(q, "commit") /\ Revises(q) /\ Goto(q, "done") /\ UNCHANGED aborts
  BY DEF CommitRevision
<1>2. /\ NewRevision(q) \in Revision
      /\ NewRevision(q).number = NumberOf(resource.head) + 1
      /\ NewRevision(q).parent = resource.head
  BY <1>1, NewRevisionType
<1>3. FoundTombstone(q) /\ revisions[q] = None
  BY <1>1 DEF IInv, RequestInv, Unwritten, At
<1>4. revisions' = [revisions EXCEPT ![q] = NewRevision(q)] /\ resource'.head = q
  BY DEF CommitRevision
<1>5. /\ Inserted' = Inserted \cup {q} /\ HistoryIsLinear'
      /\ \A v \in Inserted' : /\ revisions'[v].parent \in Known'
                              /\ revisions'[v].number <= NumberOf(resource.head)'
  BY <1>2, <1>3, <1>4, LineGrows, Zenon
<1>6. /\ \A p \in Requests : tombstones[p] # None =>
              tombstones'[p] # None /\ tombstones'[p].prior = tombstones[p].prior
      /\ \A p \in Requests : tombstones[p] = None => tombstones'[p] = None
      /\ Open' \subseteq Open
      /\ tombstones' \in [Requests -> Tombstone \cup {None}]
  <2>1. CASE requests[q].kind = "restore"
    <3>1. tombstones' = [tombstones EXCEPT ![t].open = FALSE]
      BY <2>1 DEF CommitRevision
    <3>2. t \in Requests /\ tombstones[t] # None
      BY <1>1, <1>3, <2>1 DEF FoundTombstone, HasTombstone, At
    <3>3. tombstones[t] \in Tombstone /\ tombstones \in [Requests -> Tombstone \cup {None}]
      BY <3>2 DEF IInv, HistoryTypeOK
    <3> HIDE DEF t
    <3>4. /\ tombstones'[t] = [tombstones[t] EXCEPT !.open = FALSE]
          /\ \A p \in Requests \ {t} : tombstones'[p] = tombstones[p]
      BY <3>1, <3>2, <3>3
    <3>5. /\ tombstones'[t] \in Tombstone /\ ~tombstones'[t].open
          /\ tombstones'[t].prior = tombstones[t].prior
      BY <3>3, <3>4, Zenon DEF Tombstone
    <3>6. tombstones' \in [Requests -> Tombstone \cup {None}]
      BY <3>1, <3>3, <3>4, <3>5, Zenon
    <3>7. Open' \subseteq Open
      BY <3>4, <3>5, Zenon DEF Open
    <3>8. QED BY <3>2, <3>4, <3>5, <3>6, <3>7, Zenon DEF HistoryConstants
  <2>2. CASE requests[q].kind # "restore"
    <3>1. tombstones' = tombstones
      BY <2>2 DEF CommitRevision
    <3>2. QED BY <3>1 DEF Open, IInv, HistoryTypeOK
  <2>3. QED BY <2>1, <2>2
<1>7. HistoryTypeOK'
  <2>1. resource' \in Resource
    BY DEF CommitRevision, Resource, RevisionIds
  <2>2. revisions' \in [Requests -> Revision \cup {None}]
    BY <1>2, <1>4 DEF IInv, HistoryTypeOK
  <2>3. trail' \in Seq(Event)
    BY TrailGrows, Zenon DEF CommitRevision, Event
  <2>4. requests' \in [Requests -> Request] /\ aborts' \in 0..MaxAborts
    BY <1>1, SMTT(30) DEF IInv, HistoryTypeOK, Request, Goto, Ended
  <2>5. QED BY <1>6, <2>1, <2>2, <2>3, <2>4 DEF HistoryTypeOK
<1>8. RequestInv'
  <2>1. \A p \in Requests \ {q} : revisions'[p] = revisions[p]
    BY <1>4 DEF IInv, HistoryTypeOK
  <2>2. QED BY <1>1, <1>5, <1>6, <2>1, CommitKeepsRequests
<1>9. RowsInv'
  <2>1. resource.head' \in Known'
    BY <1>4, <1>5, Zenon DEF Known
  <2>2. \A p \in Requests : tombstones'[p] # None => tombstones'[p].prior \in Known'
    BY <1>5, <1>6 DEF IInv, RowsInv, Known
  <2>3. QED BY <1>5, <2>1, <2>2 DEF RowsInv
<1>10. TrailExplainsResource'
  <2>1. /\ trail' # <<>>
        /\ trail'[Len(trail')] = [action |-> "revision.created", id |-> q]
    BY TrailGrows DEF CommitRevision, Event
  <2>2. QED BY <2>1 DEF TrailExplainsResource, LastAction, CommitRevision
<1>11. DeletedIsRecorded'
  <2>1. resource'.status = "active"
    BY DEF CommitRevision
  <2>2. QED BY <1>6, <2>1 DEF DeletedIsRecorded, IInv
<1>12. QED BY <1>5, <1>7, <1>8, <1>9, <1>10, <1>11 DEF IInv

LEMMA CommitDeleteStep ==
    ASSUME HistoryConstants, IInv, NEW q \in Requests, CommitDelete(q)
    PROVE  IInv'
<1>1. /\ At(q, "commit") /\ requests[q].kind = "delete" /\ Goto(q, "done")
      /\ UNCHANGED <<revisions, aborts>>
      /\ resource' = [resource EXCEPT !.status = "deleted_logically"]
  BY DEF CommitDelete
<1>2. /\ Unwritten(q) /\ OwnsRow(q) /\ OwnsTombstone(q)
      /\ requests[q].expected \in Known
  BY DEF IInv, RequestInv
<1>3. PICK window \in {"none", "ahead"} :
         tombstones' = [tombstones EXCEPT ![q] =
             [prior |-> requests[q].expected, open |-> TRUE, window |-> window]]
  BY Zenon DEF CommitDelete
<1> DEFINE row == [prior |-> requests[q].expected, open |-> TRUE, window |-> window]
<1>4. /\ row \in Tombstone /\ row.open /\ row.prior = requests[q].expected
      /\ row # None
  <2>1. requests[q].expected \in RevisionIds
    BY <1>2 DEF Known, Inserted, RevisionIds
  <2>2. row \in Tombstone /\ row.open /\ row.prior = requests[q].expected
    BY <2>1 DEF Tombstone
  <2> HIDE DEF row
  <2>3. QED BY <2>2 DEF HistoryConstants
<1> HIDE DEF row
<1>5. /\ tombstones'[q] = row /\ \A p \in Requests \ {q} : tombstones'[p] = tombstones[p]
      /\ tombstones' \in [Requests -> Tombstone \cup {None}]
  BY <1>3, <1>4 DEF row, IInv, HistoryTypeOK
<1>6. /\ Open = {} /\ resource.head = requests[q].expected
      /\ revisions[q] = None /\ tombstones[q] = None
  BY <1>1, <1>2 DEF Unwritten, OwnsRow, OwnsTombstone, Deletes, HasInserted, HoldsRow, At
<1>7. Open' = {q}
  BY <1>4, <1>5, <1>6 DEF Open
<1>8. /\ resource'.head = resource.head /\ resource'.status = "deleted_logically"
      /\ resource' \in Resource
  BY <1>1, Zenon DEF IInv, HistoryTypeOK, Resource
<1>9. Inserted' = Inserted /\ Known' = Known /\ \A id : NumberOf(id)' = NumberOf(id)
  BY <1>1 DEF Inserted, Known, NumberOf
<1>10. HistoryTypeOK'
  <2>1. trail' \in Seq(Event)
    BY TrailGrows, Zenon DEF CommitDelete, Event
  <2>2. requests' \in [Requests -> Request] /\ aborts' \in 0..MaxAborts
    BY <1>1, SMTT(30) DEF IInv, HistoryTypeOK, Request, Goto, Ended
  <2>3. QED BY <1>1, <1>5, <1>8, <2>1, <2>2 DEF HistoryTypeOK, IInv
<1>11. RequestInv'
  BY <1>1, <1>5, <1>6, <1>9, CommitKeepsRequests
<1>12. RowsInv'
  <2>1. \A t \in Requests : tombstones'[t] # None => tombstones'[t].prior \in Known'
    BY <1>2, <1>4, <1>5, <1>9 DEF IInv, RowsInv
  <2>2. QED BY <1>1, <1>8, <1>9, <2>1 DEF IInv, RowsInv
<1>13. HistoryIsLinear'
  BY <1>1, <1>8, <1>9, Zenon DEF IInv, HistoryIsLinear
<1>14. TrailExplainsResource'
  <2>1. /\ trail' # <<>>
        /\ trail'[Len(trail')] = [action |-> "resource.deleted_logically", id |-> q]
    BY TrailGrows, Zenon DEF CommitDelete, Event
  <2>2. QED BY <1>4, <1>5, <1>6, <1>8, <2>1 DEF TrailExplainsResource, LastAction
<1>15. DeletedIsRecorded'
  BY <1>4, <1>5, <1>6, <1>7, <1>8 DEF DeletedIsRecorded
<1>16. QED BY <1>10, <1>11, <1>12, <1>13, <1>14, <1>15 DEF IInv

(* The end of a window changes neither what is open nor what is named.     *)
LEMMA WindowEndsStep ==
    ASSUME HistoryConstants, IInv, NEW t \in Requests, WindowEnds(t)
    PROVE  IInv'
<1>1. /\ tombstones[t] # None /\ UNCHANGED <<resource, revisions, trail, requests, aborts>>
      /\ tombstones' = [tombstones EXCEPT ![t].window = "past"]
  BY DEF WindowEnds
<1>2. tombstones \in [Requests -> Tombstone \cup {None}] /\ tombstones[t] \in Tombstone
  BY <1>1 DEF IInv, HistoryTypeOK
<1>3. /\ tombstones'[t] \in Tombstone
      /\ tombstones'[t].prior = tombstones[t].prior /\ tombstones'[t].open = tombstones[t].open
      /\ \A p \in Requests \ {t} : tombstones'[p] = tombstones[p]
      /\ tombstones' \in [Requests -> Tombstone \cup {None}]
  BY <1>1, <1>2 DEF Tombstone
<1>4. \A p \in Requests : /\ tombstones[p] = None => tombstones'[p] = None
                         /\ tombstones[p] # None => tombstones'[p] # None
                         /\ tombstones'[p].prior = tombstones[p].prior
                         /\ tombstones'[p].open = tombstones[p].open
  BY <1>1, <1>3 DEF HistoryConstants
<1>5. /\ Inserted' = Inserted /\ Known' = Known /\ Open' = Open
      /\ \A id : NumberOf(id)' = NumberOf(id)
  <2>1. Inserted' = Inserted /\ Known' = Known /\ \A id : NumberOf(id)' = NumberOf(id)
    BY <1>1 DEF Inserted, Known, NumberOf
  <2>2. \A p \in Requests : p \in Open' <=> p \in Open
    <3>1. ASSUME NEW p \in Requests, p \in Open PROVE p \in Open'
      BY <1>4, <3>1 DEF Open
    <3>2. ASSUME NEW p \in Requests, p \in Open' PROVE p \in Open
      <4>1. tombstones'[p] # None /\ tombstones'[p].open
        BY <3>2 DEF Open
      <4>2. CASE p = t
        BY <1>1, <1>3, <4>1, <4>2, Zenon DEF Open
      <4>3. CASE p # t
        <5>1. tombstones'[p] = tombstones[p]
          BY <1>3, <4>3
        <5>2. QED BY <4>1, <5>1, Zenon DEF Open
      <4>4. QED BY <4>2, <4>3
    <3>3. QED BY <3>1, <3>2
  <2>3. Open' = Open
    BY <2>2 DEF Open
  <2>4. QED BY <2>1, <2>3
<1>6. HistoryTypeOK'
  BY <1>1, <1>3 DEF IInv, HistoryTypeOK
<1>7. RequestInv'
  <2> SUFFICES ASSUME NEW q \in Requests
               PROVE  /\ requests'[q].expected \in Known'
                      /\ Unwritten(q)' /\ OwnsRow(q)' /\ OwnsTombstone(q)' /\ FoundTombstone(q)'
    BY DEF RequestInv
  <2>1. /\ requests[q].expected \in Known
        /\ Unwritten(q) /\ OwnsRow(q) /\ OwnsTombstone(q) /\ FoundTombstone(q)
    BY DEF IInv, RequestInv
  <2>2. Unwritten(q)'
    BY <1>1, <1>4, <2>1 DEF Unwritten
  <2>3. OwnsRow(q)' /\ OwnsTombstone(q)'
    BY <1>1, <1>5, <2>1, Zenon DEF OwnsRow, OwnsTombstone, HoldsRow, Deletes, HasInserted
  <2>4. FoundTombstone(q)'
    <3>1. requests' = requests
      BY <1>1
    <3>2. SUFFICES ASSUME HasTombstone(q)
                   PROVE  /\ requests[q].tombstone \in Requests
                          /\ tombstones'[requests[q].tombstone] # None
                          /\ tombstones'[requests[q].tombstone].prior \in Inserted'
      BY <3>1 DEF FoundTombstone, HasTombstone
    <3>3. /\ requests[q].tombstone \in Requests
          /\ tombstones[requests[q].tombstone] # None
          /\ tombstones[requests[q].tombstone].prior \in Inserted
      BY <2>1, <3>2 DEF FoundTombstone
    <3>4. QED BY <1>4, <1>5, <3>3
  <2>5. QED BY <1>1, <1>5, <2>1, <2>2, <2>3, <2>4
<1>8. RowsInv' /\ HistoryIsLinear'
  BY <1>1, <1>4, <1>5 DEF IInv, RowsInv, HistoryIsLinear
<1>9. DeletedIsRecorded'
  BY <1>1, <1>4, <1>5 DEF IInv, DeletedIsRecorded, Open
<1>10. TrailExplainsResource'
  <2>1. CASE trail = <<>>
    BY <1>1, <2>1 DEF IInv, TrailExplainsResource
  <2>2. CASE trail # <<>>
    <3>1. LastAction.id \in Requests
      <4>1. trail \in Seq(Event) /\ Len(trail) \in 1..Len(trail)
        BY <2>2 DEF IInv, HistoryTypeOK
      <4>2. trail[Len(trail)] \in Event
        BY <4>1
      <4>3. QED BY <4>2 DEF LastAction, Event
    <3>2. tombstones'[LastAction.id].prior = tombstones[LastAction.id].prior
      BY <1>3, <3>1
    <3>3. QED BY <1>1, <2>2, <3>2 DEF IInv, TrailExplainsResource, LastAction
  <2>3. QED BY <2>1, <2>2
<1>11. QED BY <1>6, <1>7, <1>8, <1>9, <1>10 DEF IInv

-----------------------------------------------------------------------------
LEMMA InitHolds ==
    ASSUME HistoryConstants, HistoryInit
    PROVE  IInv
<1> USE DEF HistoryInit
<1>1. Inserted = {} /\ Open = {}
  BY DEF Inserted, Open
<1>2. HistoryTypeOK
  <2>1. NewRequest \in Request /\ resource \in Resource
    BY DEF NewRequest, Request, RevisionIds, Resource
  <2>2. QED BY <2>1 DEF HistoryTypeOK, HistoryConstants
<1>3. RequestInv
  BY <1>1 DEF RequestInv, NewRequest, Known, Unwritten, OwnsRow, OwnsTombstone,
              FoundTombstone, HoldsRow, Deletes, HasInserted, HasTombstone
<1>4. RowsInv
  BY <1>1 DEF RowsInv, Known
<1>5. HistoryIsLinear
  BY <1>1, FS_EmptySet DEF HistoryIsLinear, NumberOf
<1>6. TrailExplainsResource /\ DeletedIsRecorded
  BY <1>1 DEF TrailExplainsResource, DeletedIsRecorded
<1>7. QED BY <1>2, <1>3, <1>4, <1>5, <1>6 DEF IInv

LEMMA NextKeeps ==
    ASSUME HistoryConstants, IInv, [HistoryNext]_historyVars
    PROVE  IInv'
<1>1. ASSUME NEW q \in Requests, Start(q) \/ RequestStep(q) \/ Abort(q)
      PROVE  IInv'
  <2>1. ReadResource(q) => IInv'
    BY ReadHeadStep DEF ReadResource, At
  <2>2. ReadAgain(q) => IInv'
    BY ReadHeadStep DEF ReadAgain, At
  <2>3. QED
    BY <1>1, <2>1, <2>2, StartStep, ReadForRestoreStep, GetOpenTombstoneStep,
       AppendRevisionStep, AddTombstoneStep, SetResourceHeadStep, HoldingStep,
       CommitRevisionStep, CommitDeleteStep, AbortStep, Zenon DEF RequestStep
<1>2. ASSUME NEW t \in Requests, WindowEnds(t)
      PROVE  IInv'
  BY <1>2, WindowEndsStep
<1>3. CASE UNCHANGED historyVars
  <2>1. UNCHANGED tableVars /\ UNCHANGED requests /\ UNCHANGED aborts
    BY <1>3 DEF historyVars
  <2>2. /\ RowsInv' /\ HistoryIsLinear' /\ TrailExplainsResource' /\ DeletedIsRecorded'
        /\ Known' = Known /\ Inserted' = Inserted /\ Open' = Open
    BY <2>1, SameTables, SMTT(30) DEF IInv
  <2>3. RequestInv'
    BY <2>1, <2>2 DEF IInv, RequestInv, tableVars, Unwritten, OwnsRow, OwnsTombstone,
                      FoundTombstone, HoldsRow, Deletes, HasInserted, HasTombstone
  <2>4. QED BY <2>1, <2>2, <2>3 DEF IInv, HistoryTypeOK, tableVars
<1>4. QED BY <1>1, <1>2, <1>3 DEF HistoryNext

(* The invariant the other theorems rest on.                               *)
THEOREM HistoryInvariance ==
    ASSUME HistoryConstants
    PROVE  HistorySpec => []IInv
<1>1. HistoryInit => IInv
  BY InitHolds
<1>2. IInv /\ [HistoryNext]_historyVars => IInv'
  BY NextKeeps
<1>3. QED BY <1>1, <1>2, PTL DEF HistorySpec

(* However many requests create, delete and restore, and wherever they are *)
(* aborted, the revisions of a resource are one line without gaps or       *)
(* branches from the first to the head (ResourceHistoryService).           *)
THEOREM OneLineOfRevisions ==
    ASSUME HistoryConstants
    PROVE  HistorySpec => []HistoryIsLinear
<1>1. IInv => HistoryIsLinear
  BY DEF IInv
<1>2. HistorySpec => []IInv
  BY HistoryInvariance
<1>3. QED BY <1>1, <1>2, PTL

(* The row of the resource is the one its audit trail leads to, and a      *)
(* deleted resource has one open tombstone that names the revision to      *)
(* restore (commitRevision, deleteResource, restoreResource).              *)
THEOREM RowIsExplained ==
    ASSUME HistoryConstants
    PROVE  HistorySpec => []RecordsExplainResource
<1>1. IInv => RecordsExplainResource
  BY DEF IInv, RecordsExplainResource
<1>2. HistorySpec => []IInv
  BY HistoryInvariance
<1>3. QED BY <1>1, <1>2, PTL
=============================================================================
