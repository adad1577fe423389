------------------------- MODULE ObjectIngestProofs -------------------------
(***************************************************************************)
(* Machine-checked proofs about ObjectIngest, for every set of keys,       *)
(* contents, storages and overlapping calls.                               *)
(***************************************************************************)
EXTENDS ObjectIngest, TLAPS

-----------------------------------------------------------------------------
(***************************************************************************)
(* The inductive invariant.                                                *)
(***************************************************************************)
Recorded(k) == EventsOf(audit, k) # {} /\ EventsOf(outbox, k) # {}

BlobKnown(id, c) == c \in Contents /\ catalog[c] # None /\ catalog[c].id = id

(* Where a runner stands in the list of checkpoints at each of its calls.  *)
AtCheckpoint(m) ==
    /\ m.pc = "saveTemporary" => m.at = temporary_upload_created
    /\ m.pc = "writeTemporary" => m.at = bytes_received
    /\ m.pc = "saveHash" => m.at = hash_verified
    /\ m.pc \in {"inspectTemporary", "verifyCommitted", "inspectCanonical",
                 "copy", "deleteTemporary", "saveCommitted"} =>
           m.at = immutable_object_committed
    /\ m.pc = "commitMetadata" => m.at = metadata_committed
    /\ m.pc = "complete" => m.at = completed /\ m.blob # None

(* What a runner relies on: it works for the request in the row, it has    *)
(* skipped or marked every checkpoint before its own, and what it marks    *)
(* has happened.                                                           *)
RunnerInv(m) ==
    m.pc # "idle" =>
        /\ m.key \in Keys /\ m.request \in Contents /\ m.store \in Stores
        /\ operations[m.key].request = m.request
        /\ m.done \subseteq Marked(m.key)
        /\ m.pc \notin {"find", "fail", "returned"} =>
               1..(m.at - 1) \subseteq m.done
        /\ m.pc = "find" => authorised \in m.done
        /\ AtCheckpoint(m)
        /\ m.pc = "mark" /\ m.at = metadata_committed => Recorded(m.key)
        /\ m.pc = "mark" /\ m.at = completed =>
               operations[m.key].result # None
        /\ m.existing # None => BlobKnown(m.existing.id, m.request)
        /\ m.blob # None => BlobKnown(m.blob.id, m.request)
        /\ m.pc = "returned" => m.blob # None /\ completed \in m.done

OperationInv(k) ==
    LET op == operations[k]
    IN  /\ op.request = None => op.checkpoints = <<>> /\ op.result = None
        /\ metadata_committed \in Marked(k) => Recorded(k)
        /\ completed \in Marked(k) => op.result # None
        /\ op.result # None => BlobKnown(op.result.blob.id, op.request)

EventsInv(events) ==
    \A i \in 1..Len(events) :
        /\ BlobKnown(events[i].blobId, operations[events[i].operation].request)
        /\ \A j \in 1..Len(events) :
               events[i].operation = events[j].operation => i = j

IInv ==
    /\ TypeOK
    /\ CheckpointsInOrder
    /\ \A k \in Keys : OperationInv(k)
    /\ EventsInv(audit) /\ EventsInv(outbox)
    /\ \A r \in Runners : RunnerInv(runners[r])

-----------------------------------------------------------------------------
(***************************************************************************)
(* Control flow.                                                           *)
(***************************************************************************)
USE DEF authorised, temporary_upload_created, bytes_received, hash_verified,
        immutable_object_committed, metadata_committed, audit_committed,
        completed, requested, failed_retryable, Checkpoints, OperationStates

(* When a checkpoint from i on is missing from the local set, there is a   *)
(* first one.                                                              *)
LEMMA FirstMissing ==
    ASSUME NEW done, NEW i \in 2..9, ~(i..8 \subseteq done)
    PROVE  \E j \in i..8 : j \notin done /\ i..(j - 1) \subseteq done
<1> SUFFICES ASSUME \A j \in i..8 : i..(j - 1) \subseteq done => j \in done
             PROVE  FALSE
  OBVIOUS
<1> DEFINE Q(v) == v < i \/ i..(v - 1) \subseteq done
<1>2. Q(2)  OBVIOUS
<1>3. Q(3)  BY <1>2
<1>4. Q(4)  BY <1>3
<1>5. Q(5)  BY <1>4
<1>6. Q(6)  BY <1>5
<1>7. Q(7)  BY <1>6
<1>8. Q(8)  BY <1>7
<1>9. Q(9)  BY <1>8
<1> QED  BY <1>9

(* The call made for a checkpoint is one of the eight a runner can wait    *)
(* for between two checkpoints.                                            *)
LEMMA CallForType ==
    ASSUME NEW m, NEW i \in 2..8
    PROVE  CallFor(m, i) \in
               {"mark", "saveTemporary", "writeTemporary", "saveHash",
                "inspectTemporary", "commitMetadata", "complete", "fail"}
BY DEF CallFor, UploadCalls, HasRequired

(* Each call belongs to one checkpoint, and the metadata and completion    *)
(* checkpoints are never marked without their effect.                      *)
LEMMA CallForAt ==
    ASSUME NEW m, NEW i \in 2..8
    PROVE  /\ CallFor(m, i) = "saveTemporary" => i = 2
           /\ CallFor(m, i) = "writeTemporary" => i = 3
           /\ CallFor(m, i) = "saveHash" => i = 4
           /\ CallFor(m, i) = "inspectTemporary" => i = 5
           /\ CallFor(m, i) = "commitMetadata" => i = 6
           /\ CallFor(m, i) = "complete" => i = 8 /\ m.blob # None
           /\ CallFor(m, i) = "mark" => i # 6 /\ i # 8
BY DEF CallFor, UploadCalls, HasRequired

(* ContinueAt moves the program counter and the checkpoint only; it leaves *)
(* the runner at a checkpoint all of whose predecessors are done, or lets  *)
(* it return with a blob when all eight are.                               *)
LEMMA ContinueAtFacts ==
    ASSUME NEW m \in Runner, NEW i \in 2..9, 1..(i - 1) \subseteq m.done,
           NEW n, n = ContinueAt(m, i)
    PROVE  /\ n \in Runner
           /\ n.pc # "idle"
           /\ n.key = m.key /\ n.request = m.request /\ n.store = m.store
           /\ n.done = m.done /\ n.context = m.context
           /\ n.existing = m.existing /\ n.blob = m.blob
           /\ n.pc \notin {"find", "fail", "returned"} =>
                  1..(n.at - 1) \subseteq n.done
           /\ AtCheckpoint(n)
           /\ n.pc = "mark" => n.at # metadata_committed /\ n.at # completed
           /\ n.pc = "returned" => n.blob # None /\ completed \in n.done
           /\ n.pc # "find"
<1>1. CASE i..8 \subseteq m.done
  <2>1. n = [m EXCEPT !.pc = IF m.blob # None THEN "returned" ELSE "fail"]
    BY <1>1 DEF ContinueAt
  <2>2. 8 \in m.done
    BY <1>1
  <2> QED  BY <2>1, <2>2 DEF Runner, Steps, AtCheckpoint
<1>2. CASE ~(i..8 \subseteq m.done)
  <2> DEFINE next == CHOOSE j \in i..8 :
                         j \notin m.done /\ i..(j - 1) \subseteq m.done
  <2>1. next \in i..8 /\ i..(next - 1) \subseteq m.done
    BY <1>2, FirstMissing
  <2>2. n = [m EXCEPT !.at = next, !.pc = CallFor(m, next)]
    BY <1>2 DEF ContinueAt
  <2> HIDE DEF next
  <2>3. next \in 2..8 /\ 1..(next - 1) \subseteq m.done
    BY <2>1
  <2>4. CallFor(m, next) \in
            {"mark", "saveTemporary", "writeTemporary", "saveHash",
             "inspectTemporary", "commitMetadata", "complete", "fail"}
    BY <2>3, CallForType
  <2>5. n \in Runner /\ n.pc = CallFor(m, next) /\ n.at = next
    <3> DEFINE a == [m EXCEPT !.at = next]
               call == CallFor(m, next)
    <3>1. a \in Runner /\ a.at = next
      BY <2>3 DEF Runner
    <3>2. call \in Steps /\ n = [a EXCEPT !.pc = call]
      BY <2>2, <2>4 DEF Steps
    <3> HIDE DEF a, call
    <3>3. n \in Runner /\ n.pc = call /\ n.at = next
      BY <3>1, <3>2 DEF Runner
    <3> QED  BY <3>3 DEF call
  <2>6. AtCheckpoint(n) /\ (n.pc = "mark" => n.at # 6 /\ n.at # 8)
    BY <2>2, <2>3, <2>4, <2>5, CallForAt DEF AtCheckpoint, Runner
  <2> QED  BY <2>2, <2>3, <2>4, <2>5, <2>6 DEF Runner
<1> QED  BY <1>1, <1>2

-----------------------------------------------------------------------------
(***************************************************************************)
(* What the other runners rely on only grows.                              *)
(***************************************************************************)
Grows ==
    /\ \A k \in Keys :
           /\ operations[k].request # None =>
                  operations'[k].request = operations[k].request
           /\ Marked(k) \subseteq Marked(k)'
           /\ operations[k].result # None => operations'[k].result # None
           /\ Recorded(k) => Recorded(k)'
    /\ \A c \in Contents : catalog[c] # None =>
           catalog'[c] # None /\ catalog'[c].id = catalog[c].id

(* What a runner relies on survives a step of another one: rows only gain  *)
(* checkpoints, results, events and blobs.                                 *)
LEMMA RunnerInvStable ==
    ASSUME NEW q \in Runners, runners'[q] = runners[q], RunnerInv(runners[q]),
           Grows
    PROVE  RunnerInv(runners[q])'
<1>1. CASE runners[q].pc = "idle"
  BY <1>1 DEF RunnerInv
<1>2. CASE runners[q].pc # "idle"
  <2> DEFINE k == runners[q].key
             c == runners[q].request
  <2>1. k \in Keys /\ c \in Contents /\ operations[k].request = c /\ c # None
    BY <1>2, IngestAssumption DEF RunnerInv
  <2>2. operations'[k].request = c /\ Marked(k) \subseteq Marked(k)'
    BY <2>1 DEF Grows
  <2>3. \A id : BlobKnown(id, c) => BlobKnown(id, c)'
    BY <2>1 DEF BlobKnown, Grows
  <2>4. /\ Recorded(k) => Recorded(k)'
        /\ operations[k].result # None => operations'[k].result # None
    BY <2>1 DEF Grows
  <2> QED  BY <1>2, <2>1, <2>2, <2>3, <2>4 DEF RunnerInv, AtCheckpoint
<1> QED  BY <1>1, <1>2

(* A step of runner r that keeps the rows' invariants keeps the invariant. *)
LEMMA RunnerStep ==
    ASSUME IInv, NEW r \in Runners, Grows, TypeOK',
           \A q \in Runners \ {r} : runners'[q] = runners[q],
           RunnerInv(runners[r])', CheckpointsInOrder',
           \A k \in Keys : OperationInv(k)', EventsInv(audit)',
           EventsInv(outbox)'
    PROVE  IInv'
<1>1. ASSUME NEW q \in Runners PROVE RunnerInv(runners[q])'
  <2>1. CASE q = r  BY <2>1
  <2>2. CASE q # r  BY <2>2, RunnerInvStable DEF IInv
  <2> QED  BY <2>1, <2>2
<1> QED  BY <1>1 DEF IInv

(* A step that writes neither the rows nor the events.                     *)
LEMMA LocalStep ==
    ASSUME IInv, NEW r \in Runners, UNCHANGED dbVars, TypeOK',
           \A q \in Runners \ {r} : runners'[q] = runners[q],
           RunnerInv(runners[r])'
    PROVE  IInv'
<1>1. Grows
  BY DEF Grows, dbVars, Marked, Recorded, EventsOf
<1>2. CheckpointsInOrder'
  BY DEF IInv, CheckpointsInOrder, dbVars
<1>3. ASSUME NEW k \in Keys PROVE OperationInv(k)'
  BY DEF IInv, OperationInv, dbVars, Marked, Recorded, EventsOf, BlobKnown
<1>4. EventsInv(audit)' /\ EventsInv(outbox)'
  BY DEF IInv, EventsInv, dbVars, BlobKnown
<1> QED  BY <1>1, <1>2, <1>3, <1>4, RunnerStep

(* What is to be shown of a runner whose effect is done and that marks its *)
(* checkpoint next.                                                        *)
LEMMA MarkingRunner ==
    ASSUME NEW n, NEW k \in Keys, n.pc = "mark", n.key = k,
           n.request \in Contents, n.store \in Stores,
           operations'[k].request = n.request, n.done \subseteq Marked(k)',
           1..(n.at - 1) \subseteq n.done,
           n.at = 6 => Recorded(k)', n.at = 8 => operations'[k].result # None,
           n.existing # None => BlobKnown(n.existing.id, n.request)',
           n.blob # None => BlobKnown(n.blob.id, n.request)'
    PROVE  RunnerInv(n)'
<1>1. AtCheckpoint(n)
  BY DEF AtCheckpoint
<1>2. AtCheckpoint(n)'
  BY <1>1 DEF AtCheckpoint
<1> QED  BY <1>2 DEF RunnerInv

-----------------------------------------------------------------------------
(***************************************************************************)
(* Each action keeps the invariant.                                        *)
(***************************************************************************)
(* The inductive invariant holds before the first call.                    *)
LEMMA InitIInv == Init => IInv
<1> SUFFICES ASSUME Init PROVE IInv
  OBVIOUS
<1> USE IngestAssumption DEF Init
<1>1. TypeOK
  <2>1. NoOperation \in Operation
    BY DEF NoOperation, Operation
  <2>2. Idle \in Runner
    BY DEF Idle, Runner, Steps
  <2> QED  BY <2>1, <2>2 DEF TypeOK
<1>2. \A k \in Keys : Marked(k) = {} /\ operations[k].result = None
                       /\ operations[k].checkpoints = <<>>
  <2>1. \A k \in Keys : operations[k] = NoOperation
    OBVIOUS
  <2>2. \A k \in Keys : operations[k].checkpoints = <<>>
    BY <2>1 DEF NoOperation
  <2>3. \A k \in Keys : Len(operations[k].checkpoints) = 0
    BY <2>2
  <2>4. ASSUME NEW k \in Keys PROVE Marked(k) = {}
    <3>1. 1..Len(operations[k].checkpoints) = {}
      BY <2>3
    <3> QED  BY <3>1, Zenon DEF Marked
  <2> QED  BY <2>1, <2>2, <2>4 DEF NoOperation
<1>3. CheckpointsInOrder /\ \A k \in Keys : OperationInv(k)
  BY <1>2 DEF CheckpointsInOrder, OperationInv
<1>4. EventsInv(audit) /\ EventsInv(outbox)
  BY DEF EventsInv
<1>5. \A r \in Runners : RunnerInv(runners[r])
  BY DEF RunnerInv, Idle
<1> QED  BY <1>1, <1>3, <1>4, <1>5 DEF IInv

(* The checkpoints of a row, as a set.                                     *)
LEMMA MarkedRange ==
    ASSUME TypeOK, CheckpointsInOrder, NEW k \in Keys
    PROVE  /\ operations[k].checkpoints \in Seq(Checkpoints)
           /\ Len(operations[k].checkpoints) \in 0..8
           /\ Marked(k) = 1..Len(operations[k].checkpoints)
           /\ Marked(k) \subseteq Checkpoints
<1> DEFINE cps == operations[k].checkpoints
           n == Len(cps)
<1>1. cps \in Seq(Checkpoints)
  BY DEF TypeOK, Operation
<1>2. \A i \in 1..n : cps[i] = i
  BY DEF CheckpointsInOrder
<1>3. Marked(k) = {cps[i] : i \in 1..n}
  BY DEF Marked
<1> HIDE DEF cps
<1>4. n \in Nat /\ \A i \in 1..n : cps[i] \in 1..8
  BY <1>1
<1> HIDE DEF n
<1>5. n \in 0..8
  <2>1. CASE n = 0  BY <2>1
  <2>2. CASE n # 0
    <3>1. n \in 1..n  BY <1>4, <2>2
    <3>2. cps[n] = n /\ cps[n] \in 1..8  BY <3>1, <1>2, <1>4
    <3> QED  BY <3>2
  <2> QED  BY <2>1, <2>2
<1>6. Marked(k) = 1..n
  BY <1>2, <1>3
<1>7. Marked(k) \subseteq Checkpoints
  BY <1>5, <1>6
<1> QED  BY <1>1, <1>5, <1>6, <1>7 DEF cps, n

(* begin starts a call from exactly what the operation row says.           *)
LEMMA BeginKeeps ==
    ASSUME IInv, NEW r \in Runners, NEW k \in Keys, NEW c \in Contents,
           NEW s \in Stores, Begin(r, k, c, s)
    PROVE  IInv'
<1> USE DEF Begin, storageVars
<1> DEFINE op == operations[k]
<1>0. TypeOK /\ op \in Operation /\ Marked(k) \subseteq Checkpoints
      /\ OperationInv(k)
  BY MarkedRange DEF IInv, TypeOK
<1>1. operations' = [operations EXCEPT ![k] = [op EXCEPT !.request = c]]
      /\ [op EXCEPT !.request = c] \in Operation
  BY <1>0, Zenon DEF TypeOK, Operation
<1>2. StartOf(k, c, s) \in Runner
  BY <1>0, IngestAssumption DEF StartOf, Runner, Operation, Steps, IngestResult
<1>3. TypeOK'
  <2> HIDE DEF op
  <2> QED  BY <1>0, <1>1, <1>2, Zenon DEF TypeOK
<1>4. \A q \in Keys :
          /\ operations'[q].checkpoints = operations[q].checkpoints
          /\ operations'[q].result = operations[q].result
          /\ operations[q].request # None =>
                 operations'[q].request = operations[q].request
          /\ Marked(q)' = Marked(q)
          /\ Recorded(q)' = Recorded(q)
  BY <1>0, <1>1 DEF TypeOK, Operation, Marked, Recorded, EventsOf
<1>5. Grows
  BY <1>4 DEF Grows
<1>6. CheckpointsInOrder'
  BY <1>4 DEF IInv, CheckpointsInOrder
<1>7. \A id, d : BlobKnown(id, d)' <=> BlobKnown(id, d)
  BY DEF BlobKnown
<1>8. ASSUME NEW q \in Keys PROVE OperationInv(q)'
  <2>1. OperationInv(q)  BY DEF IInv
  <2>2. operations'[q].request = None => operations[q].request = None
    BY <1>0, <1>1, IngestAssumption DEF TypeOK, Operation
  <2>3. operations[q].result # None => operations[q].request # None
    BY <2>1 DEF OperationInv
  <2> QED  BY <1>4, <1>7, <2>1, <2>2, <2>3 DEF OperationInv
<1>9. EventsInv(audit)' /\ EventsInv(outbox)'
  <2>1. ASSUME NEW e \in IngestEvent,
               BlobKnown(e.blobId, operations[e.operation].request)
        PROVE  BlobKnown(e.blobId, operations[e.operation].request)'
    BY <2>1, <1>4, <1>7, IngestAssumption DEF BlobKnown, IngestEvent
  <2>2. /\ \A i \in 1..Len(audit) : audit[i] \in IngestEvent
        /\ \A i \in 1..Len(outbox) : outbox[i] \in IngestEvent
    BY <1>0 DEF TypeOK
  <2>3. EventsInv(audit) /\ EventsInv(outbox)
    BY DEF IInv
  <2>4. EventsInv(audit)'
    BY <2>1, <2>2, <2>3 DEF EventsInv
  <2>5. EventsInv(outbox)'
    BY <2>1, <2>2, <2>3 DEF EventsInv
  <2> QED  BY <2>4, <2>5
<1>10. RunnerInv(runners[r])'
  <2> DEFINE m == StartOf(k, c, s)
  <2>1. runners'[r] = m
    BY <1>0 DEF TypeOK
  <2>2. /\ m.key = k /\ m.request = c /\ m.store = s /\ m.done = Marked(k)
        /\ m.at = 1 /\ m.existing = None /\ m.pc \in {"find", "mark"}
        /\ m.pc = "find" => 1 \in Marked(k)
        /\ m.blob # None => op.result # None /\ m.blob = op.result.blob
    BY DEF StartOf
  <2>3. operations'[k].request = c
    BY <1>0, <1>1 DEF TypeOK, Operation
  <2>4. m.blob # None => BlobKnown(m.blob.id, c)
    BY <1>0, <2>2, IngestAssumption DEF OperationInv, BlobKnown
  <2> HIDE DEF m
  <2> QED
    BY <2>1, <2>2, <2>3, <2>4, <1>4, <1>7 DEF RunnerInv, AtCheckpoint
<1> QED
  <2>1. \A q \in Runners \ {r} : runners'[q] = runners[q]
    BY <1>0 DEF TypeOK
  <2> QED
    BY <1>3, <1>5, <1>6, <1>8, <1>9, <1>10, <2>1, RunnerStep

(* A step of runner r that updates the row of its key and nothing else in  *)
(* the database.                                                           *)
LEMMA OperationStep ==
    ASSUME IInv, NEW r \in Runners, NEW k \in Keys, TypeOK',
           UNCHANGED <<catalog, audit, outbox>>,
           \A q \in Keys \ {k} : operations'[q] = operations[q],
           operations'[k].request = operations[k].request,
           Marked(k) \subseteq Marked(k)',
           operations[k].result # None => operations'[k].result # None,
           \A i \in 1..Len(operations'[k].checkpoints) :
               operations'[k].checkpoints[i] = i,
           OperationInv(k)',
           \A q \in Runners \ {r} : runners'[q] = runners[q],
           RunnerInv(runners[r])'
    PROVE  IInv'
<1>1. \A q \in Keys : Recorded(q)' = Recorded(q)
  BY DEF Recorded, EventsOf
<1>2. \A id, c : BlobKnown(id, c)' <=> BlobKnown(id, c)
  BY DEF BlobKnown
<1>3. \A q \in Keys : operations'[q].request = operations[q].request
  OBVIOUS
<1>4. \A q \in Keys \ {k} : Marked(q)' = Marked(q)
  BY DEF Marked
<1>5. Grows
  BY <1>1, <1>3, <1>4, Zenon DEF Grows
<1>6. CheckpointsInOrder'
  BY DEF IInv, CheckpointsInOrder
<1>7. ASSUME NEW q \in Keys PROVE OperationInv(q)'
  <2>1. CASE q = k  BY <2>1
  <2>2. CASE q # k  BY <2>2, <1>1, <1>2, <1>4 DEF IInv, OperationInv
  <2> QED  BY <2>1, <2>2
<1>8. EventsInv(audit)' /\ EventsInv(outbox)'
  <2>1. /\ \A i \in 1..Len(audit) : audit[i] \in IngestEvent
        /\ \A i \in 1..Len(outbox) : outbox[i] \in IngestEvent
    BY DEF IInv, TypeOK
  <2>2. \A e \in IngestEvent :
            operations'[e.operation].request = operations[e.operation].request
    BY <1>3 DEF IngestEvent
  <2>3. EventsInv(audit) /\ EventsInv(outbox)
    BY DEF IInv
  <2>4. EventsInv(audit)'
    BY <1>2, <2>1, <2>2, <2>3 DEF EventsInv
  <2>5. EventsInv(outbox)'
    BY <1>2, <2>1, <2>2, <2>3, Zenon DEF EventsInv
  <2> QED  BY <2>4, <2>5
<1> QED  BY <1>5, <1>6, <1>7, <1>8, RunnerStep

(* markCheckpoint appends the next checkpoint of the list or, when another *)
(* call has marked it, nothing.                                            *)
LEMMA MarkCheckpointKeeps ==
    ASSUME IInv, NEW r \in Runners, MarkCheckpoint(r)
    PROVE  IInv'
<1> PICK m \in Runner : m = runners[r]
  BY Zenon DEF IInv, TypeOK
<1> DEFINE k == m.key
           op == operations[k]
           d == [m EXCEPT !.done = m.done \cup {m.at}]
           n == IF m.at = 1 THEN [d EXCEPT !.pc = "find"]
                ELSE ContinueAt(d, m.at + 1)
<1>0. /\ m \in Runner /\ m.pc = "mark" /\ k \in Keys /\ op \in Operation
      /\ RunnerInv(m) /\ OperationInv(k) /\ op.request = m.request
      /\ m.request \in Contents /\ m.at \in 1..8
      /\ 1..(m.at - 1) \subseteq m.done /\ m.done \subseteq Marked(k)
  BY Zenon DEF IInv, TypeOK, RunnerInv, MarkCheckpoint, Runner
<1>1. /\ Marked(k) = 1..Len(op.checkpoints) /\ Len(op.checkpoints) \in 0..8
      /\ \A i \in 1..Len(op.checkpoints) : op.checkpoints[i] = i
      /\ op.checkpoints \in Seq(Checkpoints)
  BY <1>0, MarkedRange, Zenon DEF IInv, CheckpointsInOrder
<1>2. /\ runners' = [runners EXCEPT ![r] = n]
      /\ UNCHANGED <<temporary, canonical, catalog, audit, outbox, faults>>
  BY DEF MarkCheckpoint, storageVars
<1>3. d \in Runner /\ d.done = m.done \cup {m.at} /\ d.pc = "mark"
      /\ d.key = k /\ d.request = m.request /\ d.store = m.store
      /\ d.at = m.at /\ d.existing = m.existing /\ d.blob = m.blob
  BY <1>0 DEF Runner
<1> HIDE DEF d
<1>4. /\ n \in Runner /\ n.pc # "idle" /\ n.key = k
      /\ n.request = m.request /\ n.store = m.store
      /\ n.done = m.done \cup {m.at}
      /\ n.existing = m.existing /\ n.blob = m.blob
      /\ n.pc \notin {"find", "fail", "returned"} =>
             1..(n.at - 1) \subseteq n.done
      /\ n.pc = "find" => 1 \in n.done
      /\ AtCheckpoint(n)
      /\ n.pc = "mark" => n.at # 6 /\ n.at # 8
      /\ n.pc = "returned" => n.blob # None /\ 8 \in n.done
  <2>1. CASE m.at = 1
    <3>1. n = [d EXCEPT !.pc = "find"]  BY <2>1
    <3> HIDE DEF n
    <3>2. /\ n \in Runner /\ n.pc = "find" /\ n.key = d.key
          /\ n.request = d.request /\ n.store = d.store /\ n.done = d.done
          /\ n.existing = d.existing /\ n.blob = d.blob
      BY <1>3, <3>1 DEF Runner, Steps
    <3>3. AtCheckpoint(n)
      BY <3>2 DEF AtCheckpoint
    <3>4. n.done = m.done \cup {m.at} /\ 1 \in n.done
      BY <1>3, <2>1, <3>2
    <3> QED  BY <1>3, <3>2, <3>3, <3>4
  <2>2. CASE m.at # 1
    <3> DEFINE i == m.at + 1
    <3>1. n = ContinueAt(d, i)  BY <2>2
    <3>2. i \in 2..9 /\ 1..(i - 1) \subseteq d.done
      BY <1>0, <1>3
    <3> HIDE DEF n, i
    <3>3. /\ n \in Runner /\ n.pc # "idle" /\ n.pc # "find"
          /\ n.key = d.key /\ n.request = d.request /\ n.store = d.store
          /\ n.done = d.done /\ n.existing = d.existing /\ n.blob = d.blob
          /\ n.pc \notin {"find", "fail", "returned"} =>
                 1..(n.at - 1) \subseteq n.done
          /\ AtCheckpoint(n)
          /\ n.pc = "mark" => n.at # 6 /\ n.at # 8
          /\ n.pc = "returned" => n.blob # None /\ 8 \in n.done
      BY <1>3, <3>1, <3>2, ContinueAtFacts
    <3> QED  BY <1>3, <3>3
  <2> QED  BY <2>1, <2>2
<1> HIDE DEF n
<1>5. /\ operations' \in [Keys -> Operation]
      /\ \A q \in Keys \ {k} : operations'[q] = operations[q]
      /\ operations'[k].request = op.request
      /\ operations'[k].result = op.result
      /\ Marked(k)' = Marked(k) \cup {m.at}
      /\ \A i \in 1..Len(operations'[k].checkpoints) :
             operations'[k].checkpoints[i] = i
  <2>1. CASE m.at \in Marked(k)
    <3>1. operations' = operations  BY <2>1 DEF MarkCheckpoint
    <3>2. Marked(k)' = Marked(k)  BY <3>1 DEF Marked
    <3>3. operations' \in [Keys -> Operation]  BY <3>1 DEF IInv, TypeOK
    <3> QED  BY <1>1, <2>1, <3>1, <3>2, <3>3
  <2>2. CASE m.at \notin Marked(k)
    <3> DEFINE cps == Append(op.checkpoints, m.at)
               a == [op EXCEPT !.checkpoints = cps]
               b == [a EXCEPT !.state = m.at]
    <3>1. Len(op.checkpoints) = m.at - 1
      <4> DEFINE L == Len(op.checkpoints)
      <4>1. L \in 0..8 /\ 1..(m.at - 1) \subseteq 1..L /\ m.at \notin 1..L
        BY <1>0, <1>1, <2>2
      <4> HIDE DEF L
      <4>2. m.at = 1 \/ m.at - 1 \in 1..(m.at - 1)
        BY <1>0
      <4>3. L = m.at - 1
        BY <1>0, <4>1, <4>2
      <4> QED  BY <4>3, Zenon DEF L
    <3>2. /\ cps \in Seq(Checkpoints) /\ Len(cps) = m.at
          /\ \A i \in 1..m.at : cps[i] = i
      <4> HIDE DEF op
      <4> QED  BY <1>0, <1>1, <3>1
    <3>3. operations' = [operations EXCEPT ![k] = b]
      BY <2>2, <1>0, Zenon DEF MarkCheckpoint, IInv, TypeOK, Operation
    <3> HIDE DEF cps
    <3>4. a \in Operation /\ a.checkpoints = cps /\ a.request = op.request
          /\ a.result = op.result
      BY <1>0, <3>2, SMTT(30) DEF Operation
    <3> HIDE DEF a
    <3>5. b \in Operation /\ b.checkpoints = cps /\ b.request = op.request
          /\ b.result = op.result
      BY <1>0, <3>4 DEF Operation
    <3> HIDE DEF b
    <3>6. /\ operations' \in [Keys -> Operation] /\ operations'[k] = b
          /\ \A q \in Keys \ {k} : operations'[q] = operations[q]
      BY <1>0, <3>3, <3>5 DEF IInv, TypeOK
    <3>7. Marked(k)' = 1..m.at
      <4>1. Marked(k)' = {cps[i] : i \in 1..m.at}
        BY <3>2, <3>5, <3>6 DEF Marked
      <4> QED  BY <4>1, <3>2
    <3>8. Marked(k) \cup {m.at} = 1..m.at
      BY <1>0, <1>1, <3>1
    <3> QED  BY <3>2, <3>5, <3>6, <3>7, <3>8
  <2> QED  BY <2>1, <2>2, Zenon
<1>6. TypeOK'
  BY <1>2, <1>4, <1>5, Zenon DEF IInv, TypeOK
<1>7. /\ \A q \in Keys : Recorded(q)' = Recorded(q)
      /\ \A id, c : BlobKnown(id, c)' <=> BlobKnown(id, c)
  BY <1>2, SMTT(30) DEF Recorded, EventsOf, BlobKnown
<1>8. OperationInv(k)'
  <2>1. m.at = 6 => Recorded(k)  BY <1>0, Zenon DEF RunnerInv
  <2>2. m.at = 8 => op.result # None  BY <1>0 DEF RunnerInv
  <2>3. op.request # None  BY <1>0, IngestAssumption, SMTT(30)
  <2> QED  BY <1>0, <1>5, <1>7, <2>1, <2>2, <2>3, Zenon DEF OperationInv
<1>9. RunnerInv(runners[r])'
  <2>1. runners'[r] = n  BY <1>2, SMTT(30) DEF IInv, TypeOK
  <2>2. n.done \subseteq Marked(k)'  BY <1>0, <1>4, <1>5, SMTT(30)
  <2> QED  BY <1>0, <1>4, <1>5, <1>7, <2>1, <2>2 DEF RunnerInv
<1> QED
  <2>1. \A q \in Runners \ {r} : runners'[q] = runners[q]
    BY <1>2 DEF IInv, TypeOK
  <2> QED
    BY <1>0, <1>2, <1>5, <1>6, <1>8, <1>9, <2>1, OperationStep

(* findByHash gives the runner the catalogue's row for its bytes.          *)
LEMMA FindByHashKeeps ==
    ASSUME IInv, NEW r \in Runners, FindByHash(r)
    PROVE  IInv'
<1> PICK m \in Runner : m = runners[r]
  BY DEF IInv, TypeOK
<1>0. /\ m.pc = "find" /\ m.key \in Keys /\ m.request \in Contents
      /\ RunnerInv(m) /\ 1 \in m.done
  BY DEF IInv, FindByHash, RunnerInv
<1> PICK row \in Blob \cup {None} : row = catalog[m.request]
  BY <1>0 DEF IInv, TypeOK
<1> DEFINE a == [m EXCEPT !.existing = row]
           b == [a EXCEPT !.blob = row]
           c == [b EXCEPT !.deduplicated = TRUE]
           d == IF row = None THEN m ELSE c
           n == ContinueAt(d, 2)
<1>1. /\ runners' = [runners EXCEPT ![r] = n]
      /\ UNCHANGED dbVars /\ UNCHANGED <<temporary, canonical, faults>>
  BY Zenon DEF FindByHash, storageVars
<1>2. /\ d \in Runner /\ d.pc = "find" /\ d.key = m.key
      /\ d.request = m.request /\ d.store = m.store /\ d.done = m.done
      /\ d.existing # None => BlobKnown(d.existing.id, m.request)
      /\ d.blob # None => BlobKnown(d.blob.id, m.request)
  <2>1. CASE row = None
    BY <1>0, <2>1 DEF RunnerInv
  <2>2. CASE row # None
    <3>1. a \in Runner /\ a.existing = row
      BY DEF Runner
    <3>2. b \in Runner /\ b.existing = row /\ b.blob = row
      <4> HIDE DEF a
      <4> QED  BY <3>1 DEF Runner
    <3>3. /\ c \in Runner /\ c.existing = row /\ c.blob = row
      <4> HIDE DEF b
      <4> QED  BY <3>2, Zenon DEF Runner
    <3>4. /\ c.pc = "find" /\ c.key = m.key /\ c.request = m.request
          /\ c.store = m.store /\ c.done = m.done
      BY <1>0 DEF Runner
    <3>5. BlobKnown(row.id, m.request)
      BY <1>0, <2>2 DEF BlobKnown
    <3> HIDE DEF c
    <3> QED  BY <2>2, <3>3, <3>4, <3>5
  <2> QED  BY <2>1, <2>2
<1> HIDE DEF d
<1>3. 1..(2 - 1) \subseteq d.done
  BY <1>0, <1>2
<1>4. /\ n \in Runner /\ n.pc # "idle" /\ n.pc # "find"
      /\ n.key = d.key /\ n.request = d.request /\ n.store = d.store
      /\ n.done = d.done /\ n.existing = d.existing /\ n.blob = d.blob
      /\ n.pc \notin {"find", "fail", "returned"} =>
             1..(n.at - 1) \subseteq n.done
      /\ AtCheckpoint(n)
      /\ n.pc = "mark" => n.at # 6 /\ n.at # 8
      /\ n.pc = "returned" => n.blob # None /\ 8 \in n.done
  <2> DEFINE i == 2
  <2>1. n = ContinueAt(d, i) /\ i \in 2..9 /\ 1..(i - 1) \subseteq d.done
    BY <1>3
  <2> HIDE DEF n, i
  <2> QED  BY <1>2, <2>1, ContinueAtFacts
<1> HIDE DEF n
<1>5. TypeOK'
  BY <1>1, <1>4 DEF IInv, TypeOK, dbVars
<1>6. RunnerInv(runners[r])'
  <2>1. runners'[r] = n  BY <1>1, Zenon DEF IInv, TypeOK
  <2>2. RunnerInv(n)
    BY <1>0, <1>2, <1>4, Zenon DEF RunnerInv
  <2>3. RunnerInv(n)'
    BY <2>2, <1>1 DEF RunnerInv, dbVars, Marked, Recorded, EventsOf, BlobKnown
  <2> QED  BY <2>1, <2>3 DEF RunnerInv
<1> QED
  <2>1. \A q \in Runners \ {r} : runners'[q] = runners[q]
    BY <1>1 DEF IInv, TypeOK
  <2> QED  BY <1>1, <1>5, <1>6, <2>1, LocalStep

(* A step that only moves runner r to the call p, inside the effect of the *)
(* same checkpoint, to its marking, or to the catch block.                 *)
LEMMA PcStep ==
    ASSUME IInv, NEW r \in Runners, NEW p \in Steps,
           runners[r].pc \notin {"idle", "find", "fail", "returned"},
           p \notin {"idle", "find", "returned"},
           runners' = [runners EXCEPT ![r].pc = p],
           UNCHANGED dbVars, temporary' \in SUBSET (Stores \X Keys),
           canonical' \in SUBSET (Stores \X Contents),
           faults' \in 0..MaxFaults,
           AtCheckpoint(runners'[r]),
           p = "mark" => runners[r].at # 6 /\ runners[r].at # 8
    PROVE  IInv'
<1> PICK m \in Runner : m = runners[r]
  BY DEF IInv, TypeOK
<1> DEFINE n == [m EXCEPT !.pc = p]
<1>1. /\ n \in Runner /\ n.pc = p /\ n.key = m.key /\ n.store = m.store
      /\ n.request = m.request /\ n.done = m.done /\ n.at = m.at
      /\ n.existing = m.existing /\ n.blob = m.blob
  BY DEF Runner
<1>2. runners' = [runners EXCEPT ![r] = n] /\ runners'[r] = n
  BY DEF IInv, TypeOK
<1> HIDE DEF n
<1>3. TypeOK'
  BY <1>1, <1>2, Zenon DEF IInv, TypeOK, dbVars
<1>4. RunnerInv(runners[r])'
  <2>1. RunnerInv(m)  BY DEF IInv
  <2>2. RunnerInv(n)
    BY <1>1, <1>2, <2>1 DEF RunnerInv
  <2>3. RunnerInv(n)'
    BY <2>2, Zenon DEF RunnerInv, dbVars, Marked, Recorded, EventsOf, BlobKnown
  <2> QED  BY <1>2, <2>3, Zenon DEF RunnerInv
<1> QED
  <2>1. \A q \in Runners \ {r} : runners'[q] = runners[q]
    BY <1>2 DEF IInv, TypeOK
  <2> QED  BY <1>3, <1>4, <2>1, LocalStep

(* The calls to the object storage leave the database alone.               *)
LEMMA StorageStepKeeps ==
    ASSUME IInv, NEW r \in Runners,
           \/ WriteTemporary(r) \/ InspectTemporary(r) \/ VerifyCommitted(r)
           \/ InspectCanonical(r) \/ CopyObject(r) \/ DeleteTemporary(r)
    PROVE  IInv'
<1> PICK m \in Runner : m = runners[r]
  BY DEF IInv, TypeOK
<1> DEFINE Calls == {"mark", "verifyCommitted", "inspectCanonical", "copy",
                     "deleteTemporary", "saveCommitted", "fail"}
<1>1. /\ m.pc \in {"writeTemporary", "inspectTemporary", "verifyCommitted",
                    "inspectCanonical", "copy", "deleteTemporary"}
      /\ RunnerInv(m)
  BY Zenon DEF IInv, WriteTemporary, InspectTemporary, VerifyCommitted,
         InspectCanonical, CopyObject, DeleteTemporary
<1>2. m.key \in Keys /\ m.request \in Contents /\ m.store \in Stores
  BY <1>1 DEF RunnerInv
<1>3. \E p \in Calls :
          /\ runners' = [runners EXCEPT ![r].pc = p]
          /\ p = "mark" => m.pc = "writeTemporary"
          /\ p \notin {"mark", "fail"} => m.pc # "writeTemporary"
  BY DEF WriteTemporary, InspectTemporary, VerifyCommitted,
         InspectCanonical, CopyObject, DeleteTemporary
<1>4. UNCHANGED dbVars /\ UNCHANGED faults
  BY DEF WriteTemporary, InspectTemporary, VerifyCommitted,
         InspectCanonical, CopyObject, DeleteTemporary
<1>5. /\ temporary' \in SUBSET (Stores \X Keys)
      /\ canonical' \in SUBSET (Stores \X Contents)
  <2>1. /\ temporary \in SUBSET (Stores \X Keys)
        /\ canonical \in SUBSET (Stores \X Contents)
    BY DEF IInv, TypeOK
  <2> QED
    BY <1>2, <2>1 DEF WriteTemporary, InspectTemporary, VerifyCommitted,
       InspectCanonical, CopyObject, DeleteTemporary, storageVars
<1>6. PICK p \in Calls :
          /\ runners' = [runners EXCEPT ![r].pc = p]
          /\ p = "mark" => m.pc = "writeTemporary"
          /\ p \notin {"mark", "fail"} => m.pc # "writeTemporary"
  BY <1>3, Zenon
<1>7. runners'[r] = [m EXCEPT !.pc = p]
  BY <1>6 DEF IInv, TypeOK
<1>8. /\ runners'[r].pc = p /\ runners'[r].at = m.at
      /\ runners'[r].blob = m.blob
  BY <1>7 DEF Runner
<1>9. AtCheckpoint(runners'[r]) /\ (p = "mark" => m.at # 6 /\ m.at # 8)
  <2>1. AtCheckpoint(m)  BY <1>1 DEF RunnerInv
  <2> QED  BY <1>1, <1>6, <1>8, <2>1 DEF AtCheckpoint
<1>10. p \in Steps /\ p \notin {"idle", "find", "returned"}
  BY DEF Steps
<1>11. faults' \in 0..MaxFaults
  BY <1>4 DEF IInv, TypeOK
<1> QED
  BY <1>1, <1>4, <1>5, <1>6, <1>9, <1>10, <1>11, PcStep, Zenon

(* An error takes a runner to its catch block.                             *)
LEMMA FaultKeeps ==
    ASSUME IInv, NEW r \in Runners, Fault(r)
    PROVE  IInv'
<1>1. /\ temporary' \in SUBSET (Stores \X Keys)
      /\ canonical' \in SUBSET (Stores \X Contents)
  BY DEF IInv, TypeOK, Fault, storageVars
<1>2. faults' \in 0..MaxFaults
  BY IngestAssumption DEF IInv, TypeOK, Fault
<1> PICK m \in Runner : m = runners[r]
  BY DEF IInv, TypeOK
<1>3. runners'[r] = [m EXCEPT !.pc = "fail"]
  BY DEF IInv, TypeOK, Fault
<1>4. CASE m.pc = "find"
  <2> DEFINE n == [m EXCEPT !.pc = "fail"]
  <2>1. /\ n \in Runner /\ n.pc = "fail" /\ n.key = m.key
        /\ n.store = m.store /\ n.request = m.request /\ n.done = m.done
        /\ n.existing = m.existing /\ n.blob = m.blob
    BY DEF Runner, Steps
  <2>2. runners' = [runners EXCEPT ![r] = n] /\ UNCHANGED dbVars
    BY DEF IInv, TypeOK, Fault
  <2> HIDE DEF n
  <2>3. TypeOK'
    BY <1>1, <1>2, <2>1, <2>2, SMTT(30) DEF IInv, TypeOK, dbVars
  <2>4. RunnerInv(n)
    BY <1>4, <2>1, Zenon DEF IInv, RunnerInv, AtCheckpoint
  <2>5. RunnerInv(n)'
    BY <2>2, <2>4, SMTT(30) DEF RunnerInv, dbVars, Marked, Recorded, EventsOf, BlobKnown
  <2>6. RunnerInv(runners[r])' /\ \A q \in Runners \ {r} :
                                     runners'[q] = runners[q]
    BY <2>2, <2>5, Zenon DEF IInv, TypeOK, RunnerInv
  <2> QED  BY <2>2, <2>3, <2>6, LocalStep
<1>5. CASE m.pc # "find"
  <2>1. runners'[r].pc = "fail"
    BY <1>3, Zenon DEF Runner
  <2>2. AtCheckpoint(runners'[r])
    BY <2>1 DEF AtCheckpoint
  <2>3. "fail" \in Steps
    BY DEF Steps
  <2> QED  BY <1>1, <1>2, <1>5, <2>2, <2>3, PcStep, Zenon DEF Fault
<1> QED  BY <1>4, <1>5

(* A lost process forgets its call and nothing else.                       *)
LEMMA CrashKeeps ==
    ASSUME IInv, NEW r \in Runners, Crash(r)
    PROVE  IInv'
<1>1. TypeOK'
  <2>1. Idle \in Runner
    BY DEF Idle, Runner, Steps
  <2>2. faults' \in 0..MaxFaults
    BY IngestAssumption, SMTT(30) DEF IInv, TypeOK, Crash
  <2> QED  BY <2>1, <2>2 DEF IInv, TypeOK, Crash, dbVars, storageVars
<1>2. RunnerInv(runners[r])' /\ \A q \in Runners \ {r} :
                                    runners'[q] = runners[q]
  BY Zenon DEF IInv, TypeOK, Crash, RunnerInv, Idle
<1> QED  BY <1>1, <1>2, LocalStep DEF Crash

-----------------------------------------------------------------------------
(***************************************************************************)
(* The remaining actions keep the invariant.                               *)
(***************************************************************************)
(* An update of the row of r's key that keeps its request and checkpoints. *)
LEMMA RowUpdate ==
    ASSUME IInv, NEW r \in Runners, NEW k \in Keys, NEW new \in Operation,
           NEW n \in Runner, k = runners[r].key,
           operations' = [operations EXCEPT ![k] = new],
           new.request = operations[k].request, new.request \in Contents,
           new.checkpoints = operations[k].checkpoints,
           operations[k].result # None => new.result # None,
           new.result # None => BlobKnown(new.result.blob.id, new.request),
           runners' = [runners EXCEPT ![r] = n],
           UNCHANGED <<storageVars, catalog, audit, outbox, faults>>,
           RunnerInv(n)'
    PROVE  IInv'
<1>1. TypeOK'
  BY DEF IInv, TypeOK, storageVars
<1>2. /\ operations'[k] = new
      /\ \A q \in Keys \ {k} : operations'[q] = operations[q]
      /\ runners'[r] = n
      /\ \A q \in Runners \ {r} : runners'[q] = runners[q]
  BY Zenon DEF IInv, TypeOK
<1>3. Marked(k)' = Marked(k)
  BY <1>2 DEF Marked
<1>4. \A i \in 1..Len(new.checkpoints) : new.checkpoints[i] = i
  BY Zenon DEF IInv, CheckpointsInOrder
<1>5. OperationInv(k)'
  <2>1. Recorded(k)' = Recorded(k)
    BY Zenon DEF Recorded, EventsOf
  <2>2. new.result # None => BlobKnown(new.result.blob.id, new.request)'
    BY DEF BlobKnown
  <2>3. new.request # None
    BY IngestAssumption, Zenon
  <2>4. /\ 6 \in Marked(k) => Recorded(k)
        /\ 8 \in Marked(k) => operations[k].result # None
    BY Zenon DEF IInv, OperationInv
  <2> QED  BY <1>2, <1>3, <2>1, <2>2, <2>3, <2>4, Zenon DEF OperationInv
<1>6. RunnerInv(runners[r])'
  BY <1>2 DEF RunnerInv
<1> QED  BY <1>1, <1>2, <1>3, <1>4, <1>5, <1>6, OperationStep

(* saveContext overwrites context and state, never checkpoints or result.  *)
LEMMA SaveContextKeeps ==
    ASSUME IInv, NEW r \in Runners,
           SaveTemporary(r) \/ SaveHash(r) \/ SaveCommitted(r)
    PROVE  IInv'
<1> PICK m \in Runner : m = runners[r]
  BY DEF IInv, TypeOK
<1>1. PICK context \in SUBSET ContextKeys :
          /\ m.pc \in {"saveTemporary", "saveHash", "saveCommitted"}
          /\ operations' = [operations EXCEPT ![m.key].context = context,
                                              ![m.key].state = m.at]
          /\ runners' = [runners EXCEPT ![r].context = context,
                                        ![r].pc = "mark"]
          /\ UNCHANGED <<storageVars, catalog, audit, outbox, faults>>
  <2>1. m.context \in SUBSET ContextKeys
    BY DEF Runner
  <2>2. /\ m.context \cup {"temporaryKey"} \in SUBSET ContextKeys
        /\ m.context \cup {} \in SUBSET ContextKeys
        /\ m.context \cup {"storageKey"} \in SUBSET ContextKeys
    BY <2>1, Zenon DEF ContextKeys
  <2> QED
    BY <2>2, Zenon DEF SaveTemporary, SaveHash, SaveCommitted, SaveContext
<1>2. /\ m.key \in Keys /\ m.request \in Contents /\ m.at \in 2..5
      /\ operations[m.key].request = m.request /\ RunnerInv(m)
  BY <1>1 DEF IInv, RunnerInv, AtCheckpoint
<1> PICK k \in Keys : k = m.key
  BY <1>2
<1> PICK op \in Operation : op = operations[k]
  BY DEF IInv, TypeOK
<1> DEFINE a == [op EXCEPT !.context = context]
           new == [a EXCEPT !.state = m.at]
           b == [m EXCEPT !.context = context]
           n == [b EXCEPT !.pc = "mark"]
<1>3. a \in Operation /\ a.request = op.request /\ a.result = op.result
      /\ a.checkpoints = op.checkpoints
  BY Zenon DEF Operation
<1>4. new \in Operation /\ new.request = op.request
      /\ new.result = op.result /\ new.checkpoints = op.checkpoints
  <2> HIDE DEF a
  <2> QED  BY <1>2, <1>3 DEF Operation
<1>5. /\ b \in Runner /\ b.key = m.key /\ b.store = m.store
      /\ b.request = m.request /\ b.done = m.done /\ b.at = m.at
      /\ b.existing = m.existing /\ b.blob = m.blob
  BY DEF Runner
<1>6. /\ n \in Runner /\ n.pc = "mark" /\ n.key = m.key
      /\ n.store = m.store /\ n.request = m.request /\ n.done = m.done
      /\ n.at = m.at /\ n.existing = m.existing /\ n.blob = m.blob
  <2> HIDE DEF b
  <2> QED  BY <1>5 DEF Runner, Steps
<1>7. /\ operations' = [operations EXCEPT ![k] = new]
      /\ runners' = [runners EXCEPT ![r] = n]
  BY <1>1, <1>2, Zenon DEF IInv, TypeOK
<1> HIDE DEF new, n
<1>8. RunnerInv(n)
  BY <1>1, <1>2, <1>6 DEF RunnerInv, AtCheckpoint
<1>9. RunnerInv(n)'
  <2>1. operations'[k].request = op.request
        /\ operations'[k].result = op.result /\ Marked(k)' = Marked(k)
    BY <1>4, <1>7 DEF IInv, TypeOK, Marked
  <2>2. /\ Recorded(k)' = Recorded(k)
        /\ \A id, c : BlobKnown(id, c)' <=> BlobKnown(id, c)
    BY <1>1 DEF Recorded, EventsOf, BlobKnown
  <2>3. n.key = k
    BY <1>6
  <2>4. AtCheckpoint(n)' <=> AtCheckpoint(n)
    BY Zenon DEF AtCheckpoint
  <2> QED  BY <1>8, <2>1, <2>2, <2>3, <2>4, Zenon DEF RunnerInv
<1>10. op.result # None => BlobKnown(op.result.blob.id, op.request)
  BY Zenon DEF IInv, OperationInv
<1>11. /\ k = runners[r].key /\ new.request = operations[k].request
       /\ new.request \in Contents
       /\ new.checkpoints = operations[k].checkpoints
       /\ operations[k].result # None => new.result # None
       /\ new.result # None => BlobKnown(new.result.blob.id, new.request)
  BY <1>2, <1>4, <1>10, Zenon
<1>12. new \in Operation /\ n \in Runner
  BY <1>4, <1>6
<1>13. UNCHANGED <<storageVars, catalog, audit, outbox, faults>>
  BY <1>1
<1> QED
  BY <1>7, <1>9, <1>11, <1>12, <1>13, RowUpdate, Zenon

(* complete stores a result that names the catalogue's blob.               *)
LEMMA CompleteKeeps ==
    ASSUME IInv, NEW r \in Runners, Complete(r)
    PROVE  IInv'
<1> PICK m \in Runner : m = runners[r]
  BY DEF IInv, TypeOK
<1>1. /\ m.pc = "complete" /\ m.key \in Keys /\ m.request \in Contents
      /\ operations[m.key].request = m.request /\ RunnerInv(m)
      /\ m.at = 8 /\ m.blob \in Blob /\ BlobKnown(m.blob.id, m.request)
  BY Zenon DEF IInv, Complete, RunnerInv, AtCheckpoint, Runner
<1> PICK k \in Keys : k = m.key
  BY <1>1
<1> PICK op \in Operation : op = operations[k]
  BY Zenon DEF IInv, TypeOK
<1> DEFINE res == [blob |-> m.blob, deduplicated |-> m.deduplicated]
           a == [op EXCEPT !.state = 8]
           new == [a EXCEPT !.result = res]
           n == [m EXCEPT !.pc = "mark"]
<1>2. res \in IngestResult /\ res.blob = m.blob /\ res # None
  BY <1>1, IngestAssumption DEF IngestResult, Runner
<1>3. a \in Operation /\ a.request = op.request
      /\ a.checkpoints = op.checkpoints
  BY DEF Operation
<1>4. new \in Operation /\ new.request = op.request /\ new.result = res
      /\ new.checkpoints = op.checkpoints
  <2> HIDE DEF a, res
  <2> QED  BY <1>2, <1>3, Zenon DEF Operation
<1>5. /\ n \in Runner /\ n.pc = "mark" /\ n.key = m.key
      /\ n.store = m.store /\ n.request = m.request /\ n.done = m.done
      /\ n.at = m.at /\ n.existing = m.existing /\ n.blob = m.blob
  BY DEF Runner, Steps
<1>6. /\ operations' = [operations EXCEPT ![k] = new]
      /\ runners' = [runners EXCEPT ![r] = n]
      /\ UNCHANGED <<storageVars, catalog, audit, outbox, faults>>
  BY <1>1, Zenon DEF IInv, TypeOK, Complete
<1> HIDE DEF new, n, res
<1>7. RunnerInv(n)'
  <2>1. operations'[k].request = op.request
        /\ operations'[k].result # None /\ Marked(k)' = Marked(k)
    BY <1>2, <1>4, <1>6 DEF IInv, TypeOK, Marked
  <2>2. \A id, c : BlobKnown(id, c)' <=> BlobKnown(id, c)
    BY <1>6, Zenon DEF BlobKnown
  <2>3. /\ m.done \subseteq Marked(k) /\ 1..(m.at - 1) \subseteq m.done
        /\ m.store \in Stores
        /\ m.existing # None => BlobKnown(m.existing.id, m.request)
    BY <1>1, Zenon DEF RunnerInv
  <2>4. /\ n.pc = "mark" /\ n.key = k /\ n.request \in Contents
        /\ n.store \in Stores /\ operations'[k].request = n.request
        /\ n.done \subseteq Marked(k)' /\ 1..(n.at - 1) \subseteq n.done
        /\ n.at = 8
        /\ n.existing # None => BlobKnown(n.existing.id, n.request)'
        /\ n.blob # None => BlobKnown(n.blob.id, n.request)'
    BY <1>1, <1>5, <2>1, <2>2, <2>3, Zenon
  <2> QED  BY <2>1, <2>4, MarkingRunner
<1>8. /\ k = runners[r].key /\ new.request = operations[k].request
      /\ new.request \in Contents
      /\ new.checkpoints = operations[k].checkpoints
      /\ operations[k].result # None => new.result # None
      /\ new.result # None => BlobKnown(new.result.blob.id, new.request)
  BY <1>1, <1>2, <1>4
<1>9. new \in Operation /\ n \in Runner
  BY <1>4, <1>5
<1> QED  BY <1>6, <1>7, <1>8, <1>9, RowUpdate, Zenon

(* fail changes the state of an operation only.                            *)
LEMMA FailKeeps ==
    ASSUME IInv, NEW r \in Runners, Fail(r)
    PROVE  IInv'
<1> PICK m \in Runner : m = runners[r]
  BY DEF IInv, TypeOK
<1>1. /\ m.pc = "fail" /\ m.key \in Keys /\ m.request \in Contents
      /\ operations[m.key].request = m.request
  BY DEF IInv, Fail, RunnerInv
<1> PICK k \in Keys : k = m.key
  BY <1>1
<1> PICK op \in Operation : op = operations[k]
  BY DEF IInv, TypeOK
<1> DEFINE new == IF op.state = 8 THEN op ELSE [op EXCEPT !.state = -1]
<1>2. new \in Operation /\ new.request = op.request
      /\ new.result = op.result /\ new.checkpoints = op.checkpoints
  BY DEF Operation
<1>3. operations' = [operations EXCEPT ![k] = new]
  BY <1>1, Zenon DEF IInv, TypeOK, Fail
<1>4. /\ runners' = [runners EXCEPT ![r] = Idle]
      /\ UNCHANGED <<storageVars, catalog, audit, outbox, faults>>
  BY Zenon DEF Fail
<1>5. Idle \in Runner /\ RunnerInv(Idle)'
  <2>1. Idle \in Runner /\ Idle.pc = "idle"
    BY DEF Idle, Runner, Steps
  <2> QED  BY <2>1, Zenon DEF RunnerInv
<1> HIDE DEF new
<1>6. op.result # None => BlobKnown(op.result.blob.id, op.request)
  BY Zenon DEF IInv, OperationInv
<1>7. /\ k = runners[r].key /\ new.request = operations[k].request
      /\ new.request \in Contents
      /\ new.checkpoints = operations[k].checkpoints
      /\ operations[k].result # None => new.result # None
      /\ new.result # None => BlobKnown(new.result.blob.id, new.request)
  BY <1>1, <1>2, <1>6, Zenon
<1> QED  BY <1>2, <1>3, <1>4, <1>5, <1>7, RowUpdate, Zenon

OneEach(events) ==
    \A i, j \in 1..Len(events) :
        events[i].operation = events[j].operation => i = j

Inserted(events, new, k, id) ==
    /\ new \in Seq(IngestEvent)
    /\ EventsOf(new, k) # {}
    /\ \A q : EventsOf(events, q) # {} => EventsOf(new, q) # {}
    /\ OneEach(new)
    /\ \A i \in 1..Len(new) :
           \/ i \in 1..Len(events) /\ new[i] = events[i]
           \/ new[i].operation = k /\ new[i].blobId = id


(* Inserting an event once: the operation has an event afterwards, no      *)
(* event is lost, and one operation still has one.                         *)
LEMMA InsertOnceFacts ==
    ASSUME NEW events \in Seq(IngestEvent), NEW k \in Keys,
           NEW id \in Keys \X Runners, NEW new, new = InsertOnce(events, k, id),
           OneEach(events)
    PROVE  Inserted(events, new, k, id)
<1> USE DEF OneEach, Inserted
<1>1. CASE \E i \in 1..Len(events) : events[i].operation = k
  <2>1. new = events  BY <1>1, Zenon DEF InsertOnce
  <2> QED  BY <1>1, <2>1 DEF EventsOf
<1>2. CASE ~ \E i \in 1..Len(events) : events[i].operation = k
  <2> DEFINE e == [operation |-> k, blobId |-> id]
  <2>1. e \in IngestEvent /\ e.operation = k /\ e.blobId = id
    BY DEF IngestEvent
  <2>2. new = Append(events, e)
    BY <1>2 DEF InsertOnce
  <2> HIDE DEF e
  <2>3. /\ new \in Seq(IngestEvent) /\ Len(new) = Len(events) + 1
        /\ \A i \in 1..Len(events) : new[i] = events[i]
        /\ new[Len(events) + 1] = e /\ Len(events) \in Nat
    BY <2>1, <2>2
  <2>4. \A i \in 1..Len(new) :
            i \in 1..Len(events) \/ i = Len(events) + 1
    BY <2>3
  <2>5. EventsOf(new, k) # {}
    BY <2>1, <2>3 DEF EventsOf
  <2>6. \A q : EventsOf(events, q) # {} => EventsOf(new, q) # {}
    BY <2>3 DEF EventsOf
  <2>7. \A i, j \in 1..Len(new) :
            new[i].operation = new[j].operation => i = j
    <3> SUFFICES ASSUME NEW i \in 1..Len(new), NEW j \in 1..Len(new),
                        new[i].operation = new[j].operation
                 PROVE  i = j
      OBVIOUS
    <3>1. \A h \in 1..Len(events) : new[h].operation # k
      BY <1>2, <2>3
    <3>2. CASE i \in 1..Len(events)
      BY <2>1, <2>3, <2>4, <3>1, <3>2
    <3>3. CASE i = Len(events) + 1
      BY <2>1, <2>3, <2>4, <3>1, <3>3, Zenon
    <3> QED  BY <2>4, <3>2, <3>3
  <2> QED  BY <2>1, <2>3, <2>4, <2>5, <2>6, <2>7
<1> QED  BY <1>1, <1>2, Zenon

(* commitVerifiedIngest records the operation's two events with the id of  *)
(* the catalogue's row.                                                    *)
LEMMA CommitMetadataKeeps ==
    ASSUME IInv, NEW r \in Runners, CommitMetadata(r)
    PROVE  IInv'
<1>0. runners \in [Runners -> Runner]
  BY DEF IInv, TypeOK
<1> PICK m \in Runner : m = runners[r]
  BY <1>0, SMTT(30)
<1>1. /\ m.pc = "commitMetadata" /\ m.key \in Keys /\ m.request \in Contents
      /\ operations[m.key].request = m.request /\ RunnerInv(m)
      /\ m.at = 6 /\ m.store \in Stores
  BY Zenon DEF IInv, CommitMetadata, RunnerInv, AtCheckpoint
<1> PICK k \in Keys : k = m.key
  BY <1>1
<1> PICK c \in Contents : c = m.request
  BY <1>1
<1> PICK old \in Blob \cup {None} : old = catalog[c]
  BY Zenon DEF IInv, TypeOK
<1> DEFINE candidate == IF m.existing # None THEN m.existing
                        ELSE [id |-> <<m.key, r>>, store |-> m.store]
           row == RecordBlob(old, candidate)
           n == [[m EXCEPT !.blob = row] EXCEPT !.pc = "mark"]
<1>2. candidate \in Blob
  BY <1>1 DEF Blob, Runner
<1> HIDE DEF candidate
<1>3. row \in Blob /\ (old # None => row.id = old.id)
  BY <1>2 DEF RecordBlob, Blob
<1>4. /\ catalog' = [catalog EXCEPT ![c] = row]
      /\ audit' = InsertOnce(audit, k, row.id)
      /\ outbox' = InsertOnce(outbox, k, row.id)
      /\ runners' = [runners EXCEPT ![r] = n]
      /\ UNCHANGED <<operations, temporary, canonical, faults>>
  BY Zenon DEF CommitMetadata, IInv, TypeOK, candidate, storageVars
<1> HIDE DEF row
<1>5. /\ n \in Runner /\ n.pc = "mark" /\ n.key = m.key
      /\ n.store = m.store /\ n.request = m.request /\ n.done = m.done
      /\ n.at = m.at /\ n.existing = m.existing /\ n.blob = row
  <2> DEFINE b == [m EXCEPT !.blob = row]
  <2>1. /\ b \in Runner /\ b.key = m.key /\ b.store = m.store
        /\ b.request = m.request /\ b.done = m.done /\ b.at = m.at
        /\ b.existing = m.existing /\ b.blob = row
    BY <1>3 DEF Runner
  <2>2. n = [b EXCEPT !.pc = "mark"]
    BY Zenon
  <2> HIDE DEF b, n
  <2> QED  BY <2>1, <2>2 DEF Runner, Steps
<1> HIDE DEF n
<1>6. /\ audit' \in Seq(IngestEvent) /\ outbox' \in Seq(IngestEvent)
      /\ Recorded(k)'
      /\ \A q \in Keys : Recorded(q) => Recorded(q)'
      /\ OneEach(audit') /\ OneEach(outbox')
      /\ \A i \in 1..Len(audit') :
             \/ i \in 1..Len(audit) /\ audit'[i] = audit[i]
             \/ audit'[i].operation = k /\ audit'[i].blobId = row.id
      /\ \A i \in 1..Len(outbox') :
             \/ i \in 1..Len(outbox) /\ outbox'[i] = outbox[i]
             \/ outbox'[i].operation = k /\ outbox'[i].blobId = row.id
  <2>1. row.id \in Keys \X Runners
    BY <1>3 DEF Blob
  <2>2. audit \in Seq(IngestEvent) /\ outbox \in Seq(IngestEvent)
    BY DEF IInv, TypeOK
  <2>3. OneEach(audit) /\ OneEach(outbox)
    BY DEF IInv, EventsInv, OneEach
  <2> DEFINE id == row.id
             A == InsertOnce(audit, k, id)
             O == InsertOnce(outbox, k, id)
  <2>4. audit' = A /\ outbox' = O
    BY <1>4, Zenon
  <2>5. id \in Keys \X Runners /\ A = InsertOnce(audit, k, id)
        /\ O = InsertOnce(outbox, k, id) /\ id = row.id
    BY <2>1, Zenon
  <2> HIDE DEF id, A, O
  <2>6. Inserted(audit, A, k, id)
    BY <2>2, <2>3, <2>5, InsertOnceFacts, Zenon
  <2>7. Inserted(outbox, O, k, id)
    BY <2>2, <2>3, <2>5, InsertOnceFacts, Zenon
  <2>8. Recorded(k)' /\ \A q \in Keys : Recorded(q) => Recorded(q)'
    BY <2>4, <2>6, <2>7, Zenon DEF Recorded, Inserted
  <2>9. /\ audit' \in Seq(IngestEvent) /\ OneEach(audit')
        /\ \A i \in 1..Len(audit') :
               \/ i \in 1..Len(audit) /\ audit'[i] = audit[i]
               \/ audit'[i].operation = k /\ audit'[i].blobId = id
    BY <2>4, <2>6, Zenon DEF Inserted
  <2>10. /\ outbox' \in Seq(IngestEvent) /\ OneEach(outbox')
         /\ \A i \in 1..Len(outbox') :
                \/ i \in 1..Len(outbox) /\ outbox'[i] = outbox[i]
                \/ outbox'[i].operation = k /\ outbox'[i].blobId = id
    BY <2>4, <2>7, Zenon DEF Inserted
  <2> QED  BY <2>5, <2>8, <2>9, <2>10
<1>7. TypeOK'
  BY <1>3, <1>4, <1>5, <1>6, Zenon DEF IInv, TypeOK
<1>8. /\ catalog'[c] = row /\ row # None
      /\ \A d \in Contents \ {c} : catalog'[d] = catalog[d]
  BY <1>3, <1>4, IngestAssumption, Zenon DEF IInv, TypeOK
<1>9. \A id, d : BlobKnown(id, d) => BlobKnown(id, d)'
  BY <1>3, <1>8 DEF BlobKnown
<1>10. BlobKnown(row.id, c)'
  BY <1>8, Zenon DEF BlobKnown
<1>11. \A q \in Keys : Marked(q)' = Marked(q)
  BY <1>4, Zenon DEF Marked
<1>12. Grows
  BY <1>3, <1>4, <1>6, <1>8, <1>11 DEF Grows
<1>13. CheckpointsInOrder' /\ \A q \in Keys : OperationInv(q)'
  <2>1. CheckpointsInOrder'
    BY <1>4, Zenon DEF IInv, CheckpointsInOrder
  <2>2. ASSUME NEW q \in Keys PROVE OperationInv(q)'
    <3>1. OperationInv(q) /\ operations'[q] = operations[q]
      BY <1>4, Zenon DEF IInv
    <3>2. Marked(q)' = Marked(q) /\ (Recorded(q) => Recorded(q)')
      BY <1>6, <1>11, Zenon
    <3>3. operations[q].result # None
          => BlobKnown(operations[q].result.blob.id, operations[q].request)'
      BY <1>9, <3>1, Zenon DEF OperationInv
    <3> QED  BY <3>1, <3>2, <3>3, Zenon DEF OperationInv
  <2> QED  BY <2>1, <2>2, Zenon
<1>14. EventsInv(audit)' /\ EventsInv(outbox)'
  <2>1. EventsInv(audit) /\ EventsInv(outbox)
    BY Zenon DEF IInv
  <2>5. /\ \A i \in 1..Len(audit') :
               \/ i \in 1..Len(audit) /\ audit'[i] = audit[i]
               \/ audit'[i].operation = k /\ audit'[i].blobId = row.id
        /\ \A i \in 1..Len(outbox') :
               \/ i \in 1..Len(outbox) /\ outbox'[i] = outbox[i]
               \/ outbox'[i].operation = k /\ outbox'[i].blobId = row.id
        /\ OneEach(audit') /\ OneEach(outbox')
    BY <1>6, Zenon
  <2>2. operations'[k].request = c
    BY <1>1, <1>4, Zenon
  <2>3. ASSUME NEW i \in 1..Len(audit')
        PROVE  BlobKnown(audit[i].blobId,
                         operations[audit[i].operation].request)'
    <3>1. CASE i \in 1..Len(audit) /\ audit'[i] = audit[i]
      BY <1>4, <1>9, <2>1, <3>1, Zenon DEF EventsInv
    <3>2. CASE audit'[i].operation = k /\ audit'[i].blobId = row.id
      BY <1>10, <2>2, <3>2, Zenon
    <3> QED  BY <2>5, <3>1, <3>2, Zenon
  <2>4. ASSUME NEW i \in 1..Len(outbox')
        PROVE  BlobKnown(outbox[i].blobId,
                         operations[outbox[i].operation].request)'
    <3>1. CASE i \in 1..Len(outbox) /\ outbox'[i] = outbox[i]
      BY <1>4, <1>9, <2>1, <3>1, Zenon DEF EventsInv
    <3>2. CASE outbox'[i].operation = k /\ outbox'[i].blobId = row.id
      BY <1>10, <2>2, <3>2
    <3> QED  BY <2>5, <3>1, <3>2, Zenon
  <2> QED  BY <2>3, <2>4, <2>5, Zenon DEF EventsInv, OneEach
<1>15. RunnerInv(runners[r])'
  <2>1. runners'[r] = n
    BY <1>0, <1>4, Zenon
  <2>2. /\ m.done \subseteq Marked(k) /\ 1..(m.at - 1) \subseteq m.done
        /\ m.existing # None => BlobKnown(m.existing.id, m.request)
    BY <1>1, Zenon DEF RunnerInv
  <2>3. /\ n.pc = "mark" /\ n.key = k /\ n.request \in Contents
        /\ n.store \in Stores /\ operations'[k].request = n.request
        /\ n.done \subseteq Marked(k)' /\ 1..(n.at - 1) \subseteq n.done
        /\ n.at = 6
        /\ n.existing # None => BlobKnown(n.existing.id, n.request)'
        /\ n.blob # None => BlobKnown(n.blob.id, n.request)'
    BY <1>1, <1>4, <1>5, <1>9, <1>10, <1>11, <2>2, Zenon
  <2>4. Recorded(k)'
    BY <1>6, Zenon
  <2>6. n.at = 6 => Recorded(k)'
    BY <2>4
  <2>7. n.at = 8 => operations'[k].result # None
    BY <2>3
  <2>5. RunnerInv(n)'
    BY <2>3, <2>6, <2>7, MarkingRunner, Zenon
  <2> QED  BY <2>1, <2>5, Zenon DEF RunnerInv
<1> QED
  <2>1. \A q \in Runners \ {r} : runners'[q] = runners[q]
    BY <1>0, <1>4
  <2> QED  BY <1>7, <1>12, <1>13, <1>14, <1>15, <2>1, RunnerStep

-----------------------------------------------------------------------------
(***************************************************************************)
(* The theorems.                                                           *)
(***************************************************************************)
(* Every step keeps the inductive invariant.                               *)
LEMMA NextKeeps == IInv /\ [Next]_vars => IInv'
<1> SUFFICES ASSUME IInv, [Next]_vars PROVE IInv'
  BY Zenon
<1>1. CASE UNCHANGED vars
  <2>1. TypeOK' /\ CheckpointsInOrder'
    BY <1>1, Zenon DEF vars, IInv, TypeOK, CheckpointsInOrder
  <2>2. \A k \in Keys : OperationInv(k)'
    BY <1>1, SMTT(30) DEF vars, IInv, OperationInv, Marked, Recorded, EventsOf, BlobKnown
  <2>3. EventsInv(audit)' /\ EventsInv(outbox)'
    BY <1>1 DEF vars, IInv, EventsInv, BlobKnown
  <2>4. \A r \in Runners : RunnerInv(runners[r])'
    <3>1. Grows
      BY <1>1 DEF vars, Grows, Marked, Recorded, EventsOf
    <3> QED  BY <1>1, <3>1, RunnerInvStable DEF vars, IInv
  <2> QED  BY <2>1, <2>2, <2>3, <2>4, Zenon DEF IInv
<1>2. ASSUME NEW r \in Runners, NEW k \in Keys, NEW c \in Contents,
             NEW s \in Stores, Begin(r, k, c, s)
      PROVE  IInv'
  BY <1>2, BeginKeeps
<1>3. ASSUME NEW r \in Runners, Step(r) PROVE IInv'
  BY <1>3, MarkCheckpointKeeps, FindByHashKeeps, SaveContextKeeps,
     StorageStepKeeps, CommitMetadataKeeps, CompleteKeeps, FailKeeps DEF Step
<1>4. ASSUME NEW r \in Runners, Fault(r) \/ Crash(r) PROVE IInv'
  BY <1>4, FaultKeeps, CrashKeeps
<1> QED  BY <1>1, <1>2, <1>3, <1>4 DEF Next

(* The inductive invariant holds throughout every behaviour.               *)
THEOREM Invariance == Spec => []IInv
BY InitIInv, NextKeeps, PTL DEF Spec

(* Type correctness of the rows, the objects and the calls of ingest.      *)
THEOREM TypeCorrect == Spec => []TypeOK
<1>1. IInv => TypeOK  BY DEF IInv
<1> QED  BY <1>1, Invariance, PTL

(* The durable checkpoints are a prefix of ingestCheckpoints under every   *)
(* interleaving of markCheckpoint by overlapping, failing and lost calls.  *)
THEOREM CheckpointsStayInOrder == Spec => []CheckpointsInOrder
<1>1. IInv => CheckpointsInOrder  BY Zenon DEF IInv
<1> QED  BY <1>1, Invariance, PTL

(* An operation has at most one audit and one outbox event, and has both,  *)
(* naming the catalogue's blob, once metadata_committed is marked.         *)
THEOREM RecordedExactlyOnce == Spec => []IngestRecordedOnce
<1>1. IInv => IngestRecordedOnce
  <2> SUFFICES ASSUME IInv, NEW k \in Keys, NEW events \in {audit, outbox}
               PROVE  /\ \A i, j \in EventsOf(events, k) : i = j
                      /\ metadata_committed \in Marked(k) =>
                             \E i \in EventsOf(events, k) :
                                 /\ catalog[operations[k].request] # None
                                 /\ events[i].blobId =
                                        catalog[operations[k].request].id
    BY DEF IngestRecordedOnce
  <2>1. EventsInv(events)
    BY Zenon DEF IInv
  <2>2. 6 \in Marked(k) => EventsOf(events, k) # {}
    BY Zenon DEF IInv, OperationInv, Recorded
  <2> QED  BY <2>1, <2>2 DEF EventsInv, EventsOf, BlobKnown
<1> QED  BY <1>1, Invariance, PTL

(* When a call of ingest returns, its operation is completed and recorded, *)
(* and the returned blob is the catalogue's one blob for the bytes.        *)
THEOREM AcknowledgedIsDurable == Spec => []AcknowledgedIngestIsDurable
<1>1. IInv => AcknowledgedIngestIsDurable
  <2> SUFFICES ASSUME IInv, NEW r \in Runners, runners[r].pc = "returned"
               PROVE  LET m == runners[r]
                      IN  /\ completed \in Marked(m.key)
                          /\ operations[m.key].result # None
                          /\ catalog[m.request] # None
                          /\ m.blob.id = catalog[m.request].id
                          /\ EventsOf(audit, m.key) # {}
                          /\ EventsOf(outbox, m.key) # {}
    BY Zenon DEF AcknowledgedIngestIsDurable
  <2> DEFINE m == runners[r]
  <2>1. /\ m.key \in Keys /\ 8 \in Marked(m.key) /\ m.blob # None
        /\ BlobKnown(m.blob.id, m.request)
    BY DEF IInv, RunnerInv
  <2>2. 6 \in Marked(m.key)
    BY <2>1, MarkedRange DEF IInv
  <2>3. operations[m.key].result # None /\ Recorded(m.key)
    BY <2>1, <2>2 DEF IInv, OperationInv
  <2> QED  BY <2>1, <2>3 DEF BlobKnown, Recorded
<1> QED  BY <1>1, Invariance, PTL
=============================================================================
