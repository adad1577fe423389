-------------------------- MODULE ObjectBytesProofs -------------------------
(***************************************************************************)
(* Proof that the ingest never records a verified blob whose bytes are     *)
(* missing, for every instance in which an idempotency key is always       *)
(* routed to the same storage, and that it implements IngestContract in    *)
(* every instance.                                                         *)
(***************************************************************************)
EXTENDS ObjectIngestProofs

USE DEF authorised, temporary_upload_created, bytes_received, hash_verified,
        immutable_object_committed, metadata_committed, audit_committed,
        completed, requested, failed_retryable, Checkpoints, OperationStates

(* The storage binding of a key's requests does not change.                *)
StableRouting == \A k \in Keys : \A s, t \in Routes[k] : s = t

-----------------------------------------------------------------------------
(***************************************************************************)
(* The inductive invariant.                                                *)
(***************************************************************************)
(* The runner uploads (it found no row) and its immutable commit is behind *)
(* it: done by the runner itself or found marked in the operation row.     *)
Uploaded(m) ==
    /\ m.existing = None
    /\ m.pc \notin {"idle", "find", "fail", "returned"}
    /\ m.pc = "mark" => m.at # authorised
    /\ \/ immutable_object_committed \in m.done
       \/ m.pc \in {"deleteTemporary", "saveCommitted"}
       \/ m.pc = "mark" /\ m.at = immutable_object_committed

RunnerBytes(m) ==
    m.pc # "idle" =>
        /\ m.store \in Routes[m.key]
        /\ m.existing # None => <<m.existing.store, m.request>> \in canonical
        /\ Uploaded(m) => <<m.store, m.request>> \in canonical

(* A marked immutable commit is backed by the bytes in the key's storage,  *)
(* or was marked without an upload because the catalogue had the blob.     *)
OperationBytes(k) ==
    immutable_object_committed \in Marked(k) =>
        LET c == operations[k].request
        IN  \/ catalog[c] # None
            \/ \E s \in Routes[k] : <<s, c>> \in canonical

BytesInv ==
    /\ VerifiedBytesPresent
    /\ \A k \in Keys : OperationBytes(k)
    /\ \A r \in Runners : RunnerBytes(runners[r])

-----------------------------------------------------------------------------
(* What a step of runner r has to show: the others only need the canonical *)
(* objects to stay.                                                        *)
LEMMA BytesStep ==
    ASSUME BytesInv, NEW r \in Runners, canonical \subseteq canonical',
           \A q \in Runners \ {r} : runners'[q] = runners[q],
           RunnerBytes(runners[r])', \A k \in Keys : OperationBytes(k)',
           VerifiedBytesPresent'
    PROVE  BytesInv'
<1>1. ASSUME NEW q \in Runners \ {r} PROVE RunnerBytes(runners[q])'
  <2>1. RunnerBytes(runners[q]) /\ runners'[q] = runners[q]
    BY DEF BytesInv
  <2> QED  BY <2>1 DEF RunnerBytes, Uploaded
<1> QED  BY <1>1 DEF BytesInv

(* A step that adds to the canonical objects at most, and leaves the       *)
(* catalogue and the requests and checkpoints of the operations alone.     *)
LEMMA QuietBytesStep ==
    ASSUME BytesInv, NEW r \in Runners, canonical \subseteq canonical',
           catalog' = catalog,
           \A k \in Keys : /\ Marked(k)' = Marked(k)
                           /\ operations'[k].request = operations[k].request,
           \A q \in Runners \ {r} : runners'[q] = runners[q],
           RunnerBytes(runners[r])'
    PROVE  BytesInv'
<1>1. \A k \in Keys : OperationBytes(k)'
  BY DEF BytesInv, OperationBytes
<1>2. VerifiedBytesPresent'
  BY DEF BytesInv, VerifiedBytesPresent
<1> QED  BY <1>1, <1>2, BytesStep

(* The invariant holds before the first call.                              *)
LEMMA InitBytes == Init => BytesInv
BY DEF Init, BytesInv, VerifiedBytesPresent, OperationBytes, RunnerBytes,
       Marked, NoOperation, Idle

(* The control flow between two calls leads to no call that presumes an    *)
(* upload, unless the immutable commit is in the local set.                *)
LEMMA ContinueAtUploaded ==
    ASSUME NEW m \in Runner, NEW i \in 2..9, NEW n, n = ContinueAt(m, i),
           1..(i - 1) \subseteq m.done, Uploaded(n)
    PROVE  immutable_object_committed \in m.done
<1>1. CASE i..8 \subseteq m.done
  BY <1>1 DEF ContinueAt, Uploaded, Runner
<1>2. CASE ~(i..8 \subseteq m.done)
  <2> DEFINE next == CHOOSE j \in i..8 :
                         j \notin m.done /\ i..(j - 1) \subseteq m.done
  <2>1. next \in i..8 /\ i..(next - 1) \subseteq m.done
    BY <1>2, FirstMissing
  <2>2. n = [m EXCEPT !.at = next, !.pc = CallFor(m, next)]
    BY <1>2 DEF ContinueAt
  <2> HIDE DEF next
  <2>3. /\ n.existing = m.existing /\ n.done = m.done
        /\ n.at = next /\ n.pc = CallFor(m, next)
    BY <2>2 DEF Runner
  <2>4. CallFor(m, next) \notin {"deleteTemporary", "saveCommitted"}
    BY <2>1, CallForType
  <2>5. m.existing = None /\ next = 5 => CallFor(m, next) # "mark"
    BY DEF CallFor, UploadCalls
  <2> QED  BY <2>3, <2>4, <2>5 DEF Uploaded
<1> QED  BY <1>1, <1>2

-----------------------------------------------------------------------------
(***************************************************************************)
(* The actions.                                                            *)
(***************************************************************************)
(* begin writes the request of a row that has none, and such a row has no  *)
(* checkpoint.                                                             *)
LEMMA BeginRows ==
    ASSUME IInv, NEW r \in Runners, NEW k \in Keys,
           NEW c \in Contents, NEW s \in Stores, Begin(r, k, c, s),
           NEW q \in Keys
    PROVE  /\ Marked(q)' = Marked(q)
           /\ Marked(q) # {} => operations'[q].request = operations[q].request
           /\ operations'[q].result = operations[q].result
<1>1. /\ operations[k].request \in {None, c}
      /\ operations' = [operations EXCEPT ![k].request = c]
  BY DEF Begin
<1>2. /\ operations'[q].checkpoints = operations[q].checkpoints
      /\ operations'[q].result = operations[q].result
  BY <1>1 DEF IInv, TypeOK, Operation
<1>3. operations[q].request = None => Marked(q) = {}
  <2>1. operations[q].request = None => operations[q].checkpoints = <<>>
    BY DEF IInv, OperationInv
  <2> QED  BY <2>1 DEF Marked
<1>4. operations[q].request # None =>
          operations'[q].request = operations[q].request
  BY <1>1 DEF IInv, TypeOK, Operation
<1> QED  BY <1>2, <1>3, <1>4, Zenon DEF Marked

(* begin starts a call in the storage its key is routed to.                *)
LEMMA BeginBytes ==
    ASSUME IInv, BytesInv, NEW r \in Runners, NEW k \in Keys,
           NEW c \in Contents, NEW s \in Stores, Begin(r, k, c, s)
    PROVE  BytesInv'
<1>1. /\ canonical' = canonical /\ catalog' = catalog
      /\ runners' = [runners EXCEPT ![r] = StartOf(k, c, s)]
      /\ s \in Routes[k] /\ operations[k].request \in {None, c}
      /\ operations' = [operations EXCEPT ![k].request = c]
  BY DEF Begin, storageVars
<1>2. \A q \in Keys :
          /\ Marked(q)' = Marked(q)
          /\ Marked(q) # {} => operations'[q].request = operations[q].request
  BY BeginRows
<1>3. \A q \in Keys : OperationBytes(q)'
  BY <1>1, <1>2 DEF BytesInv, OperationBytes
<1>4. VerifiedBytesPresent'
  BY <1>1 DEF BytesInv, VerifiedBytesPresent
<1>5. RunnerBytes(runners[r])' /\ \A q \in Runners \ {r} :
                                      runners'[q] = runners[q]
  BY <1>1, Zenon DEF IInv, TypeOK, StartOf, RunnerBytes, Uploaded
<1> QED  BY <1>1, <1>3, <1>4, <1>5, BytesStep

(* Marking a checkpoint adds it to the row of the runner's key, at most.   *)
LEMMA MarkRows ==
    ASSUME IInv, NEW r \in Runners, MarkCheckpoint(r),
           NEW m \in Runner, m = runners[r], NEW k \in Keys, k = m.key
    PROVE  /\ \A q \in Keys : /\ operations'[q].request = operations[q].request
                              /\ operations'[q].result = operations[q].result
           /\ \A q \in Keys \ {k} : Marked(q)' = Marked(q)
           /\ 5 \in Marked(k)' => 5 \in Marked(k) \/ m.at = 5
<1> PICK op \in Operation : op = operations[k]
  BY SMTT(30) DEF IInv, TypeOK
<1> DEFINE cps == Append(op.checkpoints, m.at)
<1>1. \/ operations' = operations
      \/ operations' = [operations EXCEPT ![k].checkpoints = cps,
                                          ![k].state = m.at]
  BY DEF MarkCheckpoint
<1>2. CASE operations' = operations
  BY <1>2, Zenon DEF Marked
<1>3. CASE operations' = [operations EXCEPT ![k].checkpoints = cps,
                                            ![k].state = m.at]
  <2>1. /\ operations'[k].request = op.request
        /\ operations'[k].result = op.result
        /\ operations'[k].checkpoints = cps
        /\ \A q \in Keys \ {k} : operations'[q] = operations[q]
    BY <1>3, Zenon DEF IInv, TypeOK, Operation
  <2>2. op.checkpoints \in Seq(1..8) /\ m.at \in 1..8
    BY DEF Operation, Runner
  <2>3. \A i \in 1..Len(cps) :
            \/ cps[i] = m.at
            \/ i \in 1..Len(op.checkpoints) /\ cps[i] = op.checkpoints[i]
    BY <2>2
  <2> HIDE DEF cps
  <2> QED  BY <2>1, <2>3, SMTT(30) DEF Marked
<1> QED  BY <1>1, <1>2, <1>3

(* Marking the immutable commit is backed by the upload, or by the         *)
(* catalogue's row on the path that uploads nothing.                       *)
LEMMA MarkCheckpointBytes ==
    ASSUME IInv, BytesInv, NEW r \in Runners, MarkCheckpoint(r)
    PROVE  BytesInv'
<1> PICK m \in Runner : m = runners[r]
  BY DEF IInv, TypeOK
<1> DEFINE d == [m EXCEPT !.done = m.done \cup {m.at}]
           n == IF m.at = 1 THEN [d EXCEPT !.pc = "find"]
                ELSE ContinueAt(d, m.at + 1)
<1>1. /\ m.pc = "mark" /\ m.key \in Keys /\ m.request \in Contents
      /\ RunnerInv(m) /\ RunnerBytes(m) /\ m.at \in 1..8
      /\ 1..(m.at - 1) \subseteq m.done
      /\ operations[m.key].request = m.request
  BY DEF IInv, MarkCheckpoint, RunnerInv, BytesInv, Runner
<1> PICK k \in Keys : k = m.key
  BY <1>1
<1>2. /\ canonical' = canonical /\ catalog' = catalog
      /\ runners' = [runners EXCEPT ![r] = n]
  BY DEF MarkCheckpoint, storageVars
<1>3. /\ d \in Runner /\ d.done = m.done \cup {m.at} /\ d.pc = "mark"
      /\ d.key = m.key /\ d.request = m.request /\ d.store = m.store
      /\ d.at = m.at /\ d.existing = m.existing
  BY <1>1 DEF Runner
<1> HIDE DEF d
<1>4. /\ n.key = m.key /\ n.request = m.request /\ n.store = m.store
      /\ n.existing = m.existing
      /\ Uploaded(n) => Uploaded(m)
  <2>1. CASE m.at = 1
    <3>1. n = [d EXCEPT !.pc = "find"]  BY <2>1
    <3> HIDE DEF n
    <3> QED  BY <1>3, <3>1 DEF Runner, Uploaded
  <2>2. CASE m.at # 1
    <3> DEFINE i == m.at + 1
    <3>1. n = ContinueAt(d, i)  BY <2>2
    <3>2. i \in 2..9 /\ 1..(i - 1) \subseteq d.done
      BY <1>1, <1>3
    <3> HIDE DEF n, i
    <3>3. /\ n.key = d.key /\ n.request = d.request /\ n.store = d.store
          /\ n.existing = d.existing
      BY <1>3, <3>1, <3>2, ContinueAtFacts
    <3>4. Uploaded(n) => 5 \in d.done
      BY <1>3, <3>1, <3>2, ContinueAtUploaded
    <3>5. Uploaded(n) => n.existing = None
      BY DEF Uploaded
    <3> QED  BY <1>1, <1>3, <2>2, <3>3, <3>4, <3>5 DEF Uploaded
  <2> QED  BY <2>1, <2>2
<1> HIDE DEF n
<1>5. RunnerBytes(runners[r])' /\ \A q \in Runners \ {r} :
                                      runners'[q] = runners[q]
  BY <1>1, <1>2, <1>4, Zenon DEF IInv, TypeOK, RunnerBytes
<1>6. /\ \A q \in Keys : operations'[q].request = operations[q].request
      /\ \A q \in Keys \ {k} : Marked(q)' = Marked(q)
      /\ 5 \in Marked(k)' => 5 \in Marked(k) \/ m.at = 5
  BY <1>1, MarkRows
<1>7. m.at = 5 => \/ catalog[m.request] # None
                  \/ <<m.store, m.request>> \in canonical /\
                     m.store \in Routes[k]
  BY <1>1 DEF RunnerInv, BlobKnown, RunnerBytes, Uploaded
<1>8. \A q \in Keys : OperationBytes(q)'
  BY <1>1, <1>2, <1>6, <1>7 DEF BytesInv, OperationBytes
<1>9. VerifiedBytesPresent'
  BY <1>2 DEF BytesInv, VerifiedBytesPresent
<1> QED  BY <1>2, <1>5, <1>8, <1>9, BytesStep

(* A call that finds no row although the immutable commit is marked        *)
(* relies on the bytes in the key's one storage.                           *)
LEMMA FindByHashBytes ==
    ASSUME StableRouting, IInv, BytesInv, NEW r \in Runners, FindByHash(r)
    PROVE  BytesInv'
<1> PICK m \in Runner : m = runners[r]
  BY DEF IInv, TypeOK
<1>1. /\ m.pc = "find" /\ m.key \in Keys /\ m.request \in Contents
      /\ RunnerInv(m) /\ RunnerBytes(m) /\ 1 \in m.done
      /\ m.done \subseteq Marked(m.key)
      /\ operations[m.key].request = m.request
  BY DEF IInv, FindByHash, RunnerInv, BytesInv
<1> PICK row \in Blob \cup {None} : row = catalog[m.request]
  BY <1>1 DEF IInv, TypeOK
<1> DEFINE a == [m EXCEPT !.existing = row]
           b == [a EXCEPT !.blob = row]
           c == [b EXCEPT !.deduplicated = TRUE]
           d == IF row = None THEN m ELSE c
           n == ContinueAt(d, 2)
<1>2. /\ runners' = [runners EXCEPT ![r] = n]
      /\ operations' = operations /\ catalog' = catalog
      /\ canonical' = canonical
  BY DEF FindByHash, storageVars, dbVars
<1>3. /\ d \in Runner /\ d.key = m.key /\ d.request = m.request
      /\ d.store = m.store /\ d.done = m.done
      /\ row = None => d.existing = m.existing
      /\ row # None => d.existing = row
  <2>1. CASE row = None
    BY <2>1
  <2>2. CASE row # None
    <3>1. a \in Runner /\ a.existing = row
      BY DEF Runner
    <3>2. b \in Runner /\ b.existing = row
      <4> HIDE DEF a
      <4> QED  BY <3>1 DEF Runner
    <3>3. c \in Runner /\ c.existing = row
      <4> HIDE DEF b
      <4> QED  BY <3>2, Zenon DEF Runner
    <3>4. /\ c.key = m.key /\ c.request = m.request
          /\ c.store = m.store /\ c.done = m.done
      BY <1>1 DEF Runner
    <3> HIDE DEF c
    <3> QED  BY <2>2, <3>3, <3>4
  <2> QED  BY <2>1, <2>2
<1> HIDE DEF d
<1>4. /\ n.key = m.key /\ n.request = m.request /\ n.store = m.store
      /\ n.existing = d.existing /\ n.done = m.done
      /\ Uploaded(n) => 5 \in m.done
  <2> DEFINE i == 2
  <2>1. n = ContinueAt(d, i) /\ i \in 2..9 /\ 1..(i - 1) \subseteq d.done
    BY <1>1, <1>3
  <2> HIDE DEF n, i
  <2>2. /\ n.key = d.key /\ n.request = d.request /\ n.store = d.store
        /\ n.existing = d.existing /\ n.done = d.done
    BY <1>3, <2>1, ContinueAtFacts
  <2>3. Uploaded(n) => 5 \in d.done
    BY <1>3, <2>1, ContinueAtUploaded
  <2> QED  BY <1>3, <2>2, <2>3
<1> HIDE DEF n
<1>5. row # None => <<row.store, m.request>> \in canonical
  BY <1>1 DEF BytesInv, VerifiedBytesPresent
<1>6. Uploaded(n) => row = None
  BY <1>3, <1>4 DEF Uploaded
<1>7. row = None /\ 5 \in m.done => <<m.store, m.request>> \in canonical
  <2>1. OperationBytes(m.key) /\ m.store \in Routes[m.key]
    BY <1>1 DEF BytesInv, RunnerBytes
  <2>2. ASSUME row = None, 5 \in m.done
        PROVE  \E s \in Routes[m.key] : <<s, m.request>> \in canonical
    <3>1. immutable_object_committed \in Marked(m.key)
      BY <1>1, <2>2 DEF immutable_object_committed
    <3> QED  BY <1>1, <2>1, <2>2, <3>1, SMTT(30) DEF OperationBytes
  <2>3. \A s \in Routes[m.key] : s = m.store
    BY <1>1, <2>1 DEF StableRouting
  <2> QED  BY <2>2, <2>3, Zenon
<1>8. row = None => (m.existing # None =>
                        <<m.existing.store, m.request>> \in canonical)
  BY <1>1 DEF RunnerBytes
<1>9. RunnerBytes(runners[r])' /\ \A q \in Runners \ {r} :
                                      runners'[q] = runners[q]
  <2>1. /\ m.store \in Routes[m.key]
        /\ d.existing # None => <<d.existing.store, m.request>> \in canonical
        /\ Uploaded(n) => <<m.store, m.request>> \in canonical
    BY <1>1, <1>3, <1>4, <1>5, <1>6, <1>7, <1>8 DEF RunnerBytes
  <2>2. RunnerBytes(n)
    BY <1>4, <2>1 DEF RunnerBytes
  <2> QED  BY <1>2, <2>2 DEF IInv, TypeOK, RunnerBytes
<1> QED  BY <1>2, <1>9, QuietBytesStep DEF Marked

(* commitImmutable: every way to its end leaves the canonical object in    *)
(* the storage of the call.                                                *)
LEMMA StorageStepBytes ==
    ASSUME IInv, BytesInv, NEW r \in Runners,
           \/ WriteTemporary(r) \/ InspectTemporary(r) \/ VerifyCommitted(r)
           \/ InspectCanonical(r) \/ CopyObject(r) \/ DeleteTemporary(r)
    PROVE  BytesInv'
<1> PICK m \in Runner : m = runners[r]
  BY DEF IInv, TypeOK
<1>1. /\ m.pc \in {"writeTemporary", "inspectTemporary", "verifyCommitted",
                    "inspectCanonical", "copy", "deleteTemporary"}
      /\ RunnerInv(m) /\ RunnerBytes(m)
  BY DEF IInv, BytesInv, WriteTemporary, InspectTemporary, VerifyCommitted,
         InspectCanonical, CopyObject, DeleteTemporary
<1>2. /\ operations' = operations /\ catalog' = catalog
      /\ canonical \subseteq canonical'
  BY DEF WriteTemporary, InspectTemporary, VerifyCommitted,
         InspectCanonical, CopyObject, DeleteTemporary, dbVars, storageVars
<1>3. \E p \in {"mark", "verifyCommitted", "inspectCanonical", "copy",
                "deleteTemporary", "saveCommitted", "fail"} :
          /\ runners' = [runners EXCEPT ![r].pc = p]
          /\ p = "mark" => m.pc = "writeTemporary"
          /\ p \in {"deleteTemporary", "saveCommitted"} =>
                 \/ m.pc = "deleteTemporary"
                 \/ <<m.store, m.request>> \in canonical'
  BY DEF WriteTemporary, InspectTemporary, VerifyCommitted,
         InspectCanonical, CopyObject, DeleteTemporary, storageVars
<1>4. PICK p \in {"mark", "verifyCommitted", "inspectCanonical", "copy",
                  "deleteTemporary", "saveCommitted", "fail"} :
          /\ runners' = [runners EXCEPT ![r].pc = p]
          /\ p = "mark" => m.pc = "writeTemporary"
          /\ p \in {"deleteTemporary", "saveCommitted"} =>
                 \/ m.pc = "deleteTemporary"
                 \/ <<m.store, m.request>> \in canonical'
  BY <1>3, Zenon
<1> DEFINE n == [m EXCEPT !.pc = p]
<1>5. /\ n.pc = p /\ n.key = m.key /\ n.request = m.request
      /\ n.store = m.store /\ n.existing = m.existing /\ n.done = m.done
      /\ n.at = m.at
  BY DEF Runner
<1>6. runners'[r] = n /\ \A q \in Runners \ {r} : runners'[q] = runners[q]
  BY <1>4, Zenon DEF IInv, TypeOK
<1> HIDE DEF n
<1>7. m.pc = "writeTemporary" => m.at = 3
  BY <1>1 DEF RunnerInv, AtCheckpoint
<1>8. /\ m.store \in Routes[m.key]
      /\ m.existing # None => <<m.existing.store, m.request>> \in canonical
      /\ Uploaded(m) => <<m.store, m.request>> \in canonical
  BY <1>1 DEF RunnerBytes
<1>9. Uploaded(n) => <<m.store, m.request>> \in canonical'
  BY <1>1, <1>2, <1>4, <1>5, <1>7, <1>8 DEF Uploaded
<1>10. RunnerBytes(runners[r])'
  BY <1>2, <1>5, <1>6, <1>8, <1>9 DEF RunnerBytes
<1> QED  BY <1>2, <1>6, <1>10, QuietBytesStep DEF Marked

(* saveContext, complete and fail keep the request and the checkpoints of  *)
(* every row, and only complete writes a result.                           *)
LEMMA WrittenRows ==
    ASSUME IInv, NEW r \in Runners,
           \/ SaveTemporary(r) \/ SaveHash(r) \/ SaveCommitted(r)
           \/ Complete(r) \/ Fail(r)
    PROVE  \A q \in Keys :
               /\ operations'[q].checkpoints = operations[q].checkpoints
               /\ operations'[q].request = operations[q].request
               /\ Complete(r) \/ operations'[q].result = operations[q].result
<1> PICK m \in Runner : m = runners[r]
  BY SMTT(30) DEF IInv, TypeOK
<1>1. m.key \in Keys
  BY Zenon DEF IInv, RunnerInv, SaveTemporary, SaveHash, SaveCommitted, SaveContext,
         Complete, Fail
<1> PICK k \in Keys : k = m.key
  BY <1>1
<1> PICK op \in Operation : op = operations[k]
  BY SMTT(30) DEF IInv, TypeOK
<1>2. ASSUME NEW row, operations' = [operations EXCEPT ![k] = row],
             row.checkpoints = op.checkpoints, row.request = op.request,
             Complete(r) \/ row.result = op.result
      PROVE  \A q \in Keys :
                 /\ operations'[q].checkpoints = operations[q].checkpoints
                 /\ operations'[q].request = operations[q].request
                 /\ Complete(r) \/ operations'[q].result = operations[q].result
  BY <1>2 DEF IInv, TypeOK
<1>3. CASE SaveTemporary(r) \/ SaveHash(r) \/ SaveCommitted(r)
  <2>1. PICK context :
            operations' = [operations EXCEPT ![k].context = context,
                                             ![k].state = m.at]
    BY <1>3, Zenon DEF SaveTemporary, SaveHash, SaveCommitted, SaveContext
  <2> DEFINE row == [op EXCEPT !.context = context, !.state = m.at]
  <2>2. operations' = [operations EXCEPT ![k] = row]
    BY <2>1, Zenon DEF IInv, TypeOK, Operation
  <2>3. /\ row.checkpoints = op.checkpoints /\ row.request = op.request
        /\ row.result = op.result
    BY DEF Operation
  <2> HIDE DEF row
  <2> QED  BY <1>2, <2>2, <2>3, Zenon
<1>4. CASE Complete(r)
  <2> DEFINE row == [op EXCEPT !.state = completed,
                               !.result = [blob |-> m.blob,
                                           deduplicated |-> m.deduplicated]]
  <2>1. operations' = [operations EXCEPT ![k] = row]
    BY <1>4, Zenon DEF Complete, IInv, TypeOK, Operation
  <2>2. row.checkpoints = op.checkpoints /\ row.request = op.request
    BY DEF Operation
  <2> HIDE DEF row
  <2> QED  BY <1>2, <1>4, <2>1, <2>2, Zenon
<1>5. CASE Fail(r)
  <2> DEFINE row == [op EXCEPT !.state = failed_retryable]
  <2>1. \/ operations' = operations
        \/ operations' = [operations EXCEPT ![k] = row]
    BY <1>5 DEF Fail, IInv, TypeOK
  <2>2. /\ row.checkpoints = op.checkpoints /\ row.request = op.request
        /\ row.result = op.result
    BY DEF Operation
  <2> HIDE DEF row
  <2> QED  BY <1>2, <2>1, <2>2, Zenon
<1> QED  BY <1>3, <1>4, <1>5, Zenon

(* saveContext, complete and fail write the operation row only.            *)
LEMMA RowStepBytes ==
    ASSUME IInv, BytesInv, NEW r \in Runners,
           \/ SaveTemporary(r) \/ SaveHash(r) \/ SaveCommitted(r)
           \/ Complete(r) \/ Fail(r)
    PROVE  BytesInv'
<1> PICK m \in Runner : m = runners[r]
  BY SMTT(30) DEF IInv, TypeOK
<1>1. /\ RunnerInv(m) /\ RunnerBytes(m)
      /\ m.pc \in {"saveTemporary", "saveHash", "saveCommitted", "complete",
                   "fail"}
  BY Zenon DEF IInv, BytesInv, SaveTemporary, SaveHash, SaveCommitted, SaveContext,
         Complete, Fail
<1>3. catalog' = catalog /\ canonical' = canonical
  BY Zenon DEF storageVars, SaveTemporary, SaveHash, SaveCommitted, SaveContext,
         Complete, Fail
<1>4. \A q \in Keys :
          /\ operations'[q].checkpoints = operations[q].checkpoints
          /\ operations'[q].request = operations[q].request
  BY WrittenRows
<1>5. \A q \in Keys : Marked(q)' = Marked(q)
  BY <1>4, Zenon DEF Marked
<1>6. \A q \in Runners \ {r} : runners'[q] = runners[q]
  BY DEF IInv, TypeOK, SaveTemporary, SaveHash, SaveCommitted, SaveContext,
         Complete, Fail
<1>7. RunnerBytes(runners[r])'
  <2>1. CASE Fail(r)
    BY <2>1 DEF IInv, TypeOK, RunnerBytes, Idle, Fail
  <2>2. CASE SaveTemporary(r) \/ SaveHash(r) \/ SaveCommitted(r) \/ Complete(r)
    <3> DEFINE n == runners'[r]
    <3>1. /\ n.pc = "mark" /\ n.key = m.key /\ n.request = m.request
          /\ n.store = m.store /\ n.existing = m.existing /\ n.done = m.done
          /\ n.at = m.at /\ m.pc # "fail"
      <4>1. CASE SaveTemporary(r)
        BY <4>1 DEF IInv, TypeOK, Runner, SaveTemporary, SaveContext
      <4>2. CASE SaveHash(r)
        BY <4>2 DEF IInv, TypeOK, Runner, SaveHash, SaveContext
      <4>3. CASE SaveCommitted(r)
        BY <4>3 DEF IInv, TypeOK, Runner, SaveCommitted, SaveContext
      <4>4. CASE Complete(r)
        BY <4>4 DEF IInv, TypeOK, Runner, Complete
      <4> HIDE DEF n
      <4> QED  BY <2>2, <4>1, <4>2, <4>3, <4>4
    <3>2. m.at = 5 => m.pc = "saveCommitted"
      BY <1>1, <3>1 DEF RunnerInv, AtCheckpoint
    <3> HIDE DEF n
    <3>3. Uploaded(n) => Uploaded(m)
      BY <1>1, <3>1, <3>2 DEF Uploaded
    <3>4. /\ m.store \in Routes[m.key]
          /\ m.existing # None => <<m.existing.store, m.request>> \in canonical
          /\ Uploaded(m) => <<m.store, m.request>> \in canonical
      BY <1>1 DEF RunnerBytes
    <3> QED  BY <1>3, <3>1, <3>3, <3>4 DEF RunnerBytes, n
  <2> QED  BY <2>1, <2>2
<1> QED  BY <1>3, <1>4, <1>5, <1>6, <1>7, QuietBytesStep

(* commitVerifiedIngest binds the row to a storage that holds the bytes:   *)
(* the call's own after its upload, or the one of the row it found.        *)
LEMMA CommitMetadataBytes ==
    ASSUME IInv, BytesInv, NEW r \in Runners, CommitMetadata(r)
    PROVE  BytesInv'
<1> PICK m \in Runner : m = runners[r]
  BY DEF IInv, TypeOK
<1>1. /\ m.pc = "commitMetadata" /\ m.request \in Contents
      /\ RunnerInv(m) /\ RunnerBytes(m) /\ 5 \in m.done /\ m.at = 6
  <2>1. m.pc = "commitMetadata" /\ RunnerInv(m) /\ RunnerBytes(m)
    BY DEF IInv, BytesInv, CommitMetadata
  <2>2. m.at = 6 /\ 1..(m.at - 1) \subseteq m.done /\ m.request \in Contents
    BY <2>1 DEF RunnerInv, AtCheckpoint
  <2> QED  BY <2>1, <2>2
<1> PICK c \in Contents : c = m.request
  BY <1>1
<1> PICK old \in Blob \cup {None} : old = catalog[c]
  BY DEF IInv, TypeOK
<1> DEFINE candidate == IF m.existing # None THEN m.existing
                        ELSE [id |-> <<m.key, r>>, store |-> m.store]
           row == RecordBlob(old, candidate)
           n == [[m EXCEPT !.blob = row] EXCEPT !.pc = "mark"]
<1>2. <<candidate.store, c>> \in canonical
  <2>1. CASE m.existing # None
    BY <1>1, <2>1 DEF RunnerBytes
  <2>2. CASE m.existing = None
    <3>1. Uploaded(m)
      BY <1>1, <2>2 DEF Uploaded
    <3> QED  BY <1>1, <2>2, <3>1 DEF RunnerBytes
  <2> QED  BY <2>1, <2>2
<1>3. old # None => <<old.store, c>> \in canonical
  BY DEF BytesInv, VerifiedBytesPresent
<1>4. /\ catalog' = [catalog EXCEPT ![c] = row]
      /\ runners' = [runners EXCEPT ![r] = n]
      /\ operations' = operations /\ canonical' = canonical
  BY Zenon DEF CommitMetadata, IInv, TypeOK, storageVars
<1>5. /\ candidate \in Blob
  BY <1>1 DEF Blob, Runner, RunnerInv
<1> HIDE DEF candidate
<1>6. row \in Blob /\ <<row.store, c>> \in canonical
  BY <1>2, <1>3, <1>5 DEF RecordBlob, Blob
<1> HIDE DEF row
<1>7. VerifiedBytesPresent'
  BY <1>4, <1>6 DEF IInv, TypeOK, BytesInv, VerifiedBytesPresent
<1>8. \A k \in Keys : OperationBytes(k)'
  <2>1. \A d \in Contents : catalog[d] # None => catalog'[d] # None
    BY <1>4, <1>6, IngestAssumption DEF IInv, TypeOK
  <2>2. \A k \in Keys : 5 \in Marked(k) => operations[k].request \in Contents
    <3> SUFFICES ASSUME NEW k \in Keys, 5 \in Marked(k)
                 PROVE  operations[k].request \in Contents
      OBVIOUS
    <3>1. operations[k].request = None => operations[k].checkpoints = <<>>
      BY DEF IInv, OperationInv
    <3> QED  BY <3>1 DEF Marked, IInv, TypeOK, Operation
  <2>3. \A k \in Keys : Marked(k)' = Marked(k)
    BY <1>4 DEF Marked
  <2> QED  BY <1>4, <2>1, <2>2, <2>3 DEF BytesInv, OperationBytes
<1>9. RunnerBytes(runners[r])' /\ \A q \in Runners \ {r} :
                                      runners'[q] = runners[q]
  <2>1. /\ n.pc = "mark" /\ n.key = m.key /\ n.request = m.request
        /\ n.store = m.store /\ n.existing = m.existing /\ n.done = m.done
        /\ n.at = m.at
    BY DEF Runner
  <2> HIDE DEF n
  <2>2. Uploaded(n) => Uploaded(m)
    BY <1>1, <2>1 DEF Uploaded
  <2>3. RunnerBytes(n)
    BY <1>1, <2>1, <2>2 DEF RunnerBytes
  <2> QED  BY <1>4, <2>3 DEF IInv, TypeOK, RunnerBytes
<1> QED  BY <1>4, <1>7, <1>8, <1>9, BytesStep, Zenon

(* An error or a lost process changes the local state only.                *)
LEMMA FaultBytes ==
    ASSUME IInv, BytesInv, NEW r \in Runners, Fault(r) \/ Crash(r)
    PROVE  BytesInv'
<1> PICK m \in Runner : m = runners[r]
  BY DEF IInv, TypeOK
<1>1. /\ operations' = operations /\ catalog' = catalog
      /\ canonical' = canonical
      /\ \A q \in Runners \ {r} : runners'[q] = runners[q]
  BY DEF Fault, Crash, dbVars, storageVars, IInv, TypeOK
<1>2. CASE Fault(r)
  <2> DEFINE n == [m EXCEPT !.pc = "fail"]
  <2>1. runners'[r] = n /\ m.pc # "idle"
    BY <1>2 DEF Fault, IInv, TypeOK
  <2>2. /\ n.pc = "fail" /\ n.key = m.key /\ n.request = m.request
        /\ n.store = m.store /\ n.existing = m.existing
    BY DEF Runner
  <2> HIDE DEF n
  <2>3. RunnerBytes(m)
    BY Zenon DEF BytesInv
  <2>4. RunnerBytes(runners[r])'
    BY <1>1, <2>1, <2>2, <2>3, Zenon DEF RunnerBytes, Uploaded
  <2> QED  BY <1>1, <2>4, QuietBytesStep DEF Marked
<1>3. CASE Crash(r)
  <2>1. RunnerBytes(runners[r])'
    BY <1>3 DEF Crash, IInv, TypeOK, RunnerBytes, Idle
  <2> QED  BY <1>1, <2>1, QuietBytesStep DEF Marked
<1> QED  BY <1>2, <1>3

-----------------------------------------------------------------------------
(* Every step keeps the invariant when routing is stable.                  *)
LEMMA NextBytes ==
    ASSUME StableRouting
    PROVE  IInv /\ BytesInv /\ [Next]_vars => BytesInv'
<1> SUFFICES ASSUME IInv, BytesInv, [Next]_vars PROVE BytesInv'
  BY Zenon
<1>1. CASE UNCHANGED vars
  BY <1>1 DEF vars, BytesInv, VerifiedBytesPresent, OperationBytes,
     RunnerBytes, Uploaded, Marked
<1>2. ASSUME NEW r \in Runners, NEW k \in Keys, NEW c \in Contents,
             NEW s \in Stores, Begin(r, k, c, s)
      PROVE  BytesInv'
  BY <1>2, BeginBytes
<1>3. ASSUME NEW r \in Runners, Step(r) PROVE BytesInv'
  BY <1>3, MarkCheckpointBytes, FindByHashBytes, StorageStepBytes,
     RowStepBytes, CommitMetadataBytes DEF Step
<1>4. ASSUME NEW r \in Runners, Fault(r) \/ Crash(r) PROVE BytesInv'
  BY <1>4, FaultBytes
<1> QED  BY <1>1, <1>2, <1>3, <1>4 DEF Next

(* When a key's requests are always routed to the same storage, a verified *)
(* row of the catalogue is bound to a storage that holds its bytes,        *)
(* whatever calls overlap, fail or are lost: commitVerifiedIngest never    *)
(* runs ahead of commitImmutable.                                          *)
THEOREM VerifiedBytes ==
    ASSUME StableRouting
    PROVE  Spec => []VerifiedBytesPresent
<1>1. BytesInv => VerifiedBytesPresent
  BY DEF BytesInv
<1>2. IInv /\ BytesInv /\ [Next]_vars => BytesInv'
  BY NextBytes
<1> QED  BY <1>1, <1>2, InitBytes, Invariance, PTL DEF Spec

(* The blob of a content keeps its id and stays in the catalogue whatever  *)
(* later or slower ingests of the same bytes commit.                       *)
THEOREM CatalogStable == Spec => CatalogIdentityStable
<1>1. IInv /\ [Next]_vars =>
          [\A c \in Contents : catalog[c] # None =>
              catalog'[c] # None /\ catalog'[c].id = catalog[c].id]_vars
  <2> SUFFICES ASSUME IInv, Next, NEW c \in Contents, catalog[c] # None
               PROVE  catalog'[c] # None /\ catalog'[c].id = catalog[c].id
    OBVIOUS
  <2>1. ASSUME NEW r \in Runners, CommitMetadata(r)
        PROVE  catalog'[c] # None /\ catalog'[c].id = catalog[c].id
    <3> PICK old \in Blob : old = catalog[c]
      BY DEF IInv, TypeOK
    <3>1. \/ catalog'[c] = catalog[c]
          \/ \E candidate \in Blob : catalog'[c] = RecordBlob(old, candidate)
      <4> PICK m \in Runner : m = runners[r]
        BY SMTT(30) DEF IInv, TypeOK
      <4>1. m.pc = "commitMetadata" /\ m.key \in Keys /\ m.store \in Stores
        BY <2>1 DEF CommitMetadata, IInv, RunnerInv
      <4>2. /\ m.existing # None => m.existing \in Blob
            /\ [id |-> <<m.key, r>>, store |-> m.store] \in Blob
        BY <4>1 DEF Blob, Runner
      <4> QED  BY <2>1, <4>2, Zenon DEF CommitMetadata, IInv, TypeOK
    <3>2. \A candidate \in Blob : LET row == RecordBlob(old, candidate)
                         IN  row.id = old.id /\ row # None
      BY IngestAssumption DEF RecordBlob, Blob
    <3> QED  BY <3>1, <3>2
  <2>2. ASSUME NEW r \in Runners, ~CommitMetadata(r),
               \/ \E k \in Keys, d \in Contents, s \in Stores :
                      Begin(r, k, d, s)
               \/ Step(r) \/ Fault(r) \/ Crash(r)
        PROVE  catalog' = catalog
    BY <2>2, Zenon DEF Begin, Step, Fault, Crash, MarkCheckpoint, FindByHash,
       SaveTemporary, SaveHash, SaveCommitted, SaveContext, WriteTemporary,
       InspectTemporary, VerifyCommitted, InspectCanonical, CopyObject,
       DeleteTemporary, Complete, Fail, dbVars
  <2> QED  BY <2>1, <2>2 DEF Next
<1> QED  BY <1>1, Invariance, PTL DEF Spec, CatalogIdentityStable

-----------------------------------------------------------------------------
(***************************************************************************)
(* The ingest implements its contract, however keys are routed.  That the  *)
(* bytes are stored before the blob is recorded needs an invariant.        *)
(***************************************************************************)
Stored(c) == \E s \in Stores : <<s, c>> \in canonical

(* The runner has seen the canonical object it is about to mark.           *)
Landed(m) ==
    \/ m.pc \in {"deleteTemporary", "saveCommitted"}
    \/ /\ m.pc = "mark" /\ m.at = immutable_object_committed
       /\ m.existing = None

RunnerStored(m) == Landed(m) => Stored(m.request)

StoredInv ==
    /\ \A c \in Contents : catalog[c] # None => Stored(c)
    /\ \A k \in Keys : immutable_object_committed \in Marked(k) =>
                           Stored(operations[k].request)
    /\ \A r \in Runners : RunnerStored(runners[r])

(* Nothing is stored, marked or landed before the first call.              *)
LEMMA InitStored == Init => StoredInv
BY DEF Init, StoredInv, RunnerStored, Landed, Marked, NoOperation, Idle

(* What a step of runner r has to show: no canonical object is removed, so *)
(* what was stored stays stored.                                           *)
LEMMA StoredStep ==
    ASSUME StoredInv, NEW r \in Runners, canonical \subseteq canonical',
           \A q \in Runners \ {r} : runners'[q] = runners[q],
           RunnerStored(runners[r])',
           \A c \in Contents : catalog'[c] # None =>
               catalog[c] # None \/ Stored(c)',
           \A k \in Keys : 5 \in Marked(k)' =>
               \/ Stored(operations[k].request)'
               \/ /\ 5 \in Marked(k)
                  /\ operations'[k].request = operations[k].request
    PROVE  StoredInv'
<1>1. \A c : Stored(c) => Stored(c)'
  BY Zenon DEF Stored
<1>2. \A q \in Runners \ {r} : RunnerStored(runners[q])'
  BY <1>1, Zenon DEF StoredInv, RunnerStored, Landed
<1>3. \A c \in Contents : catalog'[c] # None => Stored(c)'
  BY <1>1 DEF StoredInv
<1>4. \A k \in Keys : 5 \in Marked(k)' => Stored(operations[k].request)'
  BY <1>1 DEF StoredInv
<1> QED  BY <1>2, <1>3, <1>4 DEF StoredInv

(* The control flow between two calls does not skip the look at the        *)
(* canonical object on the path that uploads.                              *)
LEMMA ContinueAtNotLanded ==
    ASSUME NEW m \in Runner, NEW i \in 2..9, NEW n, n = ContinueAt(m, i)
    PROVE  ~Landed(n)
<1>1. CASE i..8 \subseteq m.done
  BY <1>1 DEF ContinueAt, Landed, Runner
<1>2. CASE ~(i..8 \subseteq m.done)
  <2> DEFINE next == CHOOSE j \in i..8 :
                         j \notin m.done /\ i..(j - 1) \subseteq m.done
  <2>1. next \in i..8 /\ i..(next - 1) \subseteq m.done
    BY <1>2, FirstMissing
  <2>2. n = [m EXCEPT !.at = next, !.pc = CallFor(m, next)]
    BY <1>2 DEF ContinueAt
  <2> HIDE DEF next
  <2>3. /\ n.existing = m.existing /\ n.at = next
        /\ n.pc = CallFor(m, next)
    BY <2>2 DEF Runner
  <2>4. CallFor(m, next) \notin {"deleteTemporary", "saveCommitted"}
    BY <2>1, CallForType
  <2>5. m.existing = None /\ next = 5 => CallFor(m, next) # "mark"
    BY DEF CallFor, UploadCalls
  <2> QED  BY <2>3, <2>4, <2>5 DEF Landed
<1> QED  BY <1>1, <1>2

(* A call starts before its look at the canonical object.                  *)
LEMMA BeginStored ==
    ASSUME IInv, StoredInv, NEW r \in Runners, NEW k \in Keys,
           NEW c \in Contents, NEW s \in Stores, Begin(r, k, c, s)
    PROVE  StoredInv'
<1>1. /\ canonical' = canonical /\ catalog' = catalog
      /\ runners' = [runners EXCEPT ![r] = StartOf(k, c, s)]
  BY Zenon DEF Begin, storageVars
<1>2. /\ runners'[r] = StartOf(k, c, s)
      /\ \A q \in Runners \ {r} : runners'[q] = runners[q]
  BY <1>1, Zenon DEF IInv, TypeOK
<1>3. ~Landed(StartOf(k, c, s))
  BY DEF StartOf, Landed
<1>4. RunnerStored(runners[r])'
  BY <1>2, <1>3, Zenon DEF RunnerStored, Landed
<1>5. \A q \in Keys :
          /\ Marked(q)' = Marked(q)
          /\ Marked(q) # {} => operations'[q].request = operations[q].request
  BY BeginRows
<1> QED  BY <1>1, <1>2, <1>4, <1>5, StoredStep

(* The immutable commit is marked after the look at the canonical object,  *)
(* or because the catalogue has the blob.                                  *)
LEMMA MarkCheckpointStored ==
    ASSUME IInv, StoredInv, NEW r \in Runners, MarkCheckpoint(r)
    PROVE  StoredInv'
<1> PICK m \in Runner : m = runners[r]
  BY DEF IInv, TypeOK
<1>1. /\ m.pc = "mark" /\ m.key \in Keys /\ m.request \in Contents
      /\ operations[m.key].request = m.request /\ m.at \in 1..8
      /\ m.existing # None => catalog[m.request] # None
      /\ RunnerStored(m)
  BY DEF IInv, MarkCheckpoint, RunnerInv, BlobKnown, StoredInv, Runner
<1> PICK k \in Keys : k = m.key
  BY <1>1
<1> PICK d \in Runner : d = [m EXCEPT !.done = @ \cup {m.at}]
  BY <1>1, Zenon DEF Runner
<1>2. PICK n : n = IF m.at = 1 THEN [d EXCEPT !.pc = "find"]
                   ELSE ContinueAt(d, m.at + 1)
  OBVIOUS
<1>3. /\ canonical' = canonical /\ catalog' = catalog
      /\ runners' = [runners EXCEPT ![r] = n]
  BY <1>2 DEF MarkCheckpoint, storageVars
<1>4. ~Landed(n)
  <2>1. CASE m.at = 1
    BY <1>2, <2>1 DEF Runner, Landed
  <2>2. CASE m.at # 1
    BY <1>1, <1>2, <2>2, ContinueAtNotLanded
  <2> QED  BY <2>1, <2>2
<1>5. runners'[r] = n /\ \A q \in Runners \ {r} : runners'[q] = runners[q]
  BY <1>3 DEF IInv, TypeOK
<1>6. RunnerStored(runners[r])'
  BY <1>4, <1>5, Zenon DEF RunnerStored, Landed
<1>7. /\ \A q \in Keys : operations'[q].request = operations[q].request
      /\ \A q \in Keys \ {k} : Marked(q)' = Marked(q)
      /\ 5 \in Marked(k)' => 5 \in Marked(k) \/ m.at = 5
  BY <1>1, MarkRows
<1>8. m.at = 5 => Stored(m.request)
  BY <1>1 DEF StoredInv, RunnerStored, Landed
<1>9. m.at = 5 => Stored(operations[k].request)'
  BY <1>1, <1>3, <1>7, <1>8 DEF Stored
<1> QED  BY <1>3, <1>5, <1>6, <1>7, <1>9, StoredStep

(* A step that adds to the canonical objects at most, and leaves the       *)
(* catalogue and the requests and checkpoints of the operations alone.     *)
LEMMA QuietStoredStep ==
    ASSUME IInv, StoredInv, NEW r \in Runners, NEW n,
           canonical \subseteq canonical', catalog' = catalog,
           \A k \in Keys :
               /\ operations'[k].checkpoints = operations[k].checkpoints
               /\ operations'[k].request = operations[k].request,
           runners' = [runners EXCEPT ![r] = n],
           Landed(n) => Stored(n.request)'
    PROVE  StoredInv'
<1>1. runners'[r] = n /\ \A q \in Runners \ {r} : runners'[q] = runners[q]
  BY DEF IInv, TypeOK
<1>2. RunnerStored(runners[r])'
  BY <1>1, Zenon DEF RunnerStored, Landed, Stored
<1>3. \A k \in Keys : Marked(k)' = Marked(k)
  BY Zenon DEF Marked
<1> QED  BY <1>1, <1>2, <1>3, StoredStep, Zenon

(* findByHash comes before the look at the canonical object.               *)
LEMMA FindByHashStored ==
    ASSUME IInv, StoredInv, NEW r \in Runners, FindByHash(r)
    PROVE  StoredInv'
<1> PICK m \in Runner : m = runners[r]
  BY DEF IInv, TypeOK
<1>1. m.pc = "find" /\ m.request \in Contents
  BY DEF IInv, FindByHash, RunnerInv
<1> PICK row \in Blob \cup {None} : row = catalog[m.request]
  BY <1>1 DEF IInv, TypeOK
<1> PICK d \in Runner : d = IF row = None THEN m
                            ELSE [m EXCEPT !.existing = row, !.blob = row,
                                           !.deduplicated = TRUE]
  BY Zenon DEF Runner
<1> PICK n : n = ContinueAt(d, 2)
  OBVIOUS
<1>2. /\ runners' = [runners EXCEPT ![r] = n]
      /\ operations' = operations /\ catalog' = catalog
      /\ canonical' = canonical
  BY Zenon DEF FindByHash, dbVars, storageVars
<1>3. ~Landed(n)
  BY ContinueAtNotLanded
<1> QED  BY <1>2, <1>3, QuietStoredStep, Zenon

(* commitImmutable goes on to delete the temporary object, or to save the  *)
(* storage key, once it has seen or made the canonical object.             *)
LEMMA StorageStepStored ==
    ASSUME IInv, StoredInv, NEW r \in Runners,
           \/ WriteTemporary(r) \/ InspectTemporary(r) \/ VerifyCommitted(r)
           \/ InspectCanonical(r) \/ CopyObject(r) \/ DeleteTemporary(r)
    PROVE  StoredInv'
<1> PICK m \in Runner : m = runners[r]
  BY DEF IInv, TypeOK
<1>1. /\ m.pc \in {"writeTemporary", "inspectTemporary", "verifyCommitted",
                    "inspectCanonical", "copy", "deleteTemporary"}
      /\ m.store \in Stores /\ RunnerStored(m)
      /\ m.pc = "writeTemporary" => m.at = 3
  <2>1. /\ m.pc \in {"writeTemporary", "inspectTemporary", "verifyCommitted",
                      "inspectCanonical", "copy", "deleteTemporary"}
    BY Zenon DEF WriteTemporary, InspectTemporary, VerifyCommitted,
           InspectCanonical, CopyObject, DeleteTemporary
  <2>2. RunnerInv(m) /\ RunnerStored(m)
    BY DEF IInv, StoredInv
  <2> QED  BY <2>1, <2>2 DEF RunnerInv, AtCheckpoint
<1>2. /\ operations' = operations /\ catalog' = catalog
      /\ canonical \subseteq canonical'
  BY DEF WriteTemporary, InspectTemporary, VerifyCommitted,
         InspectCanonical, CopyObject, DeleteTemporary, dbVars, storageVars
<1>3. PICK p \in {"mark", "verifyCommitted", "inspectCanonical", "copy",
                  "deleteTemporary", "saveCommitted", "fail"} :
          /\ runners' = [runners EXCEPT ![r].pc = p]
          /\ p = "mark" => m.pc = "writeTemporary"
          /\ p \in {"deleteTemporary", "saveCommitted"} =>
                 \/ m.pc = "deleteTemporary"
                 \/ <<m.store, m.request>> \in canonical'
  BY DEF WriteTemporary, InspectTemporary, VerifyCommitted,
         InspectCanonical, CopyObject, DeleteTemporary, storageVars
<1> PICK n : n = [m EXCEPT !.pc = p]
  BY Zenon
<1>4. n.pc = p /\ n.request = m.request /\ n.at = m.at
  BY DEF Runner
<1>5. runners' = [runners EXCEPT ![r] = n]
  BY <1>3, Zenon DEF IInv, TypeOK
<1>6. Landed(n) => Stored(n.request)'
  <2>1. Landed(n) => p \in {"deleteTemporary", "saveCommitted"}
    BY <1>1, <1>3, <1>4 DEF Landed
  <2>2. m.pc = "deleteTemporary" => Stored(m.request)'
    BY <1>1, <1>2 DEF RunnerStored, Landed, Stored
  <2>3. <<m.store, m.request>> \in canonical' => Stored(m.request)'
    BY <1>1, Zenon DEF Stored
  <2> QED  BY <1>3, <1>4, <2>1, <2>2, <2>3, Zenon
<1> QED  BY <1>2, <1>5, <1>6, QuietStoredStep, Zenon

(* saveContext, complete and fail: the storage key is saved for what was   *)
(* seen.                                                                   *)
LEMMA RowStepStored ==
    ASSUME IInv, StoredInv, NEW r \in Runners,
           \/ SaveTemporary(r) \/ SaveHash(r) \/ SaveCommitted(r)
           \/ Complete(r) \/ Fail(r)
    PROVE  StoredInv'
<1> PICK m \in Runner : m = runners[r]
  BY SMTT(30) DEF IInv, TypeOK
<1>1. RunnerInv(m) /\ RunnerStored(m)
  BY DEF IInv, StoredInv
<1>2. catalog' = catalog /\ canonical' = canonical
  BY Zenon DEF storageVars, SaveTemporary, SaveHash, SaveCommitted,
         SaveContext, Complete, Fail
<1>3. \A q \in Keys :
          /\ operations'[q].checkpoints = operations[q].checkpoints
          /\ operations'[q].request = operations[q].request
  BY WrittenRows
<1>4. ASSUME NEW n, runners' = [runners EXCEPT ![r] = n],
             n.pc = "mark", n.at = m.at, n.request = m.request,
             m.pc \in {"saveTemporary", "saveHash", "saveCommitted", "complete"}
      PROVE  StoredInv'
  <2>1. m.at = 5 => m.pc = "saveCommitted"
    BY <1>1, <1>4 DEF RunnerInv, AtCheckpoint
  <2>2. Landed(n) => Landed(m)
    BY <1>4, <2>1 DEF Landed
  <2>3. Landed(n) => Stored(n.request)'
    BY <1>1, <1>2, <1>4, <2>2 DEF RunnerStored, Stored
  <2> QED  BY <1>2, <1>3, <1>4, <2>3, QuietStoredStep, Zenon
<1>5. CASE SaveTemporary(r) \/ SaveHash(r) \/ SaveCommitted(r)
  <2>1. PICK step, keys :
            /\ SaveContext(r, step, keys)
            /\ step \in {"saveTemporary", "saveHash", "saveCommitted"}
    BY <1>5, Zenon DEF SaveTemporary, SaveHash, SaveCommitted
  <2> PICK n : n = [m EXCEPT !.context = m.context \cup keys, !.pc = "mark"]
    BY Zenon
  <2>2. /\ m.pc = step
        /\ runners' = [runners EXCEPT ![r] = n]
    BY <2>1, Zenon DEF SaveContext, IInv, TypeOK, Runner
  <2>3. n.pc = "mark" /\ n.at = m.at /\ n.request = m.request
    BY DEF Runner
  <2> QED  BY <1>4, <2>1, <2>2, <2>3, Zenon
<1>6. CASE Complete(r)
  <2> PICK n : n = [m EXCEPT !.pc = "mark"]
    BY Zenon
  <2>1. /\ m.pc = "complete"
        /\ runners' = [runners EXCEPT ![r] = n]
    BY <1>6, Zenon DEF Complete, IInv, TypeOK
  <2>2. n.pc = "mark" /\ n.at = m.at /\ n.request = m.request
    BY DEF Runner
  <2> QED  BY <1>4, <2>1, <2>2, Zenon
<1>7. CASE Fail(r)
  <2>1. runners' = [runners EXCEPT ![r] = Idle]
    BY <1>7, Zenon DEF Fail
  <2>2. ~Landed(Idle)
    BY DEF Idle, Landed
  <2> QED  BY <1>2, <1>3, <2>1, <2>2, QuietStoredStep, Zenon
<1> QED  BY <1>5, <1>6, <1>7, Zenon

(* An error or a lost process changes the local state only.                *)
LEMMA FaultStored ==
    ASSUME IInv, StoredInv, NEW r \in Runners, Fault(r) \/ Crash(r)
    PROVE  StoredInv'
<1> PICK m \in Runner : m = runners[r]
  BY DEF IInv, TypeOK
<1>1. operations' = operations /\ catalog' = catalog /\ canonical' = canonical
  BY Zenon DEF Fault, Crash, dbVars, storageVars
<1>2. PICK n : /\ runners' = [runners EXCEPT ![r] = n]
               /\ n \in {Idle, [m EXCEPT !.pc = "fail"]}
  BY Zenon DEF Fault, Crash, IInv, TypeOK, Runner
<1>3. ~Landed(n)
  BY <1>2 DEF Landed, Idle, Runner
<1> QED  BY <1>1, <1>2, <1>3, QuietStoredStep, Zenon

(* A blob is recorded after the immutable commit was marked.               *)
LEMMA CommitMetadataStored ==
    ASSUME IInv, StoredInv, NEW r \in Runners, CommitMetadata(r)
    PROVE  /\ StoredInv'
           /\ Stored(runners[r].request)
<1> PICK m \in Runner : m = runners[r]
  BY DEF IInv, TypeOK
<1>1. /\ m.pc = "commitMetadata" /\ m.request \in Contents /\ m.key \in Keys
      /\ 5 \in Marked(m.key) /\ m.at = 6
      /\ operations[m.key].request = m.request
  <2>1. m.pc = "commitMetadata" /\ RunnerInv(m)
    BY DEF IInv, CommitMetadata
  <2>2. m.at = 6 /\ 1..(m.at - 1) \subseteq m.done
    BY <2>1 DEF RunnerInv, AtCheckpoint
  <2> QED  BY <2>1, <2>2 DEF RunnerInv
<1>2. Stored(m.request)
  BY <1>1 DEF StoredInv
<1> PICK row : /\ catalog' = [catalog EXCEPT ![m.request] = row]
               /\ runners' = [runners EXCEPT ![r].blob = row, ![r].pc = "mark"]
  BY Zenon DEF CommitMetadata
<1>3. operations' = operations /\ canonical' = canonical
  BY Zenon DEF CommitMetadata, storageVars
<1> PICK n : n = [m EXCEPT !.blob = row, !.pc = "mark"]
  BY Zenon
<1>4. /\ runners'[r] = n
      /\ \A q \in Runners \ {r} : runners'[q] = runners[q]
  BY Zenon DEF IInv, TypeOK
<1>5. ~Landed(n)
  BY <1>1 DEF Landed, Runner
<1>6. RunnerStored(runners[r])'
  BY <1>4, <1>5, Zenon DEF RunnerStored, Landed
<1>7. \A c \in Contents : catalog'[c] # None =>
          catalog[c] # None \/ Stored(c)'
  <2>1. Stored(m.request)'
    BY <1>2, <1>3 DEF Stored
  <2>2. \A c \in Contents : c # m.request => catalog'[c] = catalog[c]
    BY DEF IInv, TypeOK
  <2> QED  BY <2>1, <2>2, Zenon
<1>8. \A k \in Keys : Marked(k)' = Marked(k)
  BY <1>3, Zenon DEF Marked
<1> QED  BY <1>2, <1>3, <1>4, <1>6, <1>7, <1>8, StoredStep, Zenon

(* Every step keeps the invariant.                                         *)
LEMMA NextStored == IInv /\ StoredInv /\ [Next]_vars => StoredInv'
<1> SUFFICES ASSUME IInv, StoredInv, [Next]_vars PROVE StoredInv'
  OBVIOUS
<1>1. CASE UNCHANGED vars
  BY <1>1, Zenon DEF vars, StoredInv, RunnerStored, Landed, Stored, Marked
<1>2. ASSUME NEW r \in Runners, NEW k \in Keys, NEW c \in Contents,
             NEW s \in Stores, Begin(r, k, c, s)
      PROVE  StoredInv'
  BY <1>2, BeginStored
<1>3. ASSUME NEW r \in Runners, Step(r) PROVE StoredInv'
  BY <1>3, MarkCheckpointStored, FindByHashStored, StorageStepStored,
     RowStepStored, CommitMetadataStored, Zenon DEF Step
<1>4. ASSUME NEW r \in Runners, Fault(r) \/ Crash(r) PROVE StoredInv'
  BY <1>4, FaultStored
<1> QED  BY <1>1, <1>2, <1>3, <1>4 DEF Next

-----------------------------------------------------------------------------
(***************************************************************************)
(* The steps of the contract.                                              *)
(***************************************************************************)
(* What the contract sees of the catalogue, the objects and the events     *)
(* changes only with them, and of the rows only with a request or result.  *)
LEMMA SameStored ==
    canonical' = canonical =>
        {c \in Contents : \E s \in Stores : <<s, c>> \in canonical}'
            = {c \in Contents : \E s \in Stores : <<s, c>> \in canonical}
BY Zenon

LEMMA SameBlobs ==
    catalog' = catalog =>
        [c \in Contents |-> BlobIdOf(catalog[c])]'
            = [c \in Contents |-> BlobIdOf(catalog[c])]
BY Zenon DEF BlobIdOf

LEMMA SameRecorded ==
    audit' = audit =>
        {audit[i].operation : i \in 1..Len(audit)}'
            = {audit[i].operation : i \in 1..Len(audit)}
BY Zenon

(* A step that keeps what the contract sees is a stutter of it.            *)
LEMMA ContractStutter ==
    ASSUME \A k \in Keys :
               /\ operations'[k].request = operations[k].request
               /\ operations'[k].result = operations[k].result,
           canonical' = canonical, catalog' = catalog, audit' = audit
    PROVE  UNCHANGED Contract!vars
<1>1. [k \in Keys |-> operations[k].request]' = [k \in Keys |-> operations[k].request]
  BY Zenon
<1>2. [k \in Keys |-> IF operations[k].result = None THEN None
                      ELSE operations[k].result.blob.id]'
          = [k \in Keys |-> IF operations[k].result = None THEN None
                            ELSE operations[k].result.blob.id]
  BY Zenon
<1> QED  BY <1>1, <1>2, SameStored, SameBlobs, SameRecorded, Zenon
         DEF Contract!vars

(* begin registers the request of a key that has none.                     *)
LEMMA BeginContract ==
    ASSUME IInv, NEW r \in Runners, NEW k \in Keys,
           NEW c \in Contents, NEW s \in Stores, Begin(r, k, c, s)
    PROVE  Contract!Next \/ UNCHANGED Contract!vars
<1>1. /\ operations[k].request \in {None, c}
      /\ operations' = [operations EXCEPT ![k].request = c]
      /\ canonical' = canonical /\ catalog' = catalog /\ audit' = audit
  BY Zenon DEF Begin, storageVars
<1>2. \A q \in Keys : operations'[q].result = operations[q].result
  BY BeginRows
<1>3. /\ operations'[k].request = c
      /\ \A q \in Keys \ {k} : operations'[q] = operations[q]
  BY <1>1 DEF IInv, TypeOK, Operation
<1>4. CASE operations[k].request = None
  <2>1. [q \in Keys |-> operations[q].request]'
            = [[q \in Keys |-> operations[q].request] EXCEPT ![k] = c]
    BY <1>3, Zenon
  <2>2. [q \in Keys |-> IF operations[q].result = None THEN None
                        ELSE operations[q].result.blob.id]'
            = [q \in Keys |-> IF operations[q].result = None THEN None
                              ELSE operations[q].result.blob.id]
    BY <1>2, Zenon
  <2>3. Contract!Register(k, c)
    BY <1>1, <1>4, <2>1, <2>2, SameStored, SameBlobs, SameRecorded, Zenon
       DEF Contract!Register
  <2> QED  BY <2>3, Zenon DEF Contract!Next
<1>5. CASE operations[k].request = c
  <2>1. \A q \in Keys : operations'[q].request = operations[q].request
    BY <1>3, <1>5, Zenon
  <2> QED  BY <1>1, <1>2, <2>1, ContractStutter, Zenon
<1> QED  BY <1>1, <1>4, <1>5, Zenon

(* The copy stores the bytes of the request.                               *)
LEMMA CopyContract ==
    ASSUME IInv, NEW r \in Runners, CopyObject(r)
    PROVE  Contract!Next \/ UNCHANGED Contract!vars
<1> PICK m \in Runner : m = runners[r]
  BY DEF IInv, TypeOK
<1>1. /\ m.key \in Keys /\ m.request \in Contents /\ m.store \in Stores
      /\ operations[m.key].request = m.request
  BY DEF IInv, CopyObject, RunnerInv
<1> PICK k \in Keys : k = m.key
  BY <1>1
<1>2. operations' = operations /\ catalog' = catalog /\ audit' = audit
  BY Zenon DEF CopyObject, dbVars
<1>3. CASE canonical' = canonical
  BY <1>2, <1>3, ContractStutter, Zenon
<1>4. CASE canonical' = canonical \cup {<<m.store, m.request>>}
  <2>1. {c \in Contents : \E s \in Stores : <<s, c>> \in canonical}'
            = {c \in Contents : \E s \in Stores : <<s, c>> \in canonical}
                  \cup {m.request}
    BY <1>1, <1>4, Zenon
  <2>2. m.request # None
    BY <1>1, IngestAssumption
  <2>3. [q \in Keys |-> operations[q].request][k] = m.request
    BY <1>1, Zenon
  <2>4. Contract!Store(k)
    BY <1>2, <2>1, <2>2, <2>3, SameBlobs, SameRecorded, Zenon
       DEF Contract!Store
  <2> QED  BY <2>4, Zenon DEF Contract!Next
<1> QED  BY <1>3, <1>4, Zenon DEF CopyObject

(* commitVerifiedIngest names the blob of a content that has none by the   *)
(* call's own id, and records the operation.                               *)
LEMMA CommitContract ==
    ASSUME IInv, StoredInv, NEW r \in Runners, CommitMetadata(r)
    PROVE  Contract!Next
<1> PICK m \in Runner : m = runners[r]
  BY DEF IInv, TypeOK
<1>1. /\ m.key \in Keys /\ m.request \in Contents /\ m.store \in Stores
      /\ operations[m.key].request = m.request
      /\ m.existing # None => catalog[m.request] # None
  BY DEF IInv, CommitMetadata, RunnerInv, BlobKnown
<1> PICK k \in Keys : k = m.key
  BY <1>1
<1> PICK c \in Contents : c = m.request
  BY <1>1
<1> PICK old \in Blob \cup {None} : old = catalog[c]
  BY DEF IInv, TypeOK
<1> PICK id \in Keys \X Runners : id = <<k, r>>
  BY Zenon
<1> PICK candidate : candidate = IF m.existing # None THEN m.existing
                                 ELSE [id |-> id, store |-> m.store]
  BY Zenon
<1>2. candidate \in Blob /\ (old = None => candidate.id = id)
  BY <1>1 DEF Blob, Runner
<1> PICK row : row = RecordBlob(old, candidate)
  BY Zenon
<1>3. /\ row \in Blob /\ row.id \in Keys \X Runners
      /\ row.id = IF old = None THEN id ELSE old.id
  BY <1>2 DEF RecordBlob, Blob
<1>4. /\ catalog' = [catalog EXCEPT ![c] = row]
      /\ audit' = InsertOnce(audit, k, row.id)
      /\ operations' = operations /\ canonical' = canonical
  BY Zenon DEF CommitMetadata, storageVars
<1>5. c \in {d \in Contents : \E s \in Stores : <<s, d>> \in canonical}
  BY CommitMetadataStored, Zenon DEF Stored
<1>6. [d \in Contents |-> BlobIdOf(catalog[d])]' =
          IF BlobIdOf(old) = None
          THEN [[d \in Contents |-> BlobIdOf(catalog[d])] EXCEPT ![c] = id]
          ELSE [d \in Contents |-> BlobIdOf(catalog[d])]
  <2>1. /\ catalog'[c] = row
        /\ \A d \in Contents \ {c} : catalog'[d] = catalog[d]
    BY <1>4 DEF IInv, TypeOK
  <2>2. /\ BlobIdOf(row) = row.id
        /\ BlobIdOf(old) = None <=> old = None
        /\ old # None => BlobIdOf(old) = old.id
    BY <1>3, IngestAssumption, BlobIdAssumption DEF BlobIdOf, Blob
  <2>3. BlobIdOf(catalog'[c]) = IF BlobIdOf(old) = None THEN id
                                ELSE BlobIdOf(old)
    BY <1>3, <2>1, <2>2, Zenon
  <2>4. \A d \in Contents \ {c} : BlobIdOf(catalog'[d]) = BlobIdOf(catalog[d])
    BY <2>1, Zenon
  <2>5. [d \in Contents |-> BlobIdOf(catalog'[d])] =
            IF BlobIdOf(old) = None
            THEN [[d \in Contents |-> BlobIdOf(catalog[d])] EXCEPT ![c] = id]
            ELSE [d \in Contents |-> BlobIdOf(catalog[d])]
    BY <2>3, <2>4
  <2> QED  BY <2>5, Zenon DEF BlobIdOf
<1>7. {audit[i].operation : i \in 1..Len(audit)}' =
          {audit[i].operation : i \in 1..Len(audit)} \cup {k}
  <2>1. Inserted(audit, audit', k, row.id)
    <3>1. audit \in Seq(IngestEvent) /\ OneEach(audit)
      BY DEF IInv, TypeOK, EventsInv, OneEach
    <3> QED  BY <1>3, <1>4, <3>1, InsertOnceFacts, Zenon
  <2>2. /\ \E i \in 1..Len(audit') : audit'[i].operation = k
        /\ \A j \in 1..Len(audit) :
               \E i \in 1..Len(audit') :
                   audit'[i].operation = audit[j].operation
        /\ \A i \in 1..Len(audit') :
               \/ audit'[i].operation = k
               \/ \E j \in 1..Len(audit) :
                     audit'[i].operation = audit[j].operation
    BY <2>1, Zenon DEF Inserted, EventsOf
  <2>3. \A q : /\ q \in {audit[i].operation : i \in 1..Len(audit)} <=>
                     \E i \in 1..Len(audit) : audit[i].operation = q
              /\ q \in {audit'[i].operation : i \in 1..Len(audit')} <=>
                     \E i \in 1..Len(audit') : audit'[i].operation = q
    BY Zenon
  <2>4. ASSUME NEW q, \E i \in 1..Len(audit') : audit'[i].operation = q
        PROVE  q = k \/ \E i \in 1..Len(audit) : audit[i].operation = q
    BY <2>2, <2>4, Zenon
  <2>5. ASSUME NEW q, q = k \/ \E i \in 1..Len(audit) : audit[i].operation = q
        PROVE  \E i \in 1..Len(audit') : audit'[i].operation = q
    BY <2>2, <2>5, Zenon
  <2> QED  BY <2>3, <2>4, <2>5, Zenon
<1>8. [q \in Keys |-> operations[q].request][k] = c
  BY <1>1, Zenon
<1>9. [d \in Contents |-> BlobIdOf(catalog[d])][c] = BlobIdOf(old)
  BY Zenon
<1>10. Contract!Record(k, id)
  BY <1>4, <1>5, <1>6, <1>7, <1>8, <1>9, SameStored, Zenon
     DEF Contract!Record
<1> QED  BY <1>10, Zenon DEF Contract!Next

(* complete acknowledges a recorded operation with the blob of its         *)
(* content.                                                                *)
LEMMA CompleteContract ==
    ASSUME IInv, NEW r \in Runners, Complete(r)
    PROVE  Contract!Next
<1> PICK m \in Runner : m = runners[r]
  BY DEF IInv, TypeOK
<1>1. m.pc = "complete" /\ RunnerInv(m)
  BY Zenon DEF IInv, Complete
<1>2. /\ m.key \in Keys /\ m.request \in Contents /\ m.blob \in Blob
      /\ operations[m.key].request = m.request
      /\ 6 \in Marked(m.key) /\ catalog[m.request] # None
      /\ catalog[m.request].id = m.blob.id
  <2>1. m.at = 8 /\ 1..(m.at - 1) \subseteq m.done /\ m.blob # None
    BY <1>1 DEF RunnerInv, AtCheckpoint
  <2> QED  BY <1>1, <2>1 DEF RunnerInv, BlobKnown, Runner
<1> PICK k \in Keys : k = m.key
  BY <1>2
<1> PICK c \in Contents : c = m.request
  BY <1>2
<1> PICK result \in IngestResult :
        result = [blob |-> m.blob, deduplicated |-> m.deduplicated]
  BY <1>2, Zenon DEF IngestResult, Runner
<1>3. /\ operations' = [operations EXCEPT ![k].state = completed,
                                          ![k].result = result]
      /\ catalog' = catalog /\ audit' = audit /\ canonical' = canonical
  BY Zenon DEF Complete, storageVars
<1>4. \A q \in Keys : operations'[q].request = operations[q].request
  BY WrittenRows
<1>5. /\ operations'[k].result = result
      /\ \A q \in Keys \ {k} : operations'[q] = operations[q]
  BY <1>3, Zenon DEF IInv, TypeOK, Operation
<1>6. result # None /\ result.blob.id = m.blob.id
  BY IngestAssumption
<1>7. [q \in Keys |-> operations[q].request]' = [q \in Keys |-> operations[q].request]
  BY <1>4, Zenon
<1>8. [q \in Keys |-> IF operations[q].result = None THEN None
                      ELSE operations[q].result.blob.id]' =
          [[q \in Keys |-> IF operations[q].result = None THEN None
                           ELSE operations[q].result.blob.id]
             EXCEPT ![k] = m.blob.id]
  BY <1>5, <1>6, Zenon
<1>9. [d \in Contents |-> BlobIdOf(catalog[d])]
          [[q \in Keys |-> operations[q].request][k]] = m.blob.id
  <2>1. [q \in Keys |-> operations[q].request][k] = c
    BY <1>2, Zenon
  <2>2. BlobIdOf(catalog[c]) = m.blob.id
    BY <1>2, Zenon DEF BlobIdOf
  <2> QED  BY <2>1, <2>2, Zenon
<1>10. k \in {audit[i].operation : i \in 1..Len(audit)}
  BY <1>2 DEF IInv, OperationInv, Recorded, EventsOf
<1>11. Contract!Acknowledge(k)
  BY <1>3, <1>7, <1>8, <1>9, <1>10, SameStored, SameBlobs, SameRecorded, Zenon
     DEF Contract!Acknowledge
<1> QED  BY <1>11, Zenon DEF Contract!Next

(* The other actions keep the requests, the results, the canonical         *)
(* objects, the catalogue and the audit events.                            *)
LEMMA QuietContract ==
    ASSUME IInv, NEW r \in Runners,
           \/ MarkCheckpoint(r) \/ FindByHash(r) \/ WriteTemporary(r)
           \/ InspectTemporary(r) \/ VerifyCommitted(r)
           \/ InspectCanonical(r) \/ DeleteTemporary(r) \/ Fail(r)
           \/ SaveTemporary(r) \/ SaveHash(r) \/ SaveCommitted(r)
           \/ Fault(r) \/ Crash(r)
    PROVE  UNCHANGED Contract!vars
<1>1. canonical' = canonical /\ catalog' = catalog /\ audit' = audit
  BY Zenon DEF MarkCheckpoint, FindByHash, WriteTemporary, InspectTemporary,
     VerifyCommitted, InspectCanonical, DeleteTemporary, Fail, SaveTemporary,
     SaveHash, SaveCommitted, SaveContext, Fault, Crash, storageVars, dbVars
<1>2. \A k \in Keys : /\ operations'[k].request = operations[k].request
                      /\ operations'[k].result = operations[k].result
  <2>1. CASE MarkCheckpoint(r)
    <3> PICK m \in Runner : m = runners[r]
      BY Zenon DEF IInv, TypeOK
    <3>1. m.key \in Keys
      BY <2>1 DEF IInv, RunnerInv, MarkCheckpoint
    <3> QED  BY <2>1, <3>1, MarkRows, Zenon
  <2>2. CASE Fail(r) \/ SaveTemporary(r) \/ SaveHash(r) \/ SaveCommitted(r)
    <3> PICK m \in Runner : m = runners[r]
      BY DEF IInv, TypeOK
    <3>1. m.pc # "complete"
      BY <2>2, Zenon DEF Fail, SaveTemporary, SaveHash, SaveCommitted, SaveContext
    <3>2. ~Complete(r)
      BY <3>1, Zenon DEF Complete
    <3> QED  BY <2>2, <3>2, WrittenRows, Zenon
  <2>3. CASE \/ FindByHash(r) \/ WriteTemporary(r) \/ InspectTemporary(r)
             \/ VerifyCommitted(r) \/ InspectCanonical(r)
             \/ DeleteTemporary(r) \/ Fault(r) \/ Crash(r)
    BY <2>3, Zenon DEF FindByHash, WriteTemporary, InspectTemporary,
       VerifyCommitted, InspectCanonical, DeleteTemporary, Fault, Crash, dbVars
  <2> QED  BY <2>1, <2>2, <2>3, Zenon
<1> QED  BY <1>1, <1>2, ContractStutter, Zenon

(* Every step of the ingest is a step of the contract or a stutter.        *)
LEMMA NextContract ==
    IInv /\ StoredInv /\ [Next]_vars => [Contract!Next]_(Contract!vars)
<1> SUFFICES ASSUME IInv, StoredInv, [Next]_vars
             PROVE  Contract!Next \/ UNCHANGED Contract!vars
  BY Zenon
<1>1. CASE UNCHANGED vars
  BY <1>1, ContractStutter, Zenon DEF vars
<1>2. ASSUME NEW r \in Runners, NEW k \in Keys, NEW c \in Contents,
             NEW s \in Stores, Begin(r, k, c, s)
      PROVE  Contract!Next \/ UNCHANGED Contract!vars
  BY <1>2, BeginContract
<1>3. ASSUME NEW r \in Runners, Step(r)
      PROVE  Contract!Next \/ UNCHANGED Contract!vars
  BY <1>3, QuietContract, CopyContract, CommitContract, CompleteContract, Zenon
     DEF Step
<1>4. ASSUME NEW r \in Runners, Fault(r) \/ Crash(r)
      PROVE  Contract!Next \/ UNCHANGED Contract!vars
  BY <1>4, QuietContract, Zenon
<1> QED  BY <1>1, <1>2, <1>3, <1>4, Zenon DEF Next

(* Every behaviour of the ingest is one its contract allows, for every     *)
(* number of keys, contents, storages and overlapping calls and however    *)
(* keys are routed: bytes are stored before a blob is recorded, the first  *)
(* record names the blob for good, and a call is acknowledged with that    *)
(* blob once it is recorded.                                               *)
THEOREM IngestImplementsContract == Spec => ImplementsContract
<1>1. Init => Contract!Init
  <2> SUFFICES ASSUME Init PROVE Contract!Init
    OBVIOUS
  <2>1. /\ \A k \in Keys : /\ operations[k].request = None
                           /\ operations[k].result = None
        /\ \A c \in Contents : BlobIdOf(catalog[c]) = None
        /\ canonical = {}
    BY DEF Init, NoOperation, BlobIdOf
  <2>2. {audit[i].operation : i \in 1..Len(audit)} = {}
    BY DEF Init
  <2> QED  BY <2>1, <2>2, Zenon DEF Contract!Init
<1>2. Spec => []StoredInv
  BY InitStored, NextStored, Invariance, PTL DEF Spec
<1> QED  BY <1>1, <1>2, NextContract, Invariance, PTL
         DEF Spec, ImplementsContract, Contract!Spec
=============================================================================
