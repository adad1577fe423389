------------------------ MODULE UploadStorageProofs -------------------------
(***************************************************************************)
(* Proofs about UploadScan and, below the line, about MemoryStorage.       *)
(***************************************************************************)
EXTENDS UploadScan, MemoryStorage, TLAPS

(* A call past the queue has the scan job of the upload: it is driving it. *)
Sent == {"scanning", "callback", "accept", "pending", "promote", "complete"}
Driving == Sent \cup {"submit"}

(* The state of the record where a driving call is. *)
StateAt(pc) ==
    /\ pc \in {"submit", "scanning"} => scan.state = "scan_queued"
    /\ pc \in {"callback", "accept"} => fakeScanner /\ scan.state = "scanning"
    /\ pc = "pending" => fakeScanner /\ scan.state = "accepted"
    /\ pc = "promote" => fakeScanner /\ scan.state = "promotion_pending"
    /\ pc = "complete" => IF fakeScanner THEN scan.state = "promoted"
                                         ELSE scan.state # "scan_queued"

CallInv(c) ==
    /\ calls[c].pc \in Driving =>
         /\ scan # None /\ calls[c].job = scan.job
         /\ ingested /\ session # "completed" /\ StateAt(calls[c].pc)
    /\ calls[c].pc \in Sent => calls[c].job \in submitted
    /\ calls[c].pc = "queue" => /\ ingested /\ calls[c].job # None
                                /\ scan # None => scan.job # calls[c].job

(* Job ids are drawn once. *)
JobsDiffer ==
    \A c, d \in Calls : calls[c].job = calls[d].job /\ calls[c].job # None => c = d

(* Only the job of the record was submitted, only that one is reported,    *)
(* and only after the scanning state was read is an outcome saved.         *)
ScanInv ==
    /\ \A j \in submitted : scan # None /\ scan.job = j
    /\ \A d \in Callbacks : callbacks[d].pc # "idle" =>
         /\ ~fakeScanner
         /\ callbacks[d].job \in submitted
         /\ callbacks[d].outcome \in Outcomes
    /\ \A d \in Callbacks : callbacks[d].pc = "save" => scan.state # "scan_queued"

(* What a process remembers, or has acknowledged, was recorded or is about *)
(* to be.                                                                  *)
Acknowledged ==
    \/ \E d \in Callbacks : callbacks[d].pc = "handled"
    \/ \E p \in Processes : processed[p] # {}
AckInv ==
    (faults = 0 /\ ~fakeScanner /\ Acknowledged) =>
        /\ submitted # {}
        /\ \/ scan.state \notin {"scan_queued", "scanning"}
           \/ \E d \in Callbacks : callbacks[d].pc = "save"

IInv ==
    /\ TypeOK /\ JobsDiffer /\ ScanInv /\ AckInv /\ CompletedWasScanned
    /\ \A c \in Calls : CallInv(c)

-----------------------------------------------------------------------------
(* The calls.  The local state of a call after a step that keeps its job. *)
LEMMA CallGoesTo ==
    ASSUME TypeOK, NEW c \in Calls, NEW pc \in CallPcs, CallGoes(c, pc)
    PROVE  /\ calls' \in [Calls -> Call]
           /\ calls'[c].pc = pc /\ calls'[c].job = calls[c].job
           /\ \A d \in Calls \ {c} : calls'[d] = calls[d]
<1>1. calls \in [Calls -> Call] /\ calls[c] \in Call
  BY DEF TypeOK
<1>2. calls' = [calls EXCEPT ![c] = [calls[c] EXCEPT !.pc = pc]]
  BY <1>1 DEF CallGoes
<1>3. /\ [calls[c] EXCEPT !.pc = pc] \in Call
      /\ [calls[c] EXCEPT !.pc = pc].pc = pc
      /\ [calls[c] EXCEPT !.pc = pc].job = calls[c].job
  BY <1>1 DEF Call
<1>4. QED BY <1>1, <1>2, <1>3

LEMMA CallGivesUp ==
    ASSUME TypeOK, NEW c \in Calls,
           calls' = [calls EXCEPT ![c].pc = "failed", ![c].job = None]
    PROVE  /\ calls' \in [Calls -> Call]
           /\ calls'[c].pc = "failed" /\ calls'[c].job = None
           /\ \A d \in Calls \ {c} : calls'[d] = calls[d]
<1> DEFINE x == [calls[c] EXCEPT !.pc = "failed", !.job = None]
<1>1. calls \in [Calls -> Call] /\ calls[c] \in Call
  BY DEF TypeOK
<1>2. calls' = [calls EXCEPT ![c] = x]
  BY <1>1, Zenon
<1>3. x \in Call /\ x.pc = "failed" /\ x.job = None
  BY <1>1, Zenon DEF Call, CallPcs
<1>4. QED BY <1>1, <1>2, <1>3

(* No call has the job of another after a step of the calls in which every *)
(* call keeps its job or drops it.                                         *)
LEMMA JobsStayDifferent ==
    ASSUME JobsDiffer,
           \A d \in Calls : calls'[d].job = calls[d].job \/ calls'[d].job = None
    PROVE  JobsDiffer'
  BY DEF JobsDiffer

(* A call that does not move keeps its invariant when the tables stay. *)
LEMMA CallRests ==
    ASSUME NEW d \in Calls, CallInv(d),
           calls'[d].pc = calls[d].pc, calls'[d].job = calls[d].job,
           UNCHANGED <<fakeScanner, session, ingested, scan>>, submitted \subseteq submitted'
    PROVE  CallInv(d)'
  BY DEF CallInv, StateAt

(* The driving call c writes the record of its job, and with it whatever   *)
(* state: the other calls are not driving it, and will not queue it.       *)
LEMMA OthersRest ==
    ASSUME IInv, NEW c \in Calls, NEW d \in Calls, d # c,
           calls[c].job # None, scan = None \/ scan.job = calls[c].job,
           scan' # None, scan'.job = calls[c].job, calls'[d] = calls[d],
           UNCHANGED <<fakeScanner, session, ingested, submitted>>
    PROVE  CallInv(d)'
<1>1. CallInv(d)
  BY DEF IInv
<1>2. calls[d].job # calls[c].job
  BY DEF IInv, JobsDiffer
<1>3. calls[d].pc \notin Driving
  BY <1>1, <1>2 DEF CallInv
<1>4. calls[d].pc \notin Sent
  BY <1>3 DEF Driving
<1>5. QED BY <1>1, <1>2, <1>3, <1>4 DEF CallInv

(* The tables stay as they are: so does what is said of them. *)
LEMMA SameTables ==
    ASSUME IInv, UNCHANGED <<fakeScanner, session, ingested, scan, submitted, processed,
                             callbacks, faults>>
    PROVE  ScanInv' /\ AckInv' /\ CompletedWasScanned' /\ ScanKept
<1>1. ScanInv'
  BY DEF IInv, ScanInv
<1>2. AckInv'
  BY DEF IInv, AckInv, Acknowledged
<1>3. CompletedWasScanned'
  BY DEF IInv, CompletedWasScanned
<1>4. ScanKept
  BY DEF IInv, ScanInv, ScanKept
<1>5. QED BY <1>1, <1>2, <1>3, <1>4

-----------------------------------------------------------------------------
(* One lemma per action.  SafeStep is what every one of them establishes.  *)
SafeStep == IInv' /\ ScanKept

LEMMA MoveStep ==
    ASSUME IInv, NEW c \in Calls, NEW pc \in CallPcs, CallGoes(c, pc),
           UNCHANGED <<uploadVars, scanVars, callbacks, faults>>, CallInv(c)'
    PROVE  SafeStep
<1>1. UNCHANGED <<fakeScanner, session, expired, ingested, scan, submitted, processed,
                  callbacks, faults>>
  BY DEF uploadVars, scanVars
<1>2. /\ calls' \in [Calls -> Call]
      /\ calls'[c].job = calls[c].job
      /\ \A d \in Calls \ {c} : calls'[d] = calls[d]
  BY CallGoesTo DEF IInv
<1>3. ScanInv' /\ AckInv' /\ CompletedWasScanned' /\ ScanKept
  BY <1>1, SameTables
<1>4. JobsDiffer'
  BY <1>2, JobsStayDifferent DEF IInv
<1>5. \A d \in Calls : CallInv(d)'
  <2>1. ASSUME NEW d \in Calls, d # c
        PROVE  CallInv(d)'
    BY <1>1, <1>2, <2>1, CallRests DEF IInv
  <2>2. QED BY <2>1
<1>6. TypeOK'
  BY <1>1, <1>2 DEF IInv, TypeOK
<1>7. QED BY <1>3, <1>4, <1>5, <1>6 DEF SafeStep, IInv

LEMMA RequestStep ==
    ASSUME IInv, NEW c \in Calls, Request(c)
    PROVE  SafeStep
<1>1. CallGoes(c, "session") /\ "session" \in CallPcs
  BY DEF Request, CallPcs
<1>2. CallInv(c)'
  BY <1>1, CallGoesTo DEF IInv, CallInv, Driving, Sent
<1>3. QED BY <1>1, <1>2, MoveStep DEF Request

LEMMA ReadSessionStep ==
    ASSUME IInv, NEW c \in Calls, ReadSession(c)
    PROVE  SafeStep
<1>1. PICK pc \in {"returned", "failed", "ingest"} : CallGoes(c, pc)
  BY DEF ReadSession
<1>2. pc \in CallPcs
  BY <1>1 DEF CallPcs
<1>3. CallInv(c)'
  BY <1>1, <1>2, CallGoesTo DEF IInv, CallInv, Driving, Sent
<1>4. QED BY <1>1, <1>2, <1>3, MoveStep DEF ReadSession

(* The job a call draws is that of no record and of no other call. *)
LEMMA IngestStep ==
    ASSUME IInv, NEW c \in Calls, Ingest(c)
    PROVE  SafeStep
<1> DEFINE job == CHOOSE j \in FreshJobs : TRUE
           x == [calls[c] EXCEPT !.pc = "queue", !.job = job]
<1>1. job \in FreshJobs
  BY DEF Ingest
<1>2. /\ job \in JobIds /\ job # None
      /\ scan # None => scan.job # job
      /\ \A d \in Calls : calls[d].job # job
  BY <1>1, UploadConstants DEF FreshJobs
<1>3. /\ ingested' = TRUE /\ calls' = [calls EXCEPT ![c].pc = "queue", ![c].job = job]
      /\ UNCHANGED <<fakeScanner, session, expired, scan, submitted, processed,
                     callbacks, faults>>
  BY DEF Ingest, scanVars
<1> HIDE DEF job
<1>4. /\ calls \in [Calls -> Call] /\ calls[c] \in Call
      /\ calls' = [calls EXCEPT ![c] = x]
  BY <1>3, Zenon DEF IInv, TypeOK
<1>5. x \in Call /\ x.pc = "queue" /\ x.job = job
  BY <1>2, <1>4, Zenon DEF Call, CallPcs
<1>6. /\ calls' \in [Calls -> Call] /\ calls'[c] = x
      /\ \A d \in Calls \ {c} : calls'[d] = calls[d]
  BY <1>4, <1>5
<1> HIDE DEF x
<1>7. JobsDiffer'
  BY <1>2, <1>5, <1>6 DEF IInv, JobsDiffer
<1>8. \A d \in Calls : CallInv(d)'
  <2>1. CallInv(c)'
    BY <1>2, <1>3, <1>5, <1>6 DEF CallInv, Driving, Sent
  <2>2. ASSUME NEW d \in Calls, d # c
        PROVE  CallInv(d)'
    BY <1>3, <1>6, <2>2 DEF IInv, CallInv, StateAt
  <2>3. QED BY <2>1, <2>2
<1>9. ScanInv' /\ AckInv'
  BY <1>3 DEF IInv, ScanInv, AckInv, Acknowledged
<1>10. CompletedWasScanned' /\ ScanKept
  BY <1>3 DEF IInv, CompletedWasScanned, ScanKept, ScanInv
<1>11. TypeOK'
  BY <1>3, <1>6 DEF IInv, TypeOK
<1>12. QED BY <1>7, <1>8, <1>9, <1>10, <1>11 DEF SafeStep, IInv

LEMMA SubmitScanStep ==
    ASSUME IInv, NEW c \in Calls, SubmitScan(c)
    PROVE  SafeStep
<1>1. /\ calls[c].pc = "submit" /\ submitted' = submitted \cup {calls[c].job}
      /\ CallGoes(c, "scanning") /\ "scanning" \in CallPcs
      /\ UNCHANGED <<fakeScanner, session, expired, ingested, scan, processed,
                     callbacks, faults>>
  BY DEF SubmitScan, CallAt, CallPcs, uploadVars
<1>2. CallInv(c) /\ calls[c].pc \in Driving
  BY <1>1 DEF IInv, Driving
<1>3. /\ scan # None /\ calls[c].job = scan.job /\ scan.state = "scan_queued"
      /\ ingested /\ session # "completed" /\ scan.job \in JobIds
  BY <1>1, <1>2 DEF CallInv, StateAt, IInv, TypeOK, Scan
<1>4. /\ calls' \in [Calls -> Call]
      /\ calls'[c].pc = "scanning" /\ calls'[c].job = calls[c].job
      /\ \A d \in Calls \ {c} : calls'[d] = calls[d]
  BY <1>1, CallGoesTo DEF IInv
<1>5. \A d \in Calls : CallInv(d)'
  <2>1. CallInv(c)'
    BY <1>1, <1>3, <1>4 DEF CallInv, StateAt, Driving, Sent
  <2>2. ASSUME NEW d \in Calls, d # c
        PROVE  CallInv(d)'
    BY <1>1, <1>4, <2>2, CallRests DEF IInv
  <2>3. QED BY <2>1, <2>2
<1>6. JobsDiffer'
  BY <1>4, JobsStayDifferent DEF IInv
<1>7. ScanInv'
  BY <1>1, <1>3 DEF IInv, ScanInv
<1>8. AckInv'
  BY <1>1 DEF IInv, AckInv, Acknowledged
<1>9. CompletedWasScanned' /\ ScanKept
  BY <1>1, <1>3 DEF IInv, CompletedWasScanned, ScanKept, ScanInv
<1>10. TypeOK'
  BY <1>1, <1>3, <1>4 DEF IInv, TypeOK
<1>11. QED BY <1>5, <1>6, <1>7, <1>8, <1>9, <1>10 DEF SafeStep, IInv

(* save of a call: the record of another job is left alone and the call    *)
(* fails; else the call goes on to next with the record in a state that    *)
(* agrees with it.  Before the scanning state is saved nothing was         *)
(* acknowledged.                                                           *)
LEMMA SaveScanStep ==
    ASSUME IInv, NEW c \in Calls, NEW state \in States, NEW outcome \in Outcomes \cup {None},
           NEW next \in Driving, SaveScan(c, state, outcome, next),
           calls[c].pc \in Driving \cup {"queue"},
           next \in Sent => calls[c].pc \in Sent,
           calls[c].pc = "queue" \/ state # "scan_queued",
           fakeScanner \/ calls[c].pc \in {"queue", "scanning"},
           scan' = [job |-> calls[c].job, state |-> state, outcome |-> outcome]
             => StateAt(next)'
    PROVE  SafeStep
<1> DEFINE job == calls[c].job
<1>1. UNCHANGED <<fakeScanner, session, expired, ingested, submitted, processed,
                  callbacks, faults>>
  BY DEF SaveScan, uploadVars
<1>2. CallInv(c) /\ TypeOK /\ ScanInv /\ AckInv /\ calls[c] \in Call
  BY DEF IInv, TypeOK
<1>3. /\ ingested /\ job # None /\ job \in JobIds
      /\ calls[c].pc = "queue" \/ (scan # None /\ scan.job = job /\ session # "completed")
  BY <1>2, UploadConstants DEF CallInv, TypeOK, Scan, Call
<1>4. CASE Conflicts(job)
  <2>1. calls' = [calls EXCEPT ![c].pc = "failed", ![c].job = None] /\ UNCHANGED scan
    BY <1>4 DEF SaveScan
  <2>2. /\ calls' \in [Calls -> Call]
        /\ calls'[c].pc = "failed" /\ calls'[c].job = None
        /\ \A d \in Calls \ {c} : calls'[d] = calls[d]
    BY <1>2, <2>1, CallGivesUp, Zenon
  <2>3. JobsDiffer'
    BY <2>2, JobsStayDifferent DEF IInv
  <2>4. ScanInv' /\ AckInv' /\ CompletedWasScanned' /\ ScanKept
    BY <1>1, <2>1, SameTables
  <2>5. CallInv(c)'
    BY <2>2 DEF CallInv, Driving, Sent
  <2>6. ASSUME NEW d \in Calls, d # c
        PROVE  CallInv(d)'
    BY <1>1, <2>1, <2>2, <2>6, CallRests DEF IInv
  <2>7. TypeOK'
    BY <1>1, <1>2, <2>1, <2>2 DEF TypeOK
  <2>8. QED BY <2>3, <2>4, <2>5, <2>6, <2>7 DEF SafeStep, IInv
<1>5. CASE ~Conflicts(job)
  <2>1. /\ scan' = [job |-> job, state |-> state, outcome |-> outcome]
        /\ CallGoes(c, next) /\ next \in CallPcs
    BY <1>5 DEF SaveScan, CallPcs, Driving, Sent
  <2>2. /\ scan' \in Scan /\ scan' # None /\ scan'.job = job /\ scan'.state = state
    BY <1>3, <2>1, UploadConstants DEF Scan
  <2>3. scan = None \/ scan.job = job
    BY <1>5 DEF Conflicts
  <2>4. session # "completed" /\ (calls[c].pc = "queue" => scan = None)
    BY <1>2, <1>3, <2>3 DEF CallInv, IInv, CompletedWasScanned
  <2>5. /\ calls' \in [Calls -> Call]
        /\ calls'[c].pc = next /\ calls'[c].job = job
        /\ \A d \in Calls \ {c} : calls'[d] = calls[d]
    BY <1>2, <2>1, CallGoesTo
  <2>6. JobsDiffer'
    BY <2>5, JobsStayDifferent, Zenon DEF IInv
  <2>7. CallInv(c)'
    <3>1. StateAt(next)'
      BY <2>1
    <3>2. next \in Sent => job \in submitted
      BY <1>2 DEF CallInv
    <3>3. next # "queue"
      BY Zenon DEF Driving, Sent
    <3>4. QED
      BY <1>1, <1>3, <2>2, <2>4, <2>5, <3>1, <3>2, <3>3, Zenon DEF CallInv, StateAt
  <2>8. ASSUME NEW d \in Calls, d # c
        PROVE  CallInv(d)'
    BY <1>1, <1>3, <2>2, <2>3, <2>5, <2>8, OthersRest, Zenon
  <2>9. scan = None => submitted = {}
    BY <1>2 DEF ScanInv
  <2>10. ScanInv'
    <3>1. \A j \in submitted' : scan' # None /\ scan'.job = j
      BY <1>1, <1>2, <2>2, <2>3, <2>9 DEF ScanInv
    <3>2. \A d \in Callbacks : callbacks'[d].pc = "save" => scan'.state # "scan_queued"
      BY <1>1, <1>2, <2>2, <2>4, <2>9 DEF ScanInv
    <3>3. QED BY <1>1, <1>2, <3>1, <3>2 DEF ScanInv
  <2>11. AckInv'
    <3>1. CASE fakeScanner
      BY <1>1, <3>1 DEF AckInv
    <3>2. CASE calls[c].pc = "queue"
      BY <1>1, <1>2, <2>4, <2>9, <3>2, Zenon DEF AckInv, Acknowledged
    <3>3. CASE calls[c].pc = "scanning"
      <4>1. scan.state = "scan_queued"
        BY <1>2, <3>3 DEF CallInv, StateAt, Driving, Sent
      <4>2. ~(faults = 0 /\ ~fakeScanner /\ Acknowledged)
        BY <1>2, <4>1 DEF ScanInv, AckInv
      <4>3. QED BY <1>1, <4>2 DEF AckInv, Acknowledged
    <3>4. QED BY <3>1, <3>2, <3>3
  <2>12. CompletedWasScanned'
    BY <1>1, <2>4 DEF CompletedWasScanned
  <2>13. ScanKept
    BY <1>1, <1>2, <2>2, <2>3, <2>9, Zenon DEF ScanKept, ScanInv
  <2>14. TypeOK'
    BY <1>1, <1>2, <2>2, <2>5 DEF TypeOK
  <2>15. QED
    BY <2>6, <2>7, <2>8, <2>10, <2>11, <2>12, <2>13, <2>14 DEF SafeStep, IInv
<1>6. QED BY <1>4, <1>5

LEMMA SavingSteps ==
    ASSUME IInv, NEW c \in Calls,
           \/ QueueScan(c) \/ MarkScanning(c) \/ SaveAccepted(c)
           \/ SavePromotionPending(c) \/ SavePromoted(c)
    PROVE  SafeStep
<1>1. CallInv(c) /\ "clean" \in Outcomes
  BY UploadConstants DEF IInv
<1>2. CASE QueueScan(c)
  <2>1. calls[c].pc = "queue" /\ SaveScan(c, "scan_queued", None, "submit")
    BY <1>2 DEF QueueScan, CallAt
  <2>2. ASSUME scan' = [job |-> calls[c].job, state |-> "scan_queued", outcome |-> None]
        PROVE  StateAt("submit")'
    BY <2>2 DEF StateAt
  <2>3. "scan_queued" \in States /\ "submit" \in Driving /\ "submit" \notin Sent
    BY DEF States, Driving, Sent
  <2>4. QED BY <2>1, <2>2, <2>3, SaveScanStep
<1>3. CASE MarkScanning(c)
  <2>1. PICK next \in {"callback", "complete"} :
          /\ next = IF fakeScanner THEN "callback" ELSE "complete"
          /\ calls[c].pc = "scanning" /\ SaveScan(c, "scanning", None, next)
    BY <1>3 DEF MarkScanning, CallAt
  <2>2. ASSUME scan' = [job |-> calls[c].job, state |-> "scanning", outcome |-> None]
        PROVE  StateAt(next)'
    <3>1. fakeScanner' = fakeScanner
      BY <2>1 DEF SaveScan, uploadVars
    <3>2. QED BY <2>1, <2>2, <3>1 DEF StateAt
  <2>3. "scanning" \in States /\ next \in Driving /\ "scanning" \in Sent
    BY DEF States, Driving, Sent
  <2>4. QED BY <2>1, <2>2, <2>3, SaveScanStep DEF Driving
<1>4. ASSUME NEW pc \in {"accept", "pending", "promote"},
             NEW state \in {"accepted", "promotion_pending", "promoted"},
             NEW next \in {"pending", "promote", "complete"},
             state = "accepted" <=> next = "pending",
             state = "promotion_pending" <=> next = "promote",
             calls[c].pc = pc, SaveScan(c, state, "clean", next)
      PROVE  SafeStep
  <2>1. pc \in Driving /\ pc \in Sent /\ next \in Driving /\ state \in States
    BY DEF Driving, Sent, States
  <2>2. fakeScanner
    BY <1>1, <1>4, <2>1 DEF CallInv, StateAt
  <2>3. ASSUME scan' = [job |-> calls[c].job, state |-> state, outcome |-> "clean"]
        PROVE  StateAt(next)'
    <3>1. fakeScanner' = fakeScanner
      BY <1>4 DEF SaveScan, uploadVars
    <3>2. QED BY <1>4, <2>2, <2>3, <3>1 DEF StateAt
  <2>4. QED BY <1>1, <1>4, <2>1, <2>2, <2>3, SaveScanStep
<1>5. CASE SaveAccepted(c)
  BY <1>4, <1>5 DEF SaveAccepted, CallAt
<1>6. CASE SavePromotionPending(c)
  BY <1>4, <1>6 DEF SavePromotionPending, CallAt
<1>7. CASE SavePromoted(c)
  BY <1>4, <1>7 DEF SavePromoted, CallAt
<1>8. QED BY <1>2, <1>3, <1>5, <1>6, <1>7

(* The fake scanner's callback finds the state its own call just saved. *)
LEMMA FakeCallbackStep ==
    ASSUME IInv, NEW c \in Calls, FakeCallback(c)
    PROVE  SafeStep
<1>1. calls[c].pc = "callback" /\ CallInv(c) /\ calls[c].pc \in Driving
  BY DEF FakeCallback, CallAt, IInv, Driving, Sent
<1>2. /\ scan # None /\ calls[c].job = scan.job /\ fakeScanner /\ scan.state = "scanning"
      /\ ingested /\ session # "completed" /\ calls[c].job \in submitted
  BY <1>1 DEF CallInv, StateAt, Sent
<1>3. /\ CallGoes(c, "accept") /\ "accept" \in CallPcs
      /\ processed' = [processed EXCEPT ![calls[c].process] = @ \cup {<<calls[c].job, "clean">>}]
      /\ UNCHANGED <<fakeScanner, session, expired, ingested, scan, submitted, callbacks, faults>>
  BY <1>2 DEF FakeCallback, uploadVars, CallPcs
<1>4. /\ calls' \in [Calls -> Call]
      /\ calls'[c].pc = "accept" /\ calls'[c].job = calls[c].job
      /\ \A d \in Calls \ {c} : calls'[d] = calls[d]
  BY <1>3, CallGoesTo DEF IInv
<1>5. processed' \in [Processes -> SUBSET (JobIds \X Outcomes)]
  <2>1. /\ processed \in [Processes -> SUBSET (JobIds \X Outcomes)]
        /\ calls[c].job \in JobIds
    BY <1>2 DEF IInv, TypeOK
  <2>2. <<calls[c].job, "clean">> \in JobIds \X Outcomes
    BY <2>1, UploadConstants
  <2>3. QED BY <1>3, <2>1, <2>2, Zenon
<1>6. \A d \in Calls : CallInv(d)'
  <2>1. CallInv(c)'
    BY <1>2, <1>3, <1>4, Zenon DEF CallInv, StateAt, Driving, Sent
  <2>2. ASSUME NEW d \in Calls, d # c
        PROVE  CallInv(d)'
    BY <1>3, <1>4, <2>2, CallRests DEF IInv
  <2>3. QED BY <2>1, <2>2
<1>7. JobsDiffer'
  BY <1>4, JobsStayDifferent DEF IInv
<1>8. AckInv'
  BY <1>2, <1>3 DEF AckInv
<1>9. ScanInv' /\ CompletedWasScanned' /\ ScanKept
  BY <1>3 DEF IInv, ScanInv, CompletedWasScanned, ScanKept
<1>10. TypeOK'
  BY <1>3, <1>4, <1>5 DEF IInv, TypeOK
<1>11. QED BY <1>6, <1>7, <1>8, <1>9, <1>10 DEF SafeStep, IInv

(* The session is completed by the only call that drives its scan. *)
LEMMA CompleteSessionStep ==
    ASSUME IInv, NEW c \in Calls, CompleteSession(c)
    PROVE  SafeStep
<1>1. /\ calls[c].pc = "complete" /\ session' = "completed" /\ CallGoes(c, "returned")
      /\ "returned" \in CallPcs /\ calls[c].pc \in Driving /\ calls[c].pc \in Sent
      /\ UNCHANGED <<fakeScanner, expired, ingested, scan, submitted, processed, callbacks, faults>>
  BY DEF CompleteSession, CallAt, CallPcs, Driving, Sent, scanVars
<1>2. /\ scan # None /\ calls[c].job = scan.job /\ ingested /\ calls[c].job \in submitted
      /\ IF fakeScanner THEN scan.state = "promoted" ELSE scan.state # "scan_queued"
  BY <1>1 DEF IInv, CallInv, StateAt
<1>3. /\ calls' \in [Calls -> Call]
      /\ calls'[c].pc = "returned" /\ calls'[c].job = calls[c].job
      /\ \A d \in Calls \ {c} : calls'[d] = calls[d]
  BY <1>1, CallGoesTo DEF IInv
<1>4. CompletedWasScanned'
  BY <1>1, <1>2 DEF CompletedWasScanned
<1>5. calls[c].job # None
  BY <1>2, UploadConstants DEF IInv, TypeOK
<1>6. \A d \in Calls : CallInv(d)'
  <2>1. CallInv(c)'
    BY <1>3, Zenon DEF CallInv, Driving, Sent
  <2>2. ASSUME NEW d \in Calls, d # c
        PROVE  CallInv(d)'
    <3>1. CallInv(d) /\ calls[d].job # scan.job
      BY <1>2, <1>5, <2>2 DEF IInv, JobsDiffer
    <3>2. calls[d].pc \notin Driving
      BY <3>1 DEF CallInv
    <3>3. QED BY <1>1, <1>3, <2>2, <3>1, <3>2 DEF CallInv
  <2>3. QED BY <2>1, <2>2
<1>7. JobsDiffer'
  BY <1>3, JobsStayDifferent DEF IInv
<1>8. ScanInv' /\ AckInv' /\ ScanKept
  BY <1>1 DEF IInv, ScanInv, AckInv, Acknowledged, ScanKept
<1>9. TypeOK'
  BY <1>1, <1>3 DEF IInv, TypeOK
<1>10. QED BY <1>4, <1>6, <1>7, <1>8, <1>9, Zenon DEF SafeStep, IInv

-----------------------------------------------------------------------------
(* The callbacks. *)
CallbackPcs == {"idle", "read", "save", "handled", "failed"}

LEMMA CallbackGoesTo ==
    ASSUME TypeOK, NEW d \in Callbacks, NEW pc \in CallbackPcs, CallbackGoes(d, pc)
    PROVE  /\ callbacks' \in [Callbacks -> Callback] /\ callbacks'[d].pc = pc
           /\ callbacks'[d].job = callbacks[d].job
           /\ callbacks'[d].outcome = callbacks[d].outcome
           /\ \A e \in Callbacks \ {d} : callbacks'[e] = callbacks[e]
<1> DEFINE x == [callbacks[d] EXCEPT !.pc = pc]
<1>1. callbacks \in [Callbacks -> Callback] /\ callbacks[d] \in Callback
  BY DEF TypeOK
<1>2. callbacks' = [callbacks EXCEPT ![d] = x]
  BY <1>1 DEF CallbackGoes
<1>3. x \in Callback /\ x.pc = pc /\ x.job = callbacks[d].job /\ x.outcome = callbacks[d].outcome
  BY <1>1 DEF Callback, CallbackPcs
<1>4. QED BY <1>1, <1>2, <1>3

(* The calls are not touched by a callback that leaves the record. *)
LEMMA CallsRest ==
    ASSUME IInv, UNCHANGED <<calls, fakeScanner, session, ingested, scan, submitted>>
    PROVE  JobsDiffer' /\ (\A c \in Calls : CallInv(c)') /\ CompletedWasScanned' /\ ScanKept
<1>1. JobsDiffer'
  BY DEF IInv, JobsDiffer
<1>2. ASSUME NEW c \in Calls PROVE CallInv(c)'
  BY CallRests DEF IInv
<1>3. CompletedWasScanned'
  BY DEF IInv, CompletedWasScanned
<1>4. ScanKept
  BY DEF IInv, ScanInv, ScanKept
<1>5. QED BY <1>1, <1>2, <1>3, <1>4

LEMMA ReportStep ==
    ASSUME IInv, NEW d \in Callbacks, Report(d)
    PROVE  SafeStep
<1>1. /\ ~fakeScanner
      /\ UNCHANGED <<calls, fakeScanner, session, expired, ingested, scan, submitted,
                     processed, faults>>
  BY ZenonT(30) DEF Report, uploadVars, scanVars
<1>2. /\ callbacks' \in [Callbacks -> Callback] /\ callbacks'[d].pc = "read"
      /\ callbacks'[d].job \in submitted /\ callbacks'[d].outcome \in Outcomes
      /\ callbacks[d].pc # "save"
      /\ \A e \in Callbacks \ {d} : callbacks'[e] = callbacks[e]
  <2>1. callbacks \in [Callbacks -> Callback] /\ callbacks[d] \in Callback
        /\ submitted \subseteq JobIds
    BY DEF IInv, TypeOK
  <2>2. CASE callbacks[d].pc = "idle" /\ \E job \in submitted, outcome \in Outcomes :
               callbacks' = [callbacks EXCEPT ![d] =
                   [@ EXCEPT !.pc = "read", !.job = job, !.outcome = outcome]]
    <3>1. PICK job \in submitted, outcome \in Outcomes :
            callbacks' = [callbacks EXCEPT ![d] =
              [callbacks[d] EXCEPT !.pc = "read", !.job = job, !.outcome = outcome]]
      BY <2>1, <2>2, Zenon
    <3> DEFINE x == [callbacks[d] EXCEPT !.pc = "read", !.job = job, !.outcome = outcome]
    <3>2. x \in Callback /\ x.pc = "read" /\ x.job = job /\ x.outcome = outcome
      BY <2>1, Zenon DEF Callback
    <3> HIDE DEF x
    <3>3. callbacks' = [callbacks EXCEPT ![d] = x]
      BY <3>1 DEF x
    <3>4. QED BY <2>1, <2>2, <3>2, <3>3
  <2>3. CASE callbacks[d].pc \in {"failed", "handled"} /\ CallbackGoes(d, "read")
    BY <2>3, CallbackGoesTo DEF IInv, ScanInv, CallbackPcs
  <2>4. QED BY <2>2, <2>3, Zenon DEF Report
<1>3. JobsDiffer' /\ (\A c \in Calls : CallInv(c)') /\ CompletedWasScanned' /\ ScanKept
  BY <1>1, CallsRest
<1>4. ScanInv'
  BY <1>1, <1>2 DEF IInv, ScanInv
<1>5. AckInv'
  <2>1. Acknowledged' => Acknowledged
    BY <1>1, <1>2 DEF Acknowledged
  <2>2. (\E e \in Callbacks : callbacks[e].pc = "save")
          => \E e \in Callbacks : callbacks'[e].pc = "save"
    BY <1>2
  <2>3. QED BY <1>1, <2>1, <2>2 DEF IInv, AckInv
<1>6. TypeOK'
  BY <1>1, <1>2 DEF IInv, TypeOK
<1>7. QED BY <1>3, <1>4, <1>5, <1>6, Zenon DEF SafeStep, IInv

(* The outcome a callback reports is never one of the states before it. *)
LEMMA OutcomeStates ==
    \A o : OutcomeState(o) \in States \ {"scan_queued", "scanning"}
  BY DEF OutcomeState, States

LEMMA ReadScanStep ==
    ASSUME IInv, NEW d \in Callbacks, ReadScan(d)
    PROVE  SafeStep
<1>1. /\ callbacks[d].pc = "read"
      /\ UNCHANGED <<calls, fakeScanner, session, expired, ingested, scan, submitted, faults>>
  BY DEF ReadScan, uploadVars
<1>2. /\ ~fakeScanner /\ callbacks[d].job \in submitted /\ callbacks[d].outcome \in Outcomes
      /\ scan # None
  BY <1>1 DEF IInv, ScanInv
<1>3. PICK pc \in {"handled", "failed", "save"} : CallbackGoes(d, pc)
  BY DEF ReadScan
<1>4. pc \in CallbackPcs
  BY DEF CallbackPcs
<1>5. /\ callbacks' \in [Callbacks -> Callback] /\ callbacks'[d].pc = pc
      /\ callbacks'[d].job = callbacks[d].job
      /\ callbacks'[d].outcome = callbacks[d].outcome
      /\ \A e \in Callbacks \ {d} : callbacks'[e] = callbacks[e]
  BY <1>3, <1>4, CallbackGoesTo DEF IInv
<1>6. processed' \in [Processes -> SUBSET (JobIds \X Outcomes)]
  <2>1. /\ processed \in [Processes -> SUBSET (JobIds \X Outcomes)]
        /\ callbacks[d].job \in JobIds
    BY <1>2 DEF IInv, TypeOK
  <2>2. KeyOf(d) \in JobIds \X Outcomes
    BY <1>2, <2>1 DEF KeyOf
  <2>3. processed' = processed \/ Remember(d)
    BY DEF ReadScan
  <2>4. QED BY <2>1, <2>2, <2>3 DEF Remember
<1>7. JobsDiffer' /\ (\A c \in Calls : CallInv(c)') /\ CompletedWasScanned' /\ ScanKept
  BY <1>1, CallsRest
<1>8. pc = "save" => scan.state = "scanning"
  <2>1. ASSUME NEW p \in CallbackPcs, CallbackGoes(d, p)
        PROVE  p = pc
    BY <1>5, <2>1, CallbackGoesTo, Zenon DEF IInv
  <2>2. QED BY <2>1 DEF ReadScan, CallbackPcs
<1>9. ScanInv'
  BY <1>1, <1>2, <1>5, <1>8, Zenon DEF IInv, ScanInv
<1>10. AckInv'
  <2>1. ASSUME NEW p \in CallbackPcs, CallbackGoes(d, p)
        PROVE  p = pc
    BY <1>5, <2>1, CallbackGoesTo DEF IInv
  <2>2. \A e \in Callbacks : callbacks[e].pc = "save" => callbacks'[e].pc = "save"
    BY <1>1, <1>5
  <2>3. CASE pc = "save"
    BY <1>1, <1>2, <1>5, <2>3 DEF AckInv
  <2>4. CASE AlreadyRecorded(d)
    <3>1. scan.state \notin {"scan_queued", "scanning"}
      BY <2>4, OutcomeStates DEF AlreadyRecorded
    <3>2. QED BY <1>1, <1>2, <3>1 DEF AckInv
  <2>5. CASE AlreadyProcessed(d) /\ processed' = processed
    <3>1. callbacks[d].process \in Processes
      BY DEF IInv, TypeOK, Callback
    <3>2. Acknowledged
      BY <2>5, <3>1 DEF AlreadyProcessed, Acknowledged
    <3>3. QED BY <1>1, <2>2, <3>2 DEF IInv, AckInv
  <2>6. CASE pc = "failed" /\ processed' = processed
    <3>1. Acknowledged' => Acknowledged
      BY <1>1, <1>5, <2>6 DEF Acknowledged
    <3>2. QED BY <1>1, <2>2, <3>1 DEF IInv, AckInv
  <2>7. QED BY <2>1, <2>3, <2>4, <2>5, <2>6 DEF ReadScan, CallbackPcs
<1>11. TypeOK'
  BY <1>1, <1>5, <1>6 DEF IInv, TypeOK
<1>12. QED BY <1>7, <1>9, <1>10, <1>11 DEF SafeStep, IInv

(* A callback at its save was told of a scan that is under way, so the     *)
(* call that drives it has nothing more to write.                          *)
LEMMA SaveOutcomeStep ==
    ASSUME IInv, NEW d \in Callbacks, SaveOutcome(d)
    PROVE  SafeStep
<1> DEFINE outcome == callbacks[d].outcome
<1>1. /\ callbacks[d].pc = "save" /\ CallbackGoes(d, "handled") /\ "handled" \in CallbackPcs
      /\ scan' = [scan EXCEPT !.state = OutcomeState(outcome), !.outcome = outcome]
      /\ UNCHANGED <<calls, fakeScanner, session, expired, ingested, submitted, processed, faults>>
  BY DEF SaveOutcome, uploadVars, CallbackPcs
<1>2. /\ ~fakeScanner /\ callbacks[d].job \in submitted /\ outcome \in Outcomes
      /\ scan # None /\ scan.state # "scan_queued" /\ scan \in Scan
  BY <1>1 DEF IInv, ScanInv, TypeOK
<1>3. /\ callbacks' \in [Callbacks -> Callback] /\ callbacks'[d].pc = "handled"
      /\ callbacks'[d].job = callbacks[d].job
      /\ callbacks'[d].outcome = outcome
      /\ \A e \in Callbacks \ {d} : callbacks'[e] = callbacks[e]
  BY <1>1, CallbackGoesTo DEF IInv
<1>4. OutcomeState(outcome) \in States \ {"scan_queued", "scanning"}
  BY OutcomeStates
<1>5. /\ scan' \in Scan /\ scan' # None /\ scan'.job = scan.job
      /\ scan'.state \notin {"scan_queued", "scanning"}
  BY <1>1, <1>2, <1>4, UploadConstants, Zenon DEF Scan
<1>6. JobsDiffer'
  BY <1>1 DEF IInv, JobsDiffer
<1>7. ASSUME NEW c \in Calls PROVE CallInv(c)'
  <2>1. CallInv(c)
    BY DEF IInv
  <2>2. calls[c].pc \in Driving => calls[c].pc = "complete"
    BY <1>2, <2>1 DEF CallInv, StateAt, Driving, Sent
  <2>3. QED BY <1>1, <1>2, <1>5, <2>1, <2>2 DEF CallInv, StateAt, Driving
<1>8. ScanInv'
  BY <1>1, <1>2, <1>3, <1>5 DEF IInv, ScanInv
<1>9. AckInv'
  BY <1>1, <1>2, <1>5 DEF AckInv
<1>10. CompletedWasScanned'
  BY <1>1, <1>2, <1>5 DEF IInv, CompletedWasScanned
<1>11. ScanKept
  BY <1>1, <1>5 DEF IInv, ScanInv, ScanKept
<1>12. TypeOK'
  BY <1>1, <1>3, <1>5 DEF IInv, TypeOK
<1>13. QED
  BY <1>6, <1>7, <1>8, <1>9, <1>10, <1>11, <1>12 DEF SafeStep, IInv

-----------------------------------------------------------------------------
(* Errors and crashes. *)
LEMMA FaultCounts ==
    ASSUME TypeOK, Fault
    PROVE  faults' \in 0..MaxFaults /\ faults' # 0
  BY UploadConstants DEF TypeOK, Fault

LEMMA CallFailsStep ==
    ASSUME IInv, NEW c \in Calls, CallFails(c)
    PROVE  SafeStep
<1>1. /\ calls' = [calls EXCEPT ![c].pc = "failed", ![c].job = None] /\ Fault
      /\ UNCHANGED <<fakeScanner, session, expired, ingested, scan, submitted, processed,
                     callbacks>>
  BY DEF CallFails, uploadVars, scanVars
<1>2. /\ calls' \in [Calls -> Call]
      /\ calls'[c].pc = "failed" /\ calls'[c].job = None
      /\ \A d \in Calls \ {c} : calls'[d] = calls[d]
  BY <1>1, CallGivesUp, Zenon DEF IInv
<1>3. JobsDiffer'
  BY <1>2, JobsStayDifferent DEF IInv
<1>4. \A d \in Calls : CallInv(d)'
  <2>1. CallInv(c)'
    BY <1>2 DEF CallInv, Driving, Sent
  <2>2. ASSUME NEW d \in Calls, d # c
        PROVE  CallInv(d)'
    BY <1>1, <1>2, <2>2, CallRests DEF IInv
  <2>3. QED BY <2>1, <2>2
<1>5. faults' \in 0..MaxFaults /\ faults' # 0
  BY <1>1, FaultCounts DEF IInv
<1>6. ScanInv' /\ CompletedWasScanned' /\ ScanKept
  BY <1>1 DEF IInv, ScanInv, CompletedWasScanned, ScanKept
<1>7. AckInv'
  BY <1>5 DEF AckInv
<1>8. TypeOK'
  BY <1>1, <1>2, <1>5 DEF IInv, TypeOK
<1>9. QED BY <1>3, <1>4, <1>6, <1>7, <1>8 DEF SafeStep, IInv

LEMMA CallbackFailsStep ==
    ASSUME IInv, NEW d \in Callbacks, CallbackFails(d)
    PROVE  SafeStep
<1>1. /\ callbacks[d].pc \in {"read", "save"} /\ CallbackGoes(d, "failed") /\ Fault
      /\ "failed" \in CallbackPcs
      /\ UNCHANGED <<calls, fakeScanner, session, expired, ingested, scan, submitted, processed>>
  BY Zenon DEF CallbackFails, CallbackActive, uploadVars, scanVars, CallbackPcs
<1>2. /\ callbacks' \in [Callbacks -> Callback] /\ callbacks'[d].pc = "failed"
      /\ callbacks'[d].job = callbacks[d].job
      /\ callbacks'[d].outcome = callbacks[d].outcome
      /\ \A e \in Callbacks \ {d} : callbacks'[e] = callbacks[e]
  BY <1>1, CallbackGoesTo DEF IInv
<1>3. JobsDiffer' /\ (\A c \in Calls : CallInv(c)') /\ CompletedWasScanned' /\ ScanKept
  BY <1>1, CallsRest
<1>4. faults' \in 0..MaxFaults /\ faults' # 0
  BY <1>1, FaultCounts, Zenon DEF IInv
<1>5. ScanInv'
  BY <1>1, <1>2 DEF IInv, ScanInv
<1>6. AckInv'
  BY <1>4 DEF AckInv
<1>7. TypeOK'
  BY <1>1, <1>2, <1>4 DEF IInv, TypeOK
<1>8. QED BY <1>3, <1>5, <1>6, <1>7 DEF SafeStep, IInv

LEMMA CrashStep ==
    ASSUME IInv, NEW p \in Processes, Crash(p)
    PROVE  SafeStep
<1>1. /\ Fault /\ processed' = [processed EXCEPT ![p] = {}]
      /\ UNCHANGED <<fakeScanner, session, expired, ingested, scan, submitted>>
  BY Zenon DEF Crash, uploadVars
<1>2. /\ calls' \in [Calls -> Call]
      /\ \A c \in Calls : \/ calls'[c] = calls[c]
                          \/ calls'[c].pc = "failed" /\ calls'[c].job = None
  <2> DEFINE x(c) == [calls[c] EXCEPT !.pc = "failed", !.job = None]
  <2>1. \A c \in Calls : x(c) \in Call /\ x(c).pc = "failed" /\ x(c).job = None
    BY Zenon DEF IInv, TypeOK, Call, CallPcs
  <2>2. calls' = [c \in Calls |->
           IF calls[c].process = p /\ CallActive(c) THEN x(c) ELSE calls[c]]
    BY Zenon DEF Crash
  <2>3. calls \in [Calls -> Call]
    BY DEF IInv, TypeOK
  <2> HIDE DEF x
  <2>4. QED BY <2>1, <2>2, <2>3
<1>3. /\ callbacks' \in [Callbacks -> Callback]
      /\ \A d \in Callbacks :
           \/ callbacks'[d] = callbacks[d]
           \/ /\ callbacks[d].pc # "idle" /\ callbacks'[d].pc = "failed"
              /\ callbacks'[d].job = callbacks[d].job
              /\ callbacks'[d].outcome = callbacks[d].outcome
  <2> DEFINE x(d) == [callbacks[d] EXCEPT !.pc = "failed"]
  <2>1. \A d \in Callbacks : /\ x(d) \in Callback /\ x(d).pc = "failed"
                             /\ x(d).job = callbacks[d].job
                             /\ x(d).outcome = callbacks[d].outcome
    BY SMTT(30) DEF IInv, TypeOK, Callback
  <2>2. callbacks' = [d \in Callbacks |->
           IF callbacks[d].process = p /\ CallbackActive(d) THEN x(d) ELSE callbacks[d]]
    BY Zenon DEF Crash
  <2>3. callbacks \in [Callbacks -> Callback]
    BY DEF IInv, TypeOK
  <2> HIDE DEF x
  <2>4. QED BY <2>1, <2>2, <2>3 DEF CallbackActive
<1>4. JobsDiffer'
  BY <1>2, JobsStayDifferent DEF IInv
<1>5. ASSUME NEW c \in Calls PROVE CallInv(c)'
  <2>1. CASE calls'[c] = calls[c]
    BY <1>1, <2>1, CallRests DEF IInv
  <2>2. CASE calls'[c].pc = "failed"
    BY <2>2 DEF CallInv, Driving, Sent
  <2>3. QED BY <1>2, <2>1, <2>2
<1>6. faults' \in 0..MaxFaults /\ faults' # 0
  BY <1>1, FaultCounts, Zenon DEF IInv
<1>7. ScanInv'
  <2>1. \A d \in Callbacks : callbacks'[d].pc # "idle" => callbacks[d].pc # "idle"
    BY <1>3
  <2>2. QED BY <1>1, <1>3, <2>1 DEF IInv, ScanInv
<1>8. AckInv'
  BY <1>6 DEF AckInv
<1>9. CompletedWasScanned' /\ ScanKept
  BY <1>1 DEF IInv, CompletedWasScanned, ScanKept, ScanInv
<1>10. TypeOK'
  BY <1>1, <1>2, <1>3, <1>6 DEF IInv, TypeOK
<1>11. QED BY <1>4, <1>5, <1>7, <1>8, <1>9, <1>10, Zenon DEF SafeStep, IInv

LEMMA SessionSteps ==
    ASSUME IInv, CreateUpload \/ Expire
    PROVE  SafeStep
<1>1. /\ UNCHANGED <<calls, callbacks, fakeScanner, ingested, scan, submitted, processed, faults>>
      /\ session' # "completed" \/ session' = session
      /\ session' \in {None, "requested", "completed"} /\ expired' \in BOOLEAN
  BY Zenon DEF CreateUpload, Expire, scanVars, IInv, TypeOK
<1>2. ScanInv' /\ AckInv' /\ JobsDiffer' /\ ScanKept
  BY <1>1 DEF IInv, ScanInv, AckInv, Acknowledged, JobsDiffer, ScanKept
<1>3. CompletedWasScanned'
  BY <1>1, Zenon DEF IInv, CompletedWasScanned
<1>4. ASSUME NEW c \in Calls PROVE CallInv(c)'
  BY <1>1 DEF IInv, CallInv, StateAt
<1>5. TypeOK'
  BY <1>1 DEF IInv, TypeOK
<1>6. QED BY <1>2, <1>3, <1>4, <1>5 DEF SafeStep, IInv

LEMMA InitHolds ==
    ASSUME Init
    PROVE  IInv
<1>1. /\ calls \in [Calls -> Call] /\ callbacks \in [Callbacks -> Callback]
      /\ \A c \in Calls : calls[c].pc = "idle" /\ calls[c].job = None
      /\ \A d \in Callbacks : callbacks[d].pc = "idle"
  BY DEF Init, Call, CallPcs, Callback
<1>2. TypeOK
  <2>1. /\ fakeScanner \in BOOLEAN /\ session = None /\ expired = FALSE /\ ingested = FALSE
        /\ scan = None /\ submitted = {} /\ faults = 0
    BY DEF Init
  <2>2. processed \in [Processes -> SUBSET (JobIds \X Outcomes)]
    BY DEF Init
  <2>3. faults \in 0..MaxFaults
    BY <2>1, UploadConstants
  <2>4. QED BY <1>1, <2>1, <2>2, <2>3, Zenon DEF TypeOK
<1>3. JobsDiffer /\ ScanInv
  BY <1>1 DEF Init, JobsDiffer, ScanInv
<1>4. AckInv
  BY <1>1 DEF Init, AckInv, Acknowledged
<1>5. CompletedWasScanned
  BY UploadConstants DEF Init, CompletedWasScanned
<1>6. \A c \in Calls : CallInv(c)
  BY <1>1 DEF CallInv, Driving, Sent
<1>7. QED BY <1>2, <1>3, <1>4, <1>5, <1>6 DEF IInv

LEMMA NextKeeps ==
    ASSUME IInv, [Next]_vars
    PROVE  IInv' /\ [ScanKept]_vars
<1>1. ASSUME NEW c \in Calls, CallStep(c)
      PROVE  SafeStep
  BY <1>1, RequestStep, ReadSessionStep, IngestStep, SavingSteps, SubmitScanStep,
     FakeCallbackStep, CompleteSessionStep DEF CallStep
<1>2. CASE Next
  <2>1. SafeStep
    BY <1>1, <1>2, CallFailsStep, ReportStep, ReadScanStep, SaveOutcomeStep,
       CallbackFailsStep, CrashStep, SessionSteps DEF Next
  <2>2. QED BY <2>1 DEF SafeStep
<1>3. CASE UNCHANGED vars
  <2>1. UNCHANGED <<calls, callbacks, fakeScanner, session, expired, ingested, scan,
                    submitted, processed, faults>>
    BY <1>3 DEF vars
  <2>2. JobsDiffer' /\ (\A c \in Calls : CallInv(c)') /\ CompletedWasScanned'
    BY <2>1, CallsRest
  <2>3. ScanInv' /\ AckInv'
    BY <2>1, SameTables
  <2>4. TypeOK'
    BY <2>1 DEF IInv, TypeOK
  <2>5. QED BY <1>3, <2>2, <2>3, <2>4 DEF IInv
<1>4. QED BY <1>2, <1>3

(* The inductive invariant of an upload and its scan. *)
THEOREM UploadInvariance == Spec => []IInv
<1>1. Init => IInv
  BY InitHolds
<1>2. IInv /\ [Next]_vars => IInv'
  BY NextKeeps
<1>3. QED BY <1>1, <1>2, PTL DEF Spec

(* A completed session was ingested and submitted, and with the fake       *)
(* scanner promoted (completeUpload).                                      *)
THEOREM CompletedSessionsWereScanned == Spec => []CompletedWasScanned
<1>1. IInv => CompletedWasScanned
  BY DEF IInv
<1>2. QED BY <1>1, UploadInvariance, PTL

(* The conflict in the store's save keeps an upload at one scan job, the   *)
(* only one that is submitted, however many calls overlap.                 *)
THEOREM UploadsHaveOneScan == Spec => OneScanPerUpload
<1>1. IInv /\ [Next]_vars => [ScanKept]_vars
  BY NextKeeps
<1>2. QED BY <1>1, UploadInvariance, PTL DEF Spec, OneScanPerUpload

(* While no save failed, what handleCallback acknowledged is recorded once *)
(* no callback is under way.                                               *)
THEOREM AcknowledgedCallbacksAreRecorded == Spec => []AcknowledgedIsRecorded
<1>1. IInv => AcknowledgedIsRecorded
  <2> SUFFICES ASSUME IInv, faults = 0,
                      \E d \in Callbacks : callbacks[d].pc = "handled",
                      \A d \in Callbacks : ~CallbackActive(d)
               PROVE  scan.state # "scanning"
    BY Zenon DEF AcknowledgedIsRecorded
  <2>1. ~fakeScanner /\ Acknowledged
    BY DEF IInv, ScanInv, Acknowledged
  <2>2. ~\E d \in Callbacks : callbacks[d].pc = "save"
    BY DEF CallbackActive
  <2>3. QED BY <2>1, <2>2 DEF IInv, AckInv
<1>2. QED BY <1>1, UploadInvariance, PTL

-----------------------------------------------------------------------------
(* The keys held by calls in flight and by uploads are temporary. *)
HeldKeysAreTemporary ==
    /\ \A p \in Callers : \A r \in reading[p] : r.call = "write" => r.key[1] = "temporary"
    /\ \A u \in DOMAIN multipart : multipart[u].key[1] = "temporary"

Held == reading = [p \in Callers |-> reading[p]] /\ HeldKeysAreTemporary

(* Putting an object under a temporary key disturbs no canonical one. *)
LEMMA PutTemporary ==
    ASSUME NEW key, NEW v, key[1] = "temporary", objects' = Put(objects, key, v)
    PROVE  CanonicalKept /\ (CanonicalIsItsDigest => CanonicalIsItsDigest')
BY DEF Put, CanonicalKept, CanonicalIsItsDigest

(* Nor does removing one. *)
LEMMA RemoveTemporary ==
    ASSUME NEW key, key[1] = "temporary", objects' = Remove(objects, key)
    PROVE  CanonicalKept /\ (CanonicalIsItsDigest => CanonicalIsItsDigest')
BY Zenon DEF Remove, CanonicalKept, CanonicalIsItsDigest

(* A commit takes the place of nothing and stores what its key names. *)
LEMMA CommitKeeps ==
    ASSUME NEW key, NEW c, NEW m, CommitImmutable(key, c, m)
    PROVE  CanonicalKept /\ (CanonicalIsItsDigest => CanonicalIsItsDigest')
<1> USE DEF CommitImmutable, AssertTemporaryKey, Declared
<1>1. key[1] = "temporary" /\ key \in DOMAIN objects /\ objects[key].content = c
  BY Zenon
<1>2. CASE objects' = Remove(objects, key)
  BY <1>1, <1>2, RemoveTemporary, Zenon
<1>3. CASE /\ Canonical(c) \notin DOMAIN objects
           /\ objects' = Remove(Put(objects, Canonical(c), objects[key]), key)
  <2>1. Canonical(c)[1] = "canonical" /\ Canonical(c)[2] = c
    BY Zenon DEF Canonical
  <2>2. DOMAIN objects' = (DOMAIN objects \cup {Canonical(c)}) \ {key}
    BY <1>3, Zenon DEF Remove, Put
  <2>3. \A k \in DOMAIN objects' :
            objects'[k] = IF k = Canonical(c) THEN objects[key] ELSE objects[k]
    BY <1>3, <2>2, Zenon DEF Remove, Put
  <2>4. CanonicalKept
    BY <1>1, <1>3, <2>2, <2>3, Zenon DEF CanonicalKept
  <2>5. CanonicalIsItsDigest => CanonicalIsItsDigest'
    BY <1>1, <2>1, <2>2, <2>3 DEF CanonicalIsItsDigest
  <2>6. QED BY <2>4, <2>5
<1>4. QED BY <1>2, <1>3, Zenon

(* No step changes a canonical object or the fit of its content and key. *)
LEMMA StepKeepsCanonical ==
    ASSUME HeldKeysAreTemporary, [MemoryNext]_memoryVars
    PROVE  CanonicalKept /\ (CanonicalIsItsDigest => CanonicalIsItsDigest')
<1> USE DEF AssertTemporaryKey
<1>1. CASE UNCHANGED objects
  BY <1>1, Zenon DEF CanonicalKept, CanonicalIsItsDigest
<1>2. ASSUME NEW p \in Callers, NEW c \in Bodies, WriteBody(p, c)
      PROVE  CanonicalKept /\ (CanonicalIsItsDigest => CanonicalIsItsDigest')
  BY <1>2, PutTemporary DEF WriteBody, HeldKeysAreTemporary
<1>3. ASSUME NEW key \in Keys, NEW c \in Bodies, NEW m \in Media, CommitImmutable(key, c, m)
      PROVE  CanonicalKept /\ (CanonicalIsItsDigest => CanonicalIsItsDigest')
  BY <1>3, CommitKeeps
<1>4. ASSUME NEW key \in Keys, DeleteTemporary(key)
      PROVE  CanonicalKept /\ (CanonicalIsItsDigest => CanonicalIsItsDigest')
  BY <1>4, RemoveTemporary DEF DeleteTemporary
<1>5. ASSUME NEW u \in Uploads, NEW key \in Keys, NEW c \in Bodies,
             CompleteMultipartUpload(u, key, c)
      PROVE  CanonicalKept /\ (CanonicalIsItsDigest => CanonicalIsItsDigest')
  <2>1. key[1] = "temporary"
    BY <1>5 DEF CompleteMultipartUpload, RequireMultipart, HeldKeysAreTemporary
  <2>2. objects' = Put(objects, key, [content |-> c, media |-> multipart[u].media])
    BY <1>5 DEF CompleteMultipartUpload
  <2>3. QED BY <2>1, <2>2, PutTemporary
<1>6. QED
  BY <1>1, <1>2, <1>3, <1>4, <1>5, Zenon
  DEF MemoryNext, memoryVars, WriteTemporary, BodyFails, InitiateMultipartUpload, UploadMultipartPart,
      PartBody, AbortMultipartUpload

(* The keys that calls and uploads hold stay temporary. *)
LEMMA StepKeepsHeld ==
    ASSUME Held, [MemoryNext]_memoryVars
    PROVE  Held'
<1> USE DEF Held, HeldKeysAreTemporary
<1>1. CASE UNCHANGED <<multipart, reading>>
  BY <1>1
<1>2. ASSUME NEW p \in Callers, UNCHANGED multipart, reading' = [reading EXCEPT ![p] = {}]
      PROVE  Held'
  BY <1>2, Zenon
<1>3. ASSUME NEW p \in Callers, NEW key \in Keys, NEW m \in Media, WriteTemporary(p, key, m)
      PROVE  Held'
  <2> DEFINE r == [call |-> "write", key |-> key, media |-> m]
  <2>1. r.key = key
    OBVIOUS
  <2> HIDE DEF r
  <2>2. reading' = [reading EXCEPT ![p] = {r}] /\ UNCHANGED multipart
    BY <1>3 DEF WriteTemporary, r
  <2>3. key[1] = "temporary"
    BY <1>3 DEF WriteTemporary, AssertTemporaryKey
  <2>4. QED BY <2>1, <2>2, <2>3, Zenon
<1>4. ASSUME NEW u \in Uploads, NEW key \in Keys, NEW m \in Media,
             InitiateMultipartUpload(u, key, m)
      PROVE  Held'
  BY <1>4 DEF InitiateMultipartUpload, AssertTemporaryKey, Put
<1>5. ASSUME NEW p \in Callers, NEW u \in Uploads, NEW key \in Keys, NEW n \in 1..MaxParts,
             UploadMultipartPart(p, u, key, n)
      PROVE  Held'
  <2> DEFINE r == [call |-> "part", upload |-> u, number |-> n]
  <2>1. r.call # "write"
    OBVIOUS
  <2> HIDE DEF r
  <2>2. reading' = [reading EXCEPT ![p] = {r}] /\ UNCHANGED multipart
    BY <1>5 DEF UploadMultipartPart, r
  <2>3. QED BY <2>1, <2>2, Zenon
<1>6. ASSUME NEW p \in Callers, NEW c \in Chunks, PartBody(p, c)
      PROVE  Held'
  <2>1. reading' = [reading EXCEPT ![p] = {}]
    BY <1>6 DEF PartBody
  <2>2. /\ DOMAIN multipart' = DOMAIN multipart
        /\ \A u \in DOMAIN multipart : multipart'[u].key = multipart[u].key
    BY <1>6 DEF PartBody
  <2>3. QED BY <2>1, <2>2, Zenon
<1>7. ASSUME NEW u \in Uploads, NEW key \in Keys, NEW c \in Bodies,
             CompleteMultipartUpload(u, key, c)
      PROVE  Held'
  BY <1>7 DEF CompleteMultipartUpload
<1>8. ASSUME NEW u \in Uploads, NEW key \in Keys, AbortMultipartUpload(u, key)
      PROVE  Held'
  BY <1>8 DEF AbortMultipartUpload
<1>9. QED
  BY <1>1, <1>2, <1>3, <1>4, <1>5, <1>6, <1>7, <1>8, Zenon
  DEF MemoryNext, memoryVars, WriteBody, BodyFails, CommitImmutable, DeleteTemporary

(* The keys held by calls in flight and by uploads are always temporary:   *)
(* the check made before a body is read still holds after it.              *)
THEOREM HeldAlways == MemorySpec => []Held
<1>1. MemoryInit => Held
  BY DEF MemoryInit, Held, HeldKeysAreTemporary
<1>2. Held /\ [MemoryNext]_memoryVars => Held'
  BY StepKeepsHeld
<1>3. QED BY <1>1, <1>2, PTL DEF MemorySpec

(* The in-process storage keeps under a canonical key only the content the *)
(* key is the digest of, whatever calls overlap.                           *)
THEOREM CanonicalHoldsItsDigest == MemorySpec => []CanonicalIsItsDigest
<1>1. MemoryInit => CanonicalIsItsDigest
  BY DEF MemoryInit, CanonicalIsItsDigest
<1>2. Held /\ CanonicalIsItsDigest /\ [MemoryNext]_memoryVars => CanonicalIsItsDigest'
  BY StepKeepsCanonical DEF Held
<1>3. QED BY <1>1, <1>2, HeldAlways, PTL DEF MemorySpec

(* The in-process storage never replaces or removes a canonical object:    *)
(* what ObjectIngest assumes of an adapter.                                *)
THEOREM CanonicalNeverChanges == MemorySpec => CanonicalIsImmutable
<1>1. Held /\ [MemoryNext]_memoryVars => [CanonicalKept]_memoryVars
  BY StepKeepsCanonical DEF Held
<1>2. QED BY <1>1, HeldAlways, PTL DEF MemorySpec, CanonicalIsImmutable
=============================================================================
