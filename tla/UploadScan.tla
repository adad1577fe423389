----------------------------- MODULE UploadScan -----------------------------
(***************************************************************************)
(* Completing an upload session and scanning what was uploaded:            *)
(* completeUpload of apps/trust-api, the QuarantineScanOrchestrator of     *)
(* packages/operations, and their stores in packages/persistence-postgres. *)
(*                                                                         *)
(* One upload session is modelled, with the calls of completeUpload for it *)
(* (a client repeats a call that failed), and the callbacks of the malware *)
(* scanner.  Every awaited call is a step.  With the fake scanner the call *)
(* itself reports the outcome and advances the promotion; otherwise the    *)
(* callbacks come from outside, repeated and in any order.                 *)
(***************************************************************************)
EXTENDS Integers, FiniteSets

CONSTANTS
    Calls,          \* concurrent calls of completeUpload for the session
    Callbacks,      \* concurrent calls of handleCallback by the scanner
    Processes,      \* API processes
    JobIds,         \* UUIDs for scan jobs
    Outcomes,       \* outcomes the scanner reports
    MaxFaults,      \* bound on crashes and errors
    None            \* no value

VARIABLES
    fakeScanner,    \* whether TRUST_SCANNER is "fake"
    session,        \* the state of the upload_sessions row
    expired,        \* whether expires_at has passed
    ingested,       \* whether the bytes are ingested
    scan,           \* the quarantine_scan_jobs row of the upload
    submitted,      \* jobs submitted to the scanner
    processed,      \* processedCallbacks of the orchestrator of a process
    calls,          \* the local state of every call
    callbacks,      \* the local state of every callback
    faults          \* crashes and errors so far

vars == <<fakeScanner, session, expired, ingested, scan, submitted, processed,
          calls, callbacks, faults>>

States == {"scan_queued", "scanning", "accepted", "rejected",
           "manual_review", "promotion_pending", "promoted", "failed"}

OutcomeState(outcome) ==
    IF outcome = "clean" THEN "accepted"
    ELSE IF outcome = "malicious" THEN "rejected"
    ELSE IF outcome = "suspicious" THEN "manual_review"
    ELSE "failed"

Scan == [job: JobIds, state: States, outcome: Outcomes \cup {None}]

(* A call is named by the query it is about to make.                       *)
CallPcs == {"idle", "session", "ingest", "queue", "submit", "scanning",
            "callback", "accept", "pending", "promote", "complete",
            "returned", "failed"}
Call == [pc: CallPcs, process: Processes, job: JobIds \cup {None}]
Callback == [pc: {"idle", "read", "save", "handled", "failed"},
             process: Processes, job: JobIds \cup {None},
             outcome: Outcomes \cup {None}]

ASSUME UploadConstants ==
    /\ MaxFaults \in Nat
    /\ "clean" \in Outcomes
    /\ None \notin JobIds /\ None \notin Outcomes /\ None \notin Scan
    /\ None \notin {"requested", "completed"}

TypeOK ==
    /\ fakeScanner \in BOOLEAN
    /\ session \in {None, "requested", "completed"}
    /\ expired \in BOOLEAN
    /\ ingested \in BOOLEAN
    /\ scan \in Scan \cup {None}
    /\ submitted \subseteq JobIds
    /\ processed \in [Processes -> SUBSET (JobIds \X Outcomes)]
    /\ calls \in [Calls -> Call]
    /\ callbacks \in [Callbacks -> Callback]
    /\ faults \in 0..MaxFaults

Init ==
    /\ fakeScanner \in BOOLEAN
    /\ session = None
    /\ expired = FALSE
    /\ ingested = FALSE
    /\ scan = None
    /\ submitted = {}
    /\ processed = [p \in Processes |-> {}]
    /\ calls \in [Calls -> [pc: {"idle"}, process: Processes, job: {None}]]
    /\ callbacks \in [Callbacks -> [pc: {"idle"}, process: Processes,
                                    job: {None}, outcome: {None}]]
    /\ faults = 0

----------------------------------------------------------------------------
(* completeUpload.                                                         *)
CallAt(c, pc) == calls[c].pc = pc
CallGoes(c, pc) == calls' = [calls EXCEPT ![c].pc = pc]

uploadVars == <<fakeScanner, session, expired, ingested>>
scanVars == <<scan, submitted, processed>>

(* createUpload: the operation and the session are inserted in one         *)
(* transaction; a repeated request of the same key finds them and leaves   *)
(* them as they are, completed or not.                                     *)
CreateUpload ==
    /\ session = None
    /\ session' = "requested"
    /\ UNCHANGED <<fakeScanner, expired, ingested, scanVars, calls, callbacks, faults>>

(* The client calls, and calls again when the call failed.                 *)
Request(c) ==
    /\ session # None
    /\ calls[c].pc \in {"idle", "failed"}
    /\ CallGoes(c, "session")
    /\ UNCHANGED <<uploadVars, scanVars, callbacks, faults>>

(* getUploadSession: a completed session is returned as it is, an expired  *)
(* one rejected.                                                           *)
ReadSession(c) ==
    /\ CallAt(c, "session")
    /\ CallGoes(c, IF session = "completed" THEN "returned"
                   ELSE IF expired THEN "failed" ELSE "ingest")
    /\ UNCHANGED <<uploadVars, scanVars, callbacks, faults>>

(* ingest is idempotent (ObjectIngest); then every call draws a UUID for   *)
(* its scan job.                                                           *)
FreshJobs == {j \in JobIds : /\ j \notin submitted
                             /\ scan # None => scan.job # j
                             /\ \A c \in Calls : calls[c].job # j}

Ingest(c) ==
    /\ CallAt(c, "ingest")
    /\ ingested' = TRUE
    /\ FreshJobs # {}
    /\ calls' = [calls EXCEPT ![c].pc = "queue",
                              ![c].job = CHOOSE j \in FreshJobs : TRUE]
    /\ UNCHANGED <<fakeScanner, session, expired, scanVars, callbacks, faults>>

(* Mutant: no conflict between jobs of an upload.                          *)
NeverConflicts(job) == FALSE

(* The store's save: a record of another job for the upload is a conflict. *)
(* Otherwise it inserts or updates, whatever the row's state is.           *)
Conflicts(job) == scan # None /\ scan.job # job

(* Mutant: a conflict is taken for a job that is already queued.           *)
SkipIfQueued(c, state, outcome, next) ==
    LET job == calls[c].job
    IN  /\ \/ /\ ~Conflicts(job)
              /\ scan' = [job |-> job, state |-> state, outcome |-> outcome]
              /\ CallGoes(c, next)
           \/ /\ Conflicts(job)
              /\ CallGoes(c, "complete")
              /\ UNCHANGED scan
        /\ UNCHANGED <<uploadVars, submitted, processed, callbacks, faults>>

SaveScan(c, state, outcome, next) ==
    LET job == calls[c].job
    IN  /\ \/ /\ ~Conflicts(job)
              /\ scan' = [job |-> job, state |-> state, outcome |-> outcome]
              /\ CallGoes(c, next)
           \/ /\ Conflicts(job)
              /\ calls' = [calls EXCEPT ![c].pc = "failed", ![c].job = None]
              /\ UNCHANGED scan
        /\ UNCHANGED <<uploadVars, submitted, processed, callbacks, faults>>

(* queueUploaded: getByScanJobId finds nothing for a new UUID.             *)
QueueScan(c) == CallAt(c, "queue") /\ SaveScan(c, "scan_queued", None, "submit")

SubmitScan(c) ==
    /\ CallAt(c, "submit")
    /\ submitted' = submitted \cup {calls[c].job}
    /\ CallGoes(c, "scanning")
    /\ UNCHANGED <<uploadVars, scan, processed, callbacks, faults>>

MarkScanning(c) ==
    /\ CallAt(c, "scanning")
    /\ SaveScan(c, "scanning", None,
                IF fakeScanner THEN "callback" ELSE "complete")

(* Mutant: the callback expects the state before the submission.           *)
CallbackTooLate(c) ==
    /\ CallAt(c, "callback")
    /\ CallGoes(c, IF scan.state = "scan_queued" THEN "accept" ELSE "failed")
    /\ UNCHANGED <<uploadVars, scanVars, callbacks, faults>>

(* With the fake scanner: handleCallback with a clean outcome, then        *)
(* advanceFakePromotion, which saves the two promotion states unread.      *)
FakeCallback(c) ==
    LET job == calls[c].job
        p == calls[c].process
    IN  /\ CallAt(c, "callback")
        /\ IF scan.state = "scanning"
           THEN /\ CallGoes(c, "accept")
                /\ processed' = [processed EXCEPT ![p] = @ \cup {<<job, "clean">>}]
           ELSE CallGoes(c, "failed") /\ UNCHANGED processed
        /\ UNCHANGED <<uploadVars, scan, submitted, callbacks, faults>>

SaveAccepted(c) ==
    CallAt(c, "accept") /\ SaveScan(c, "accepted", "clean", "pending")

SavePromotionPending(c) ==
    CallAt(c, "pending") /\ SaveScan(c, "promotion_pending", "clean", "promote")

SavePromoted(c) ==
    CallAt(c, "promote") /\ SaveScan(c, "promoted", "clean", "complete")

CompleteSession(c) ==
    /\ CallAt(c, "complete")
    /\ session' = "completed"
    /\ CallGoes(c, "returned")
    /\ UNCHANGED <<fakeScanner, expired, ingested, scanVars, callbacks, faults>>

----------------------------------------------------------------------------
(* handleCallback.                                                         *)
CallbackGoes(d, pc) == callbacks' = [callbacks EXCEPT ![d].pc = pc]

(* The scanner reports an outcome, and reports it again when the report    *)
(* failed; it may also repeat one that was handled.                        *)
Report(d) ==
    /\ ~fakeScanner
    /\ \/ /\ callbacks[d].pc = "idle"
          /\ \E job \in submitted, outcome \in Outcomes :
               callbacks' = [callbacks EXCEPT ![d] =
                   [@ EXCEPT !.pc = "read", !.job = job, !.outcome = outcome]]
       \/ callbacks[d].pc \in {"failed", "handled"} /\ CallbackGoes(d, "read")
    /\ UNCHANGED <<uploadVars, scanVars, calls, faults>>

KeyOf(d) == <<callbacks[d].job, callbacks[d].outcome>>
Remember(d) ==
    processed' = [processed EXCEPT ![callbacks[d].process] = @ \cup {KeyOf(d)}]

AlreadyProcessed(d) == KeyOf(d) \in processed[callbacks[d].process]
AlreadyRecorded(d) == /\ scan.outcome = callbacks[d].outcome
                      /\ scan.state = OutcomeState(callbacks[d].outcome)

(* Mutant: the callback is remembered before the record is checked.        *)
RememberFirst(d) ==
    /\ callbacks[d].pc = "read"
    /\ CallbackGoes(d, IF AlreadyProcessed(d) \/ AlreadyRecorded(d) THEN "handled"
                       ELSE IF scan.state # "scanning" THEN "failed" ELSE "save")
    /\ Remember(d)
    /\ UNCHANGED <<uploadVars, scan, submitted, calls, faults>>

(* getByScanJobId and the checks on the record it returns.                 *)
ReadScan(d) ==
    /\ callbacks[d].pc = "read"
    /\ \/ AlreadyProcessed(d) /\ CallbackGoes(d, "handled") /\ UNCHANGED processed
       \/ /\ ~AlreadyProcessed(d) /\ AlreadyRecorded(d)
          /\ CallbackGoes(d, "handled") /\ Remember(d)
       \/ /\ ~AlreadyProcessed(d) /\ ~AlreadyRecorded(d)
          /\ scan.state # "scanning"
          /\ CallbackGoes(d, "failed") /\ UNCHANGED processed
       \/ /\ ~AlreadyProcessed(d) /\ ~AlreadyRecorded(d)
          /\ scan.state = "scanning"
          /\ CallbackGoes(d, "save") /\ Remember(d)
    /\ UNCHANGED <<uploadVars, scan, submitted, calls, faults>>

(* save overwrites the state that was read before the await.               *)
SaveOutcome(d) ==
    /\ callbacks[d].pc = "save"
    /\ scan' = [scan EXCEPT !.state = OutcomeState(callbacks[d].outcome),
                            !.outcome = callbacks[d].outcome]
    /\ CallbackGoes(d, "handled")
    /\ UNCHANGED <<uploadVars, submitted, processed, calls, faults>>

----------------------------------------------------------------------------
Expire ==
    /\ session # None
    /\ ~expired
    /\ expired' = TRUE
    /\ UNCHANGED <<fakeScanner, session, ingested, scanVars, calls, callbacks,
                   faults>>

Fault == faults < MaxFaults /\ faults' = faults + 1

CallActive(c) == calls[c].pc \notin {"idle", "returned", "failed"}
CallbackActive(d) == callbacks[d].pc \in {"read", "save"}

(* A query fails; the call or callback ends with the error.                *)
CallFails(c) ==
    /\ CallActive(c)
    /\ Fault
    /\ calls' = [calls EXCEPT ![c].pc = "failed", ![c].job = None]
    /\ UNCHANGED <<uploadVars, scanVars, callbacks>>

CallbackFails(d) ==
    /\ CallbackActive(d)
    /\ Fault
    /\ CallbackGoes(d, "failed")
    /\ UNCHANGED <<uploadVars, scanVars, calls>>

(* A process stops: its calls end and its memory is lost.                  *)
Crash(p) ==
    /\ Fault
    /\ processed' = [processed EXCEPT ![p] = {}]
    /\ calls' = [c \in Calls |->
         IF calls[c].process = p /\ CallActive(c)
         THEN [calls[c] EXCEPT !.pc = "failed", !.job = None] ELSE calls[c]]
    /\ callbacks' = [d \in Callbacks |->
         IF callbacks[d].process = p /\ CallbackActive(d)
         THEN [callbacks[d] EXCEPT !.pc = "failed"] ELSE callbacks[d]]
    /\ UNCHANGED <<uploadVars, scan, submitted>>

CallStep(c) ==
    \/ Request(c) \/ ReadSession(c) \/ Ingest(c) \/ QueueScan(c)
    \/ SubmitScan(c) \/ MarkScanning(c) \/ FakeCallback(c) \/ SaveAccepted(c)
    \/ SavePromotionPending(c) \/ SavePromoted(c) \/ CompleteSession(c)

Next ==
    \/ \E c \in Calls : CallStep(c) \/ CallFails(c)
    \/ \E d \in Callbacks :
         Report(d) \/ ReadScan(d) \/ SaveOutcome(d) \/ CallbackFails(d)
    \/ \E p \in Processes : Crash(p)
    \/ CreateUpload \/ Expire

Spec == Init /\ [][Next]_vars

(* The client creates the upload and repeats a failed call, and the calls  *)
(* run.                                                                    *)
FairSpec ==
    Spec /\ WF_vars(CreateUpload) /\ \A c \in Calls : WF_vars(CallStep(c))

----------------------------------------------------------------------------
(* Every call draws its own job id, and calls of completeUpload overlap    *)
(* and are repeated: still an upload has at most one scan job, the same    *)
(* for ever, and only that one is submitted to the scanner.                *)
ScanKept ==
    /\ scan # None => scan'.job = scan.job
    /\ \A j \in submitted' : scan'.job = j
OneScanPerUpload == [][ScanKept]_vars

(* A session is only completed when its bytes are ingested and handed to   *)
(* the scanner, and, with the fake scanner, promoted.                      *)
CompletedWasScanned ==
    session = "completed" =>
        /\ ingested
        /\ scan # None
        /\ scan.job \in submitted
        /\ IF fakeScanner THEN scan.state = "promoted"
                          ELSE scan.state # "scan_queued"

(* A callback that was acknowledged is recorded, once no other callback is *)
(* about to record it, even if the scanner answered before the scanning    *)
(* state was saved and had to repeat the callback.  That needs the premise *)
(* that no save failed: the callback's key is remembered before the save,  *)
(* so a repeat after a failed save is acknowledged from memory.            *)
AcknowledgedIsRecorded ==
    (/\ faults = 0
     /\ \E d \in Callbacks : callbacks[d].pc = "handled"
     /\ \A d \in Callbacks : ~CallbackActive(d))
        => scan.state # "scanning"

(* A client that repeats its call completes the upload, whatever became of *)
(* earlier calls, unless the session expires.                              *)
UploadSurvivesFaults == <>(session = "completed" \/ expired)

(* Of overlapping calls that each queue a scan of their own, the one that  *)
(* loses does not keep the session from completing: without errors a       *)
(* client that repeats its call completes the upload or sees it expire.    *)
UploadCompletes == [](faults = 0) => UploadSurvivesFaults

=============================================================================
