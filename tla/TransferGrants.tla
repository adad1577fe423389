--------------------------- MODULE TransferGrants ---------------------------
(***************************************************************************)
(* Download grants: createDownloadGrant of apps/trust-api over             *)
(* TransferGrantService and the S3 signer, beside what happens to the blob *)
(* meanwhile: it is ingested, scanned and verified.                        *)
(*                                                                         *)
(* The policy's answer, the route of the storage binding and the signer's  *)
(* success are choices here; PolicyRules, StorageBindings and              *)
(* StorageConfig say what they are.                                        *)
(***************************************************************************)
EXTENDS Naturals, FiniteSets

CONSTANTS
    Calls       \* calls of createDownloadGrant

VARIABLES
    blob,       \* {} or the verification state of the catalogued blob
    scan,       \* the state of the quarantine scan of its upload
    calls

vars == <<blob, scan, calls>>

IdleCall == [pc |-> "idle", downloadable |-> FALSE, scanThen |-> "none"]

Init ==
    /\ blob = {}
    /\ scan = "none"
    /\ calls = [c \in Calls |-> IdleCall]

At(c, pc) == calls[c].pc = pc
Goto(c, pc) == calls' = [calls EXCEPT ![c].pc = pc]

-----------------------------------------------------------------------------
(* completeUpload ingests the bytes, which catalogues the blob as          *)
(* verified, and then queues the scan.                                     *)
IngestUpload ==
    /\ blob = {}
    /\ blob' = {"verified"}
    /\ UNCHANGED <<scan, calls>>

QueueScan ==
    /\ blob # {} /\ scan = "none"
    /\ scan' = "scan_queued"
    /\ UNCHANGED <<blob, calls>>

(* The end of queueUploaded, the scanner's callback, whose outcomes        *)
(* outcomeState maps to four states, and the promotion of what it accepted.*)
ScanMoves ==
    /\ \/ scan = "scan_queued" /\ scan' = "scanning"
       \/ scan = "scanning" /\ scan' \in {"accepted", "rejected", "manual_review", "failed"}
       \/ scan = "accepted" /\ scan' = "promotion_pending"
       \/ scan = "promotion_pending" /\ scan' = "promoted"
    /\ UNCHANGED <<blob, calls>>

(* setBlobVerification of a verification run.                              *)
SetBlobVerification ==
    /\ blob # {}
    /\ \E state \in {"verified", "failed"} : blob' = {state}
    /\ UNCHANGED <<scan, calls>>

-----------------------------------------------------------------------------
(* createDownloadGrant reads the blob once; whether it is verified then    *)
(* decides for the rest of the call.  scanThen, the state of the scan at   *)
(* that moment, is not read; the property below speaks of it.              *)
FindBlob(c) ==
    /\ At(c, "idle")
    /\ calls' = [calls EXCEPT ![c] = [pc |-> IF blob = {} THEN "notFound" ELSE "route",
                                      downloadable |-> blob = {"verified"},
                                      scanThen |-> scan]]
    /\ UNCHANGED <<blob, scan>>

(* forDownload picks the signer of the binding the blob is tied to, or     *)
(* refuses.                                                                *)
RouteDownload(c) ==
    /\ At(c, "route")
    /\ \E pc \in {"decide", "unavailable"} : Goto(c, pc)
    /\ UNCHANGED <<blob, scan>>

(* issue: the policy, then the blob as it was read.  The quarantine state  *)
(* it is given says only whether the blob is verified.                     *)
Decide(c) ==
    /\ At(c, "decide")
    /\ \E allowed \in BOOLEAN :
         Goto(c, IF allowed /\ calls[c].downloadable THEN "sign" ELSE "denied")
    /\ UNCHANGED <<blob, scan>>

(* signDownload: an expiry less than a second away is refused.             *)
Sign(c) ==
    /\ At(c, "sign")
    /\ \E pc \in {"granted", "denied"} : Goto(c, pc)
    /\ UNCHANGED <<blob, scan>>

Step(c) == FindBlob(c) \/ RouteDownload(c) \/ Decide(c) \/ Sign(c)

Next ==
    \/ IngestUpload \/ QueueScan \/ ScanMoves \/ SetBlobVerification
    \/ \E c \in Calls : Step(c)

Spec == Init /\ [][Next]_vars

-----------------------------------------------------------------------------
(* "refuse ordinary download when state is pending, scanning, rejected or  *)
(* quarantined": no grant is given when the scan of the upload was queued, *)
(* running, rejected or held for review as createDownloadGrant read the    *)
(* blob.  A blob that is never scanned is not concerned.                   *)
QuarantinedIsNotDownloaded ==
    \A c \in Calls :
        At(c, "granted") =>
            calls[c].scanThen \notin {"scan_queued", "scanning", "rejected", "manual_review"}
=============================================================================
