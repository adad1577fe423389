--------------------------- MODULE MultipartUpload --------------------------
(***************************************************************************)
(* Multipart uploads of S3MultipartStorage (packages/storage-s3): one      *)
(* upload id, its session in the memory of the process, and the provider's *)
(* uploads, parts and object behind it.                                    *)
(*                                                                         *)
(* Every await of the code separates two steps, so the session a call      *)
(* looked at may be another one when the provider has answered.  The etag  *)
(* of a part is its content.  A restart loses every session and every call *)
(* in flight, never what the provider holds.                               *)
(***************************************************************************)
EXTENDS Naturals, Sequences, FiniteSets

CONSTANTS
    Callers,    \* the callers, each with one call at a time
    Requests,   \* what they may ask: [op, part, parts]
    Expected,   \* the content the upload was announced with
    MaxCalls,   \* bound on the calls
    MaxRefs,    \* bound on the uploads opened at the provider
    MaxFaults   \* bound on the lost answers and the restarts

VARIABLES
    current,    \* the sessions map: {} or the provider upload it names
    records,    \* the session records by provider upload
    uploads,    \* the provider's multipart uploads
    object,     \* the object at the locator: {} or its content
    calls,
    made,
    faults

vars == <<current, records, uploads, object, calls, made, faults>>
local == <<current, records>>
provider == <<uploads, object>>

NoRequest == [op |-> "none", part |-> <<0, "none">>, parts |-> <<>>]
IdleCall == [pc |-> "idle", request |-> NoRequest, ref |-> 0, seen |-> {}, whole |-> FALSE]

Init ==
    /\ current = {}
    /\ records = <<>>
    /\ uploads = <<>>
    /\ object = {}
    /\ calls = [c \in Callers |-> IdleCall]
    /\ made = 0
    /\ faults = 0

At(c, pc) == calls[c].pc = pc
Goto(c, pc) == calls' = [calls EXCEPT ![c].pc = pc]
Ended == {"idle", "done", "refused", "lost"}
Asked(c) == calls[c].request

Contents(parts) == [i \in DOMAIN parts |-> parts[i][2]]

(* requireSession: the session of the upload id, if it is of this upload.  *)
RequireSession(ref) == current = {ref}

(* reconcileParts: as many parts as were recorded, each of them recorded   *)
(* (the last record of a number counts), numbered from 1 without a gap.    *)
Reconciled(recorded, declared) ==
    /\ Len(recorded) = Len(declared)
    /\ \A i \in DOMAIN declared :
         LET same == {j \in DOMAIN recorded : recorded[j][1] = declared[i][1]}
         IN  /\ same # {}
             /\ recorded[CHOOSE j \in same : \A k \in same : k <= j] = declared[i]
    /\ {declared[i][1] : i \in DOMAIN declared} = 1 .. Len(declared)

-----------------------------------------------------------------------------
(* The checks a call makes before its first await.                         *)
StartInitiate(c, q) ==
    calls' = [calls EXCEPT ![c] =
        [IdleCall EXCEPT !.pc = IF current = {} THEN "create" ELSE "done", !.request = q]]

StartPart(c, q, ref) ==
    LET open == RequireSession(ref) /\ records[ref].status \in {"initiated", "uploading"}
    IN  calls' = [calls EXCEPT ![c] =
            [IdleCall EXCEPT !.pc = IF open THEN "readBody" ELSE "refused",
                             !.request = q, !.ref = ref]]

StartComplete(c, q, ref) ==
    LET pc == IF ~ RequireSession(ref) \/ records[ref].status = "aborted" THEN "refused"
              ELSE IF records[ref].status = "completed" THEN "verifyAgain"
              ELSE IF Reconciled(records[ref].parts, q.parts) THEN "assemble"
              ELSE "refused"
    IN  calls' = [calls EXCEPT ![c] =
            [IdleCall EXCEPT !.pc = pc, !.request = q, !.ref = ref,
                             !.whole = /\ RequireSession(ref) /\ records[ref].status # "aborted"
                                       /\ uploads[ref].status = "assembled"
                                       /\ object = {Expected}]]

StartAbort(c, q, ref) ==
    calls' = [calls EXCEPT ![c] =
        [IdleCall EXCEPT !.pc = IF current = {} THEN "cancelUnknown"
                                ELSE IF current = {ref} THEN "cancel" ELSE "refused",
                         !.request = q, !.ref = ref]]

Start(c) ==
    /\ calls[c].pc \in Ended
    /\ made < MaxCalls
    /\ made' = made + 1
    /\ \E q \in Requests :
         \/ q.op = "initiate" /\ StartInitiate(c, q)
         \/ \E ref \in DOMAIN uploads :
              \/ q.op = "part" /\ StartPart(c, q, ref)
              \/ q.op = "complete" /\ StartComplete(c, q, ref)
              \/ q.op = "abort" /\ StartAbort(c, q, ref)
    /\ UNCHANGED <<local, provider, faults>>

-----------------------------------------------------------------------------
(* CreateMultipartUpload, then the session is put in the map, over the one *)
(* a concurrent call may have put there meanwhile.                         *)
CreateUpload(c) ==
    /\ At(c, "create")
    /\ Len(uploads) < MaxRefs
    /\ uploads' = Append(uploads, [status |-> "open", parts |-> {}])
    /\ records' = Append(records, [status |-> "none", parts |-> <<>>])
    /\ calls' = [calls EXCEPT ![c].pc = "remember", ![c].ref = Len(uploads) + 1]
    /\ UNCHANGED <<current, object, made, faults>>

RememberUpload(c) ==
    /\ At(c, "remember")
    /\ current' = {calls[c].ref}
    /\ records' = [records EXCEPT ![calls[c].ref].status = "initiated"]
    /\ Goto(c, "done")
    /\ UNCHANGED <<provider, made, faults>>

(* The body has arrived: the part of that number, if it is recorded by now. *)
ReadBody(c) ==
    /\ At(c, "readBody")
    /\ LET parts == records[calls[c].ref].parts
       IN  calls' = [calls EXCEPT ![c].pc = "put",
                       ![c].seen = {parts[i] : i \in {j \in DOMAIN parts :
                                                      parts[j][1] = Asked(c).part[1]}}]
    /\ UNCHANGED <<local, provider, made, faults>>

(* UploadPart replaces the provider's part of that number.                 *)
PutPart(c) ==
    /\ At(c, "put")
    /\ LET ref == calls[c].ref
           part == Asked(c).part
       IN  IF uploads[ref].status = "open"
           THEN /\ uploads' = [uploads EXCEPT ![ref].parts =
                                  {p \in @ : p[1] # part[1]} \cup {part}]
                /\ Goto(c, "record")
           ELSE Goto(c, "refused") /\ UNCHANGED uploads
    /\ UNCHANGED <<local, object, made, faults>>

Sorted(parts, part) ==
    LET before == SelectSeq(parts, LAMBDA p : p[1] <= part[1])
        after == SelectSeq(parts, LAMBDA p : p[1] > part[1])
    IN  before \o <<part>> \o after

(* A part that was recorded when the body came must be the same; a new    *)
(* one is added to the session as it is now, which is "uploading" again.   *)
RecordPart(c) ==
    /\ At(c, "record")
    /\ LET part == Asked(c).part
       IN  IF calls[c].seen # {}
           THEN /\ Goto(c, IF part \in calls[c].seen THEN "done" ELSE "refused")
                /\ UNCHANGED records
           ELSE /\ records' = [records EXCEPT ![calls[c].ref] =
                                  [status |-> "uploading", parts |-> Sorted(@.parts, part)]]
                /\ Goto(c, "done")
    /\ UNCHANGED <<current, provider, made, faults>>

(* Mutant: the session is completed as soon as the provider has answered.  *)
CompleteUnverified(c) ==
    /\ At(c, "assemble")
    /\ LET ref == calls[c].ref
           declared == Asked(c).parts
       IN  IF /\ uploads[ref].status = "open"
              /\ {declared[i] : i \in DOMAIN declared} \subseteq uploads[ref].parts
           THEN /\ uploads' = [uploads EXCEPT ![ref].status = "assembled"]
                /\ object' = {Contents(declared)}
                /\ records' = [records EXCEPT ![ref] =
                                  [status |-> "completed", parts |-> declared]]
                /\ Goto(c, "verify")
           ELSE Goto(c, "refused") /\ UNCHANGED <<records, provider>>
    /\ UNCHANGED <<current, made, faults>>

(* CompleteMultipartUpload: the provider assembles the declared parts if   *)
(* the upload is still open and holds them.                                *)
Assemble(c) ==
    /\ At(c, "assemble")
    /\ LET ref == calls[c].ref
           declared == Asked(c).parts
       IN  IF /\ uploads[ref].status = "open"
              /\ {declared[i] : i \in DOMAIN declared} \subseteq uploads[ref].parts
           THEN /\ uploads' = [uploads EXCEPT ![ref].status = "assembled"]
                /\ object' = {Contents(declared)}
                /\ Goto(c, "verify")
           ELSE Goto(c, "refused") /\ UNCHANGED provider
    /\ UNCHANGED <<local, made, faults>>

(* verifyCompleted reads the object; only then is the session completed.   *)
VerifyCompleted(c) ==
    /\ At(c, "verify") \/ At(c, "verifyAgain")
    /\ IF object = {Expected}
       THEN /\ records' = IF At(c, "verify")
                          THEN [records EXCEPT ![calls[c].ref] =
                                   [status |-> "completed", parts |-> Asked(c).parts]]
                          ELSE records
            /\ Goto(c, "done")
       ELSE Goto(c, "refused") /\ UNCHANGED records
    /\ UNCHANGED <<current, provider, made, faults>>

(* AbortMultipartUpload; an upload the provider does not know is aborted.  *)
Cancel(c) ==
    /\ At(c, "cancel") \/ At(c, "cancelUnknown")
    /\ uploads' = IF uploads[calls[c].ref].status = "open"
                  THEN [uploads EXCEPT ![calls[c].ref] = [status |-> "aborted", parts |-> {}]]
                  ELSE uploads
    /\ Goto(c, IF At(c, "cancel") THEN "forget" ELSE "done")
    /\ UNCHANGED <<local, object, made, faults>>

Forget(c) ==
    /\ At(c, "forget")
    /\ records' = [records EXCEPT ![calls[c].ref] = [status |-> "aborted", parts |-> <<>>]]
    /\ Goto(c, "done")
    /\ UNCHANGED <<current, provider, made, faults>>

(* A request or its answer is lost: the call ends with an error.           *)
Lose(c) ==
    /\ calls[c].pc \notin Ended
    /\ faults < MaxFaults
    /\ faults' = faults + 1
    /\ Goto(c, "lost")
    /\ UNCHANGED <<local, provider, made>>

Restart ==
    /\ faults < MaxFaults
    /\ faults' = faults + 1
    /\ current' = {}
    /\ calls' = [c \in Callers |->
                    IF calls[c].pc \in Ended THEN calls[c] ELSE [calls[c] EXCEPT !.pc = "lost"]]
    /\ UNCHANGED <<records, provider, made>>

Step(c) ==
    \/ Start(c) \/ CreateUpload(c) \/ RememberUpload(c)
    \/ ReadBody(c) \/ PutPart(c) \/ RecordPart(c) \/ Assemble(c) \/ VerifyCompleted(c)
    \/ Cancel(c) \/ Forget(c) \/ Lose(c)

Next == Restart \/ \E c \in Callers : Step(c)

Spec == Init /\ [][Next]_vars

-----------------------------------------------------------------------------
TypeOK ==
    /\ current \subseteq DOMAIN uploads /\ Cardinality(current) <= 1
    /\ DOMAIN records = DOMAIN uploads
    /\ Cardinality(object) <= 1
    /\ faults \in 0 .. MaxFaults /\ made \in 0 .. MaxCalls

(* A completed session describes the object: its provider upload is the    *)
(* one assembled, and its parts in their order are the announced content   *)
(* that is at the locator.  Parts sent again, parts recorded late, aborts, *)
(* lost answers and overlapping calls never leave another session behind   *)
(* (state.session of s3-multipart.ts); only a second provider upload of    *)
(* the same locator, assembled as well, may have replaced the object.      *)
CompletedSessionIsTheObject ==
    \A ref \in DOMAIN records :
        /\ records[ref].status = "completed"
        /\ \A other \in DOMAIN uploads \ {ref} : uploads[other].status # "assembled"
        => /\ uploads[ref].status = "assembled"
           /\ object = {Contents(records[ref].parts)}
           /\ object = {Expected}

(* "make completion safe to retry": when the upload was assembled as it    *)
(* was announced and its session is known and not aborted, completing it   *)
(* again is not refused (completeMultipartUpload of s3-multipart.ts).      *)
CompletionIsSafeToRetry ==
    \A c \in Callers :
        Asked(c).op = "complete" /\ Contents(Asked(c).parts) = Expected /\ calls[c].whole
            => ~ At(c, "refused")
=============================================================================
