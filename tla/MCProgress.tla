----------------------------- MODULE MCProgress -----------------------------
(***************************************************************************)
(* The parts that promise to get somewhere, as one sum under the fairness  *)
(* of each: a behaviour is one of ArchiveImport, ObjectIngest,             *)
(* OutboxWorker or ResourceHistory, chosen at the start, and the others do *)
(* not move.                                                               *)
(***************************************************************************)
EXTENDS ArchiveImport

CONSTANTS platform, b1, k1, k2, r1, c1, c2, e1, one, two

VARIABLES
    part,       \* the component this behaviour is of
    operations, uploads, objects, catalog, audit, outbox, runners, errors,
    situation, queued, incidents, quarantines, queue, consumers, rejected, overruns, strikes,
    resource, revisions, tombstones, trail, requests, aborts

ingest == <<operations, uploads, objects, catalog, audit, outbox, runners, errors>>
worker == <<situation, queued, incidents, quarantines, queue, consumers, rejected,
            overruns, strikes>>
history == <<resource, revisions, tombstones, trail, requests, aborts>>
sum == <<part, vars, ingest, worker, history>>

(* One call at a time per key: sequential retries of an interrupted ingest. *)
Ingest == INSTANCE ObjectIngest WITH
    Keys <- {k1, k2}, Contents <- {c1, c2}, Stores <- {platform, b1}, Platform <- platform,
    Runners <- {r1}, MaxFaults <- 2,
    Routes <- [k \in {k1, k2} |-> IF k = k2 THEN {b1} ELSE {platform}],
    temporary <- uploads, canonical <- objects, faults <- errors

(* Two workers and one event, in every situation a handler can meet.       *)
Outbox == INSTANCE OutboxWorker WITH
    Events <- {e1}, Workers <- {one, two}, Runs <- {<<one, 1>>, <<two, 1>>},
    WorkerOf <- [r \in {<<one, 1>>, <<two, 1>>} |-> r[1]], Consumers <- {c1},
    Situations <- {"sound", "length_mismatch", "missing", "unattached", "lost", "unhandled"},
    BatchSize <- 2, MaxAttempts <- 2, MaxOverruns <- 2, MaxStrikes <- 1,
    rows <- queued

(* Overlapping requests on one resource. *)
History == INSTANCE ResourceHistory WITH MaxRequests <- 3, MaxAborts <- 1

IngestRests ==
    /\ operations = 0 /\ uploads = 0 /\ objects = 0 /\ catalog = 0
    /\ audit = 0 /\ outbox = 0 /\ runners = 0 /\ errors = 0

WorkerRests ==
    /\ situation = 0 /\ queued = 0 /\ incidents = 0 /\ quarantines = 0 /\ queue = 0
    /\ consumers = 0 /\ rejected = 0 /\ overruns = 0 /\ strikes = 0

HistoryRests ==
    /\ resource = 0 /\ revisions = 0 /\ tombstones = 0 /\ trail = 0
    /\ requests = 0 /\ aborts = 0

(* An import that does not move is one at its start. *)
ImportRests == insert = Blobs /\ \A r \in Runs : runs[r].key = k1

MCInit ==
    /\ part \in {"import", "ingest", "outbox", "history"}
    /\ Init
    /\ part # "import" => ImportRests
    /\ IF part = "ingest" THEN Ingest!Init ELSE IngestRests
    /\ IF part = "outbox" THEN Outbox!OutboxInit ELSE WorkerRests
    /\ IF part = "history" THEN History!HistoryInit ELSE HistoryRests

MCNext ==
    \/ part = "import" /\ Next /\ UNCHANGED <<part, ingest, worker, history>>
    \/ part = "ingest" /\ Ingest!Next /\ UNCHANGED <<part, vars, worker, history>>
    \/ part = "outbox" /\ Outbox!OutboxNext /\ UNCHANGED <<part, vars, ingest, history>>
    \/ part = "history" /\ History!HistoryNext /\ UNCHANGED <<part, vars, ingest, worker>>

Runners == {<<one, 1>>, <<two, 1>>} \X {c1}

(* The fairness of each component, in the behaviours that are its. *)
MCFairness ==
    /\ \A r \in Runs : WF_vars(part = "import" /\ Step(r))
    /\ WF_ingest(part = "ingest" /\ Ingest!Step(r1))
    /\ \A k \in {k1, k2} : SF_ingest(part = "ingest" /\ Ingest!Retry(k))
    /\ \A r \in {<<one, 1>>, <<two, 1>>} : WF_worker(part = "outbox" /\ Outbox!Claim(r))
    /\ \A c \in Runners :
         /\ WF_worker(part = "outbox" /\ Outbox!Take(c))
         /\ WF_worker(part = "outbox" /\ (Outbox!HandlerReturns(c) \/ Outbox!HandlerThrows(c)))
         /\ WF_worker(part = "outbox" /\ Outbox!CompleteEvent(c))
         /\ WF_worker(part = "outbox" /\ Outbox!FailAttempt(c))
    /\ WF_worker(part = "outbox" /\ Outbox!LeaseExpires(e1))
    /\ WF_worker(part = "outbox" /\ Outbox!DelayPasses(e1))
    /\ \A q \in 1..3 : WF_history(part = "history" /\ History!RequestStep(q))

MCSpec == MCInit /\ [][MCNext]_sum /\ MCFairness

-----------------------------------------------------------------------------
(* Overlapping calls of execute do not keep each other from completing the *)
(* import (ImportCompletes of ArchiveImport, with its premises).           *)
OverlappingImportsComplete == part = "import" => ImportCompletes

(* Every ingest that began, whatever interrupts it, is completed by the    *)
(* client's retries (the checkpoints of ObjectIngestService.ingest).       *)
ResumesToCompletion ==
    \A k \in {k1, k2} :
        part = "ingest" /\ operations[k].request # None
            ~> part = "ingest" /\ Ingest!completed \in Ingest!Marked(k)

(* Every outbox event is processed or quarantined: the worker's retries    *)
(* are bounded.                                                            *)
EveryEventSettles == <>(part = "outbox" => Outbox!SettledRightly(e1))

(* Row, key and advisory locks are never waited for in a circle: every     *)
(* request on a resource's history ends.                                   *)
RequestsEnd ==
    \A q \in 1..3 :
        part = "history" /\ History!At(q, "read")
            ~> part = "history" /\ requests[q].pc \in History!Ended
=============================================================================
