---------------------------- MODULE StorageHealth ---------------------------
(***************************************************************************)
(* Storage health and its live probe: getStorageHealth and                 *)
(* probeStorageHealth of apps/trust-api with the cache, the rate limiter   *)
(* and the timeout of storage-diagnostics.ts.                              *)
(*                                                                         *)
(* Each API process has a cache and a limiter; the audit events of probes  *)
(* are shared through the database.  Of a result only "ok" and the class   *)
(* of the issue are kept, of the catalogue whether some object failed its  *)
(* verification; both the catalogue and the provider may change any time.  *)
(* A probe of the ingest tier goes on in the background when its timeout   *)
(* has already answered the caller.                                        *)
(***************************************************************************)
EXTENDS Naturals, FiniteSets

CONSTANTS
    Processes,    \* API processes
    Calls,        \* requests
    Window,       \* STORAGE_PROBE_RATE_LIMIT_MS, and the interval of hasRecentStorageProbe
    Ttl,          \* STORAGE_HEALTH_CACHE_TTL_MS
    MaxTime,
    MaxFaults     \* bound on failed steps of a probe

VARIABLES
    cache,        \* the health cache of each process
    limiter,      \* the last probe each process let through
    events,       \* when storage.health.probed was recorded
    temporary,    \* temporary objects of probes
    calls,
    now,
    faults

vars == <<cache, limiter, events, temporary, calls, now, faults>>

IdleCall == [pc |-> "idle", at |-> {}, tier |-> "none", failed |-> FALSE, result |-> {},
             answer |-> "none", writing |-> FALSE]

Init ==
    /\ cache = [p \in Processes |-> {}]
    /\ limiter = [p \in Processes |-> {}]
    /\ events = {}
    /\ temporary = {}
    /\ calls = [c \in Calls |-> IdleCall]
    /\ now = 0
    /\ faults = 0

At(c, pc) == calls[c].pc = pc
Process(c) == CHOOSE p \in Processes : p \in calls[c].at
Ok(issue) == issue = "none"

Tick ==
    /\ now < MaxTime
    /\ now' = now + 1
    /\ UNCHANGED <<cache, limiter, events, temporary, calls, faults>>

(* deriveStorageStatus, for storage that is configured.                    *)
Status(probe, failedObjects) ==
    IF failedObjects THEN "degraded"
    ELSE IF \E r \in probe : Ok(r.issue) THEN "healthy"
    ELSE "degraded"

CacheGet(p) == {e \in cache[p] : now - e.stored <= Ttl}

(* The entry even when it has expired, for an answer that is coalesced.    *)
GetLatest(p) == cache[p]

-----------------------------------------------------------------------------
(* getStorageHealth: the catalogue is counted, then the cache is read.     *)
CountForHealth(c) ==
    /\ At(c, "idle")
    /\ \E p \in Processes, failed \in BOOLEAN :
         calls' = [calls EXCEPT ![c] =
             [IdleCall EXCEPT !.pc = "answerHealth", !.at = {p}, !.failed = failed]]
    /\ UNCHANGED <<cache, limiter, events, temporary, now, faults>>

AnswerHealth(c) ==
    /\ At(c, "answerHealth")
    /\ LET found == CacheGet(Process(c))
       IN  calls' = [calls EXCEPT ![c].pc = "health", ![c].result = found,
                                  ![c].answer = Status(found, calls[c].failed)]
    /\ UNCHANGED <<cache, limiter, events, temporary, now, faults>>

-----------------------------------------------------------------------------
(* tryAcquire: at most one probe per window for a workspace; the first one *)
(* needs no earlier.                                                       *)
Free(p) == \A last \in limiter[p] : now - last >= Window

(* probeStorageHealth, up to its first call of the database.               *)
TryAcquire(c) ==
    /\ At(c, "idle")
    /\ \E p \in Processes, tier \in {"connectivity", "ingest"} :
         LET free == Free(p)
         IN  /\ limiter' = [limiter EXCEPT ![p] = IF free THEN {now} ELSE @]
             /\ calls' = [calls EXCEPT ![c] =
                    [IdleCall EXCEPT !.at = {p}, !.tier = tier,
                                     !.pc = IF free THEN "recent"
                                            ELSE IF GetLatest(p) # {} THEN "coalesce"
                                            ELSE "rejected",
                                     !.result = IF free THEN {} ELSE GetLatest(p)]]
    /\ UNCHANGED <<cache, events, temporary, now, faults>>

(* hasRecentStorageProbe: of any process.                                  *)
LookRecent(c) ==
    /\ At(c, "recent")
    /\ LET recent == \E t \in events : now - t < Window
           latest == GetLatest(Process(c))
       IN  calls' = [calls EXCEPT ![c].pc = IF recent /\ latest # {} THEN "coalesce" ELSE "count",
                                  ![c].result = IF recent THEN latest ELSE {}]
    /\ UNCHANGED <<cache, limiter, events, temporary, now, faults>>

(* A coalesced answer counts the catalogue anew.                           *)
Coalesce(c) ==
    /\ At(c, "coalesce")
    /\ \E failed \in BOOLEAN :
         calls' = [calls EXCEPT ![c].pc = "coalesced",
                                ![c].answer = Status(calls[c].result, failed)]
    /\ UNCHANGED <<cache, limiter, events, temporary, now, faults>>

Count(c) ==
    /\ At(c, "count")
    /\ \E failed \in BOOLEAN :
         calls' = [calls EXCEPT ![c].pc = "head", ![c].failed = failed]
    /\ UNCHANGED <<cache, limiter, events, temporary, now, faults>>

Result(issue) == {[issue |-> issue, stored |-> now]}

(* The region the provider reports is compared at the end of a probe.      *)
Completed == {"none", "wrong_region"}

(* runStorageProbe: HeadBucket, then for the ingest tier a temporary       *)
(* object that is written and deleted.                                     *)
HeadBucket(c) ==
    /\ At(c, "head")
    /\ \/ /\ calls[c].tier = "ingest"
          /\ calls' = [calls EXCEPT ![c].pc = "write"]
       \/ \E issue \in {"network", "permission"} \cup
                       (IF calls[c].tier = "ingest" THEN {} ELSE Completed) :
            calls' = [calls EXCEPT ![c].pc = "probed", ![c].result = Result(issue)]
    /\ UNCHANGED <<cache, limiter, events, temporary, now, faults>>

WriteTemporary(c) ==
    /\ At(c, "write") \/ calls[c].writing
    /\ c \notin temporary
    /\ \/ temporary' = temporary \cup {c} /\ UNCHANGED calls
       \/ /\ calls' = [calls EXCEPT ![c].writing = FALSE,
                 ![c].pc = IF calls[c].writing THEN @ ELSE "probed",
                 ![c].result = IF calls[c].writing THEN @ ELSE Result("network")]
          /\ UNCHANGED temporary
    /\ UNCHANGED <<cache, limiter, events, now, faults>>

(* The finally block: the object is deleted, or the probe fails with       *)
(* "cleanup_failed" (class internal) and the object stays.                 *)
DeleteTemporary(c) ==
    /\ At(c, "write") \/ calls[c].writing
    /\ c \in temporary
    /\ \/ temporary' = temporary \ {c} /\ UNCHANGED faults
       \/ faults < MaxFaults /\ faults' = faults + 1 /\ UNCHANGED temporary
    /\ \E issue \in IF c \in temporary' THEN {"internal"} ELSE Completed :
         calls' = [calls EXCEPT ![c].writing = FALSE,
             ![c].pc = IF calls[c].writing THEN @ ELSE "probed",
             ![c].result = IF calls[c].writing THEN @ ELSE Result(issue)]
    /\ UNCHANGED <<cache, limiter, events, now>>

(* Mutant: nothing goes on after the timeout.                              *)
TimeOutForGood(c) ==
    /\ At(c, "head") \/ At(c, "write")
    /\ calls' = [calls EXCEPT ![c].pc = "probed", ![c].result = Result("network")]
    /\ UNCHANGED <<cache, limiter, events, temporary, now, faults>>

(* withAbortTimeout: the caller gets "network"; an ingest probe goes on.   *)
TimeOut(c) ==
    /\ At(c, "head") \/ At(c, "write")
    /\ calls' = [calls EXCEPT ![c].pc = "probed", ![c].result = Result("network"),
                              ![c].writing = At(c, "write")]
    /\ UNCHANGED <<cache, limiter, events, temporary, now, faults>>

SetCache(c) ==
    /\ At(c, "probed")
    /\ LET stored == {[r EXCEPT !.stored = now] : r \in calls[c].result}
       IN  /\ cache' = [cache EXCEPT ![Process(c)] = stored]
           /\ calls' = [calls EXCEPT ![c].pc = "record",
                                     ![c].answer = Status(stored, calls[c].failed)]
    /\ UNCHANGED <<limiter, events, temporary, now, faults>>

(* recordStorageProbe: the audit event and its place in the chain, in one  *)
(* transaction.                                                            *)
AppendProbe == events' = events \cup {now}

RecordProbe(c) ==
    /\ At(c, "record")
    /\ \/ AppendProbe /\ UNCHANGED faults
          /\ calls' = [calls EXCEPT ![c].pc = "answered"]
       \/ faults < MaxFaults /\ faults' = faults + 1 /\ UNCHANGED events
          /\ calls' = [calls EXCEPT ![c].pc = "failed"]
    /\ UNCHANGED <<cache, limiter, temporary, now>>

Step(c) ==
    \/ CountForHealth(c) \/ AnswerHealth(c)
    \/ TryAcquire(c) \/ LookRecent(c) \/ Coalesce(c) \/ Count(c) \/ HeadBucket(c)
    \/ WriteTemporary(c) \/ DeleteTemporary(c) \/ TimeOut(c) \/ SetCache(c) \/ RecordProbe(c)

Next == Tick \/ \E c \in Calls : Step(c)

Spec == Init /\ [][Next]_vars

-----------------------------------------------------------------------------
(* An ingest probe removes what it has written, even when its timeout has *)
(* answered the caller long before: without a failing delete, a temporary  *)
(* object of a probe is always one that a probe is still about to delete.  *)
TimedOutProbeCleansUp ==
    faults = 0 => \A c \in temporary : At(c, "write") \/ calls[c].writing
=============================================================================
