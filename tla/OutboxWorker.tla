---------------------------- MODULE OutboxWorker ----------------------------
(***************************************************************************)
(* The leased outbox: PostgresOutboxStore (packages/persistence-postgres), *)
(* ReconciliationWorker and its handlers (packages/reconciliation), and    *)
(* the loop of apps/trust-worker.                                          *)
(*                                                                         *)
(* A run is one call of ReconciliationWorker.runOnce.  It claims a batch   *)
(* and starts concurrent consumers over it.  A consumer that cannot give   *)
(* its event back rejects, and the run with it, but Promise.all does not   *)
(* stop the other consumers: the loop of the same worker then starts its   *)
(* next run, under the same workerId, beside them.                         *)
(*                                                                         *)
(* Time is abstracted to the comparisons the queries make.  A lease is     *)
(* held or expired; an event is due or still delayed; and the timestamp of *)
(* a late query keeps what it was compared to when it was taken, because   *)
(* the consumers read the clock before they await the transaction.         *)
(***************************************************************************)
EXTENDS Integers, FiniteSets, NoValue

CONSTANTS
    Events,         \* rows of outbox_events
    Workers,        \* workerIds, one per worker process
    Runs,           \* calls of runOnce that can be in progress at once
    WorkerOf,       \* WorkerOf[r]: the worker whose loop calls run r
    Consumers,      \* consumers of a run: the configured concurrency
    Situations,     \* what the handler of an event can meet
    BatchSize,      \* events claimed by a run
    MaxAttempts,    \* failed attempts before quarantine
    MaxOverruns,    \* bound on leases that expire under a live consumer
    MaxStrikes      \* bound on crashes and transient errors

VARIABLES
    situation,      \* what the handler of every event meets
    rows,           \* the outbox_events table
    incidents,      \* the <<event, code>> pairs of reconciliation_incidents
    quarantines,    \* number of OUTBOX_EVENT_QUARANTINED incidents by event
    queue,          \* the claimed events of a run not yet taken
    consumers,      \* the local state of every consumer
    rejected,       \* runs whose promise is rejected
    overruns,       \* leases that expired under a live consumer
    strikes         \* crashes and transient errors so far

outboxTables == <<rows, incidents, quarantines>>
runVars == <<queue, consumers, rejected>>
bounds == <<overruns, strikes>>
outboxVars == <<situation, outboxTables, runVars, bounds>>

(* The columns the queries read: processed_at and quarantined_at as set or *)
(* not, locked_by, locked_until against the clock, available_at against    *)
(* the clock, and attempt_count.                                           *)
Row == [processed: BOOLEAN, quarantined: BOOLEAN, attempts: 0..MaxAttempts,
        lockedBy: Workers \cup {None}, lease: {"none", "held", "expired"},
        due: BOOLEAN]

NewRow == [processed |-> FALSE, quarantined |-> FALSE, attempts |-> 0,
           lockedBy |-> None, lease |-> "none", due |-> TRUE]

(* An event as claim returned it, with the attempt count of that moment.   *)
Claimed == [event: Events, attempts: 0..MaxAttempts]

(* A consumer is done, about to take an event, in its handler, or waiting  *)
(* for the query that completes or fails its event.  inTime says whether   *)
(* the timestamp of that query was taken before the lease expired.         *)
Consumer == [pc: {"done", "ready", "handle", "complete", "fail"},
             job: Claimed \cup {None}, inTime: BOOLEAN]

IdleConsumer == [pc |-> "done", job |-> None, inTime |-> FALSE]
Ready == [IdleConsumer EXCEPT !.pc = "ready"]

(* What blob.reconcile_requested can find; "lost" is neither metadata nor  *)
(* object, and "unhandled" is an event type without a handler.  "sound"    *)
(* also stands for the handlers that do nothing.                           *)
HasMetadata(s) == s \in {"sound", "length_mismatch", "missing"}
HasObject(s) == s \in {"sound", "length_mismatch", "unattached"}

IncidentCodes == {"METADATA_WITHOUT_OBJECT", "UNATTACHED_IMMUTABLE_OBJECT",
                  "RECONCILIATION_LENGTH_MISMATCH"}

(* The incidents the handler records when storage.head answers (or fails). *)
IncidentsOf(s, headAnswers) ==
    IF HasMetadata(s) /\ ~headAnswers THEN {"METADATA_WITHOUT_OBJECT"}
    ELSE IF s = "unattached" THEN {"UNATTACHED_IMMUTABLE_OBJECT"}
    ELSE IF s = "length_mismatch" THEN {"RECONCILIATION_LENGTH_MISMATCH"}
    ELSE {}

OutboxTypeOK ==
    /\ situation \in [Events -> Situations]
    /\ rows \in [Events -> Row]
    /\ incidents \subseteq Events \X IncidentCodes
    /\ quarantines \in [Events -> Nat]
    /\ queue \in [Runs -> SUBSET Claimed]
    /\ consumers \in [Runs \X Consumers -> Consumer]
    /\ rejected \subseteq Runs
    /\ overruns \in 0..MaxOverruns
    /\ strikes \in 0..MaxStrikes

OutboxConstants ==
    /\ WorkerOf \in [Runs -> Workers]
    /\ MaxAttempts \in Nat \ {0}
    /\ MaxOverruns \in Nat
    /\ MaxStrikes \in Nat
    /\ None \notin Workers \cup Claimed

OutboxInit ==
    /\ situation \in [Events -> Situations]
    /\ rows = [e \in Events |-> NewRow]
    /\ incidents = {}
    /\ quarantines = [e \in Events |-> 0]
    /\ queue = [r \in Runs |-> {}]
    /\ consumers = [c \in Runs \X Consumers |-> IdleConsumer]
    /\ rejected = {}
    /\ overruns = 0
    /\ strikes = 0

----------------------------------------------------------------------------
Settled(e) == rows[e].processed \/ rows[e].quarantined

(* Mutants of claim: the candidates include quarantined events, or leave   *)
(* out the events whose lease expired.                                     *)
ClaimQuarantined ==
    {e \in Events : ~rows[e].processed /\ rows[e].due /\ rows[e].lease # "held"}
ClaimUnlocked ==
    {e \in Events : ~Settled(e) /\ rows[e].due /\ rows[e].lease = "none"}

(* The rows claim may take: SKIP LOCKED and the order by available_at make *)
(* the choice among them depend on other transactions.                     *)
Candidates ==
    {e \in Events : /\ ~rows[e].processed
                    /\ ~rows[e].quarantined
                    /\ rows[e].due
                    /\ rows[e].lease # "held"}

Live(r) == {c \in Consumers : consumers[<<r, c>>].pc # "done"}

(* The loop of a worker awaits runOnce: a new run starts when the promise  *)
(* of the last one is settled.  The run r itself must have no consumer     *)
(* left over.                                                              *)
LoopIsFree(r) ==
    /\ Live(r) = {}
    /\ \A s \in Runs : (WorkerOf[s] = WorkerOf[r] /\ Live(s) # {})
                          => s \in rejected

(* The consumers a run starts: one per event, up to the concurrency.       *)
StartConsumers(r, size) ==
    \E started \in SUBSET Consumers :
        /\ started # {}
        /\ Cardinality(started) <= size
        /\ Cardinality(started) < size => started = Consumers
        /\ consumers' = [rc \in Runs \X Consumers |->
             IF rc[1] = r /\ rc[2] \in started THEN Ready ELSE consumers[rc]]

Lock(batch, w) ==
    rows' = [e \in Events |->
        IF e \in batch
        THEN [rows[e] EXCEPT !.lockedBy = w, !.lease = "held"]
        ELSE rows[e]]

Claim(r) ==
    /\ LoopIsFree(r)
    /\ \E batch \in SUBSET Candidates :
         /\ batch # {}
         /\ Cardinality(batch) <= BatchSize
         /\ Lock(batch, WorkerOf[r])
         /\ queue' = [queue EXCEPT ![r] =
              {[event |-> e, attempts |-> rows[e].attempts] : e \in batch}]
         /\ StartConsumers(r, Cardinality(batch))
    /\ rejected' = rejected \ {r}
    /\ UNCHANGED <<situation, incidents, quarantines, bounds>>

----------------------------------------------------------------------------
(* The consumers.  c is a pair: a run and a consumer of it.                *)
NextEvent(c) == consumers' = [consumers EXCEPT ![c] = Ready]

(* The consumer reads the clock for its next query on event e.             *)
Stamp(c, pc) ==
    consumers' = [consumers EXCEPT
        ![c].pc = pc,
        ![c].inTime = rows[consumers[c].job.event].lease # "expired"]

(* The shared cursor: the next event of the batch, or the end of consume.  *)
Take(c) ==
    /\ consumers[c].pc = "ready"
    /\ \/ \E job \in queue[c[1]] :
            /\ queue' = [queue EXCEPT ![c[1]] = @ \ {job}]
            /\ consumers' = [consumers EXCEPT
                 ![c] = [pc |-> "handle", job |-> job, inTime |-> FALSE]]
       \/ /\ queue[c[1]] = {}
          /\ consumers' = [consumers EXCEPT ![c] = IdleConsumer]
          /\ UNCHANGED queue
    /\ UNCHANGED <<situation, outboxTables, rejected, bounds>>

QueryFault == strikes < MaxStrikes /\ strikes' = strikes + 1
NoQueryFault == UNCHANGED strikes

(* storage.head throws when the object is missing and when it cannot be    *)
(* reached; the handler does not tell the two apart.                       *)
HandlerReturns(c) ==
    LET e == consumers[c].job.event
        s == situation[e]
    IN  /\ consumers[c].pc = "handle"
        /\ s # "unhandled"
        /\ \E headAnswers \in BOOLEAN :
             /\ headAnswers => HasObject(s)
             /\ headAnswers \/ HasMetadata(s)
             /\ IF HasObject(s) /\ ~headAnswers THEN QueryFault ELSE NoQueryFault
             /\ incidents' = incidents \cup
                  {<<e, code>> : code \in IncidentsOf(s, headAnswers)}
        /\ Stamp(c, "complete")
        /\ UNCHANGED <<situation, rows, quarantines, queue, rejected, overruns>>

(* No handler, storage.head without metadata, or a failing query.          *)
HandlerThrows(c) ==
    LET s == situation[consumers[c].job.event]
    IN  /\ consumers[c].pc = "handle"
        /\ IF s = "unhandled" \/ ~(HasMetadata(s) \/ HasObject(s))
           THEN NoQueryFault
           ELSE QueryFault
        /\ Stamp(c, "fail")
        /\ UNCHANGED <<situation, outboxTables, queue, rejected, overruns>>

----------------------------------------------------------------------------
(* Mutant of the guard: locked_by is not compared.                         *)
AnyLease(c) ==
    LET row == rows[consumers[c].job.event]
    IN  ~row.processed /\ (row.lease = "held" \/ consumers[c].inTime)

(* The guard of complete, retry and quarantine: locked_by is this worker,  *)
(* the event is not processed and locked_until is not before the query's   *)
(* timestamp.  A lease that is held ends after every earlier timestamp.    *)
OwnsLease(c) ==
    LET row == rows[consumers[c].job.event]
    IN  /\ row.lockedBy = WorkerOf[c[1]]
        /\ ~row.processed
        /\ row.lease = "held" \/ consumers[c].inTime

Release(row) == [row EXCEPT !.lockedBy = None, !.lease = "none"]

SetProcessed(e) ==
    rows' = [rows EXCEPT ![e] = [Release(rows[e]) EXCEPT !.processed = TRUE]]

(* complete throws when the guard fails, on an error, and when the answer  *)
(* is lost after the commit; the consumer then fails the attempt.          *)
CompleteEvent(c) ==
    LET e == consumers[c].job.event
    IN  /\ consumers[c].pc = "complete"
        /\ \/ OwnsLease(c) /\ SetProcessed(e) /\ NextEvent(c) /\ NoQueryFault
           \/ OwnsLease(c) /\ SetProcessed(e) /\ Stamp(c, "fail") /\ QueryFault
           \/ OwnsLease(c) /\ UNCHANGED rows /\ Stamp(c, "fail") /\ QueryFault
           \/ ~OwnsLease(c) /\ UNCHANGED rows /\ Stamp(c, "fail") /\ NoQueryFault
        /\ UNCHANGED <<situation, incidents, quarantines, queue, rejected,
                       overruns>>

RetryEvent(e, attempt) ==
    /\ rows' = [rows EXCEPT ![e] =
         [Release(rows[e]) EXCEPT !.attempts = attempt, !.due = FALSE]]
    /\ UNCHANGED quarantines

(* The update and the critical incident are one transaction.               *)
Quarantine(e, attempt) ==
    /\ rows' = [rows EXCEPT ![e] =
         [Release(rows[e]) EXCEPT !.attempts = attempt, !.quarantined = TRUE]]
    /\ quarantines' = [quarantines EXCEPT ![e] = @ + 1]

(* Mutant of the limit: one attempt too many.                              *)
OneMoreAttempt(job) ==
    LET attempt == job.attempts + 1
    IN  IF attempt > MaxAttempts THEN Quarantine(job.event, attempt)
                                 ELSE RetryEvent(job.event, attempt)

(* The attempt count written is the one claim returned plus one.           *)
GiveBack(job) ==
    LET attempt == job.attempts + 1
    IN  IF attempt >= MaxAttempts THEN Quarantine(job.event, attempt)
                                  ELSE RetryEvent(job.event, attempt)

(* An error of retry or quarantine leaves consume: the consumer ends and   *)
(* the promise of the run rejects.                                         *)
Reject(c) ==
    /\ consumers' = [consumers EXCEPT ![c] = IdleConsumer]
    /\ rejected' = rejected \cup {c[1]}

FailAttempt(c) ==
    LET job == consumers[c].job
    IN  /\ consumers[c].pc = "fail"
        /\ \/ /\ OwnsLease(c) /\ GiveBack(job) /\ NextEvent(c) /\ NoQueryFault
              /\ UNCHANGED rejected
           \/ OwnsLease(c) /\ GiveBack(job) /\ Reject(c) /\ QueryFault
           \/ /\ OwnsLease(c) /\ Reject(c) /\ QueryFault
              /\ UNCHANGED <<rows, quarantines>>
           \/ /\ ~OwnsLease(c) /\ Reject(c) /\ NoQueryFault
              /\ UNCHANGED <<rows, quarantines>>
        /\ UNCHANGED <<situation, incidents, queue, overruns>>

----------------------------------------------------------------------------
(* The clock.  An expiry is an overrun when a consumer of the lease's      *)
(* owner still has the event, or has yet to take it.                       *)
UnderWay(e) ==
    \E r \in Runs :
        /\ WorkerOf[r] = rows[e].lockedBy
        /\ Live(r) # {}
        /\ \/ \E job \in queue[r] : job.event = e
           \/ \E k \in Live(r) : /\ consumers[<<r, k>>].job # None
                                 /\ consumers[<<r, k>>].job.event = e

LeaseExpires(e) ==
    /\ rows[e].lease = "held"
    /\ rows' = [rows EXCEPT ![e].lease = "expired"]
    /\ IF UnderWay(e)
       THEN overruns < MaxOverruns /\ overruns' = overruns + 1
       ELSE UNCHANGED overruns
    /\ UNCHANGED <<situation, incidents, quarantines, runVars, strikes>>

DelayPasses(e) ==
    /\ ~rows[e].due
    /\ rows' = [rows EXCEPT ![e].due = TRUE]
    /\ UNCHANGED <<situation, incidents, quarantines, runVars, bounds>>

(* The worker process stops, at a signal or by a crash, and is restarted:  *)
(* its runs are gone and its leases stay.                                  *)
WorkerCrash(w) ==
    /\ \E r \in Runs : WorkerOf[r] = w /\ Live(r) # {}
    /\ QueryFault
    /\ queue' = [r \in Runs |-> IF WorkerOf[r] = w THEN {} ELSE queue[r]]
    /\ consumers' = [c \in Runs \X Consumers |->
         IF WorkerOf[c[1]] = w THEN IdleConsumer ELSE consumers[c]]
    /\ rejected' = {r \in rejected : WorkerOf[r] # w}
    /\ UNCHANGED <<situation, outboxTables, overruns>>

ConsumerStep(c) ==
    Take(c) \/ HandlerReturns(c) \/ HandlerThrows(c) \/ CompleteEvent(c)
        \/ FailAttempt(c)

OutboxNext ==
    \/ \E r \in Runs : Claim(r)
    \/ \E c \in Runs \X Consumers : ConsumerStep(c)
    \/ \E e \in Events : LeaseExpires(e) \/ DelayPasses(e)
    \/ \E w \in Workers : WorkerCrash(w)

OutboxSpec == OutboxInit /\ [][OutboxNext]_outboxVars

(* Loops run again, queries are answered, handlers end and time passes.    *)
OutboxFairSpec ==
    /\ OutboxSpec
    /\ \A r \in Runs : WF_outboxVars(Claim(r))
    /\ \A c \in Runs \X Consumers :
         /\ WF_outboxVars(Take(c))
         /\ WF_outboxVars(HandlerReturns(c) \/ HandlerThrows(c))
         /\ WF_outboxVars(CompleteEvent(c))
         /\ WF_outboxVars(FailAttempt(c))
    /\ \A e \in Events : WF_outboxVars(LeaseExpires(e)) /\ WF_outboxVars(DelayPasses(e))

----------------------------------------------------------------------------
(* complete, retry and quarantine test processed_at but not quarantined_at:*)
(* still, once an event is processed or quarantined, no late query of any  *)
(* run changes its row, so no event is processed twice, or both processed  *)
(* and quarantined.                                                        *)
OutcomeKept == \A e \in Events : Settled(e) => rows'[e] = rows[e]
OutcomeIsFinal == [][OutcomeKept]_outboxVars

(* quarantine writes the row and the incident together: a quarantined      *)
(* event has exactly one critical incident and used up its attempts, and   *)
(* no other event has either, whatever was retried, lost or repeated.      *)
QuarantineIsAccounted ==
    \A e \in Events :
        /\ rows[e].quarantined <=> rows[e].attempts = MaxAttempts
        /\ quarantines[e] = IF rows[e].quarantined THEN 1 ELSE 0

(* The consumer that is about to complete or fail event e by a lease it    *)
(* still owns.                                                             *)
Owners(e) ==
    {c \in Runs \X Consumers : /\ consumers[c].pc \in {"complete", "fail"}
                               /\ consumers[c].job.event = e
                               /\ OwnsLease(c)}

(* The run r is in progress, and no left-over consumer of an earlier run   *)
(* of its worker is.                                                       *)
OnlyRun(r) ==
    /\ r \notin rejected
    /\ \A s \in Runs : WorkerOf[s] = WorkerOf[r] /\ Live(s) # {} => s = r

(* A consumer that owns the lease of an event is its only owner, even if   *)
(* leases expired and other workers took the event since, and the attempt  *)
(* count it writes is current: no attempt is lost.  That needs the premise *)
(* OnlyRun: left-over consumers share the workerId of the next run, and    *)
(* the guard of the queries cannot tell the two apart.                     *)
OneOwner ==
    \A e \in Events : \A c \in Owners(e) : OnlyRun(c[1]) =>
        /\ Owners(e) = {c}
        /\ consumers[c].job.attempts = rows[e].attempts

(* Every event is eventually processed or quarantined, and one that cannot *)
(* be handled is quarantined: retries are bounded.                         *)
SettledRightly(e) ==
    Settled(e) /\ (situation[e] \in {"lost", "unhandled"} => rows[e].quarantined)
EveryEventSettles == \A e \in Events : <>SettledRightly(e)

=============================================================================
