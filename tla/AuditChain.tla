----------------------------- MODULE AuditChain -----------------------------
(***************************************************************************)
(* The hash chain of a workspace's audit_events: appendAuditEvent and      *)
(* verifyAuditChain (packages/audit), and the transactions that append     *)
(* (appendAudit of packages/persistence-postgres, which the history, the   *)
(* contract, the portability and the import stores each repeat).           *)
(*                                                                         *)
(* A writer takes its timestamp when its request arrives, then waits for   *)
(* the workspace's advisory lock, links its event to the newest one by     *)
(* (occurred_at, id), where id is a random UUID, and commits.  The         *)
(* verification reads the events ordered by (occurred_at, id).             *)
(*                                                                         *)
(* An event's hash covers its body and the previous hash, so it stands for *)
(* the event: a link names the event whose hash it holds.                  *)
(***************************************************************************)
EXTENDS Integers, Sequences

CONSTANTS
    Writers,    \* transactions that append audit events
    Ids,        \* the UUIDs of events, ordered as PostgreSQL orders them
    MaxTime,    \* bound on the clock, in milliseconds
    Skew,       \* how far the clocks of the API processes differ
    NoEvent     \* no event

ASSUME AuditConstants ==
    /\ Ids \subseteq Nat
    /\ MaxTime \in Nat
    /\ Skew \in Nat
    /\ NoEvent \notin Ids

VARIABLES
    log,        \* the committed events, in commit order
    writers,    \* the local state of every writer
    clock

auditVars == <<log, writers, clock>>

Times == 0..(MaxTime + Skew)
Event == [time: Times, id: Ids, previous: Ids \cup {NoEvent}]
Writer == [pc: {"idle", "stamped", "locked", "linked"}, time: Times,
           id: Ids \cup {NoEvent}, previous: Ids \cup {NoEvent}]

IdleWriter == [pc |-> "idle", time |-> 0, id |-> NoEvent, previous |-> NoEvent]

AuditTypeOK ==
    /\ log \in Seq(Event)
    /\ writers \in [Writers -> Writer]
    /\ clock \in 0..MaxTime

AuditInit ==
    /\ log = <<>>
    /\ writers = [w \in Writers |-> IdleWriter]
    /\ clock = 0

----------------------------------------------------------------------------
(* ORDER BY occurred_at, id.                                               *)
Before(e, f) == e.time < f.time \/ (e.time = f.time /\ e.id < f.id)

(* The event of a sequence of events that comes last in that order is the  *)
(* one a new event is linked to.                                           *)
IsNewest(n, events) ==
    /\ n \in DOMAIN events
    /\ \A i \in DOMAIN events : i # n => Before(events[i], events[n])

(* Mutant: the oldest event is taken.                                      *)
LinkToOldest(previous, events) ==
    IF events = <<>>
    THEN previous = NoEvent
    ELSE \E n \in DOMAIN events :
           /\ \A i \in DOMAIN events : i # n => Before(events[n], events[i])
           /\ previous = events[n].id

LinkTo(previous, events) ==
    IF events = <<>>
    THEN previous = NoEvent
    ELSE \E n \in DOMAIN events : IsNewest(n, events) /\ previous = events[n].id

(* verifyAuditChain over the ordered events: every event holds the hash of *)
(* the one before it.                                                      *)
IsPredecessor(m, n, events) ==
    /\ Before(events[m], events[n])
    /\ \A i \in DOMAIN events :
         Before(events[i], events[n]) => i = m \/ Before(events[i], events[m])

VerifyAuditChain(events) ==
    \A n \in DOMAIN events :
        IF \E i \in DOMAIN events : Before(events[i], events[n])
        THEN \E m \in DOMAIN events : /\ IsPredecessor(m, n, events)
                                      /\ events[n].previous = events[m].id
        ELSE events[n].previous = NoEvent

----------------------------------------------------------------------------
(* occurredAt is read before the transaction waits for anything.           *)
Stamp(w) ==
    /\ writers[w].pc = "idle"
    /\ \E time \in clock..(clock + Skew) :
         writers' = [writers EXCEPT ![w].pc = "stamped", ![w].time = time]
    /\ UNCHANGED <<log, clock>>

(* pg_advisory_xact_lock: held until the transaction ends.                 *)
EnterLocked(w) ==
    /\ writers[w].pc = "stamped"
    /\ \A v \in Writers : writers[v].pc \notin {"locked", "linked"}
    /\ writers' = [writers EXCEPT ![w].pc = "locked"]
    /\ UNCHANGED <<log, clock>>

FreshIds == {id \in Ids : /\ \A n \in DOMAIN log : log[n].id # id
                          /\ \A v \in Writers : writers[v].id # id}

(* The newest event is read and the new one inserted.                      *)
Link(w) ==
    /\ writers[w].pc = "locked"
    /\ \E id \in FreshIds, previous \in Ids \cup {NoEvent} :
         /\ LinkTo(previous, log)
         /\ writers' = [writers EXCEPT ![w] =
              [@ EXCEPT !.pc = "linked", !.id = id, !.previous = previous]]
    /\ UNCHANGED <<log, clock>>

EventOf(w) == [time |-> writers[w].time, id |-> writers[w].id,
               previous |-> writers[w].previous]

Commit(w) ==
    /\ writers[w].pc = "linked"
    /\ log' = Append(log, EventOf(w))
    /\ writers' = [writers EXCEPT ![w] = IdleWriter]
    /\ UNCHANGED clock

(* The transaction fails, before or after its insert.                      *)
Rollback(w) ==
    /\ writers[w].pc # "idle"
    /\ writers' = [writers EXCEPT ![w] = IdleWriter]
    /\ UNCHANGED <<log, clock>>

Tick ==
    /\ clock < MaxTime
    /\ clock' = clock + 1
    /\ UNCHANGED <<log, writers>>

AuditNext ==
    \/ \E w \in Writers : \/ Stamp(w) \/ EnterLocked(w) \/ Link(w)
                          \/ Commit(w) \/ Rollback(w)
    \/ Tick

AuditSpec == AuditInit /\ [][AuditNext]_auditVars

----------------------------------------------------------------------------
(* What the verification level "workspace" reports as AUDIT_CHAIN_INVALID  *)
(* does not happen.                                                        *)
ChainVerifies == VerifyAuditChain(log)

(* The events were committed in the order the verification reads them in.  *)
CommittedInOrder ==
    \A m, n \in DOMAIN log : m < n => Before(log[m], log[n])

(* The advisory lock serialises the read of the newest event and the       *)
(* insert: whatever writers overlap, fail and retry, the chain verifies    *)
(* whenever timestamps and ids follow the order of the commits.            *)
OrderedChainVerifies == CommittedInOrder => ChainVerifies

=============================================================================
