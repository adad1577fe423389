---------------------------- MODULE OutboxProofs ----------------------------
(***************************************************************************)
(* Proofs about OutboxWorker, for any number of events, workers, runs and  *)
(* consumers: what is settled stays settled, a quarantine is accounted     *)
(* for, and a lease has one owner.                                         *)
(***************************************************************************)
EXTENDS OutboxWorker, TLAPS

Pairs == Runs \X Consumers

(* The consumer c has an event in hand. *)
Holds(c) == consumers[c].job # None

(* The lease of a row: only an open event that is due has one. *)
RowInv ==
    \A e \in Events :
        /\ rows[e].lockedBy = None <=> rows[e].lease = "none"
        /\ rows[e].lockedBy # None => ~Settled(e)
        /\ rows[e].lockedBy # None \/ Settled(e) => rows[e].due

(* A consumer has an event in hand exactly while it works on it, and an    *)
(* event in hand or in a queue was claimed before its last attempt.        *)
HandInv ==
    /\ \A c \in Pairs : Holds(c) <=> consumers[c].pc \in {"handle", "complete", "fail"}
    /\ \A c \in Pairs : Holds(c) => consumers[c].job.attempts < MaxAttempts
    /\ \A r \in Runs : \A j \in queue[r] : j.attempts < MaxAttempts

(* A run has every event of its batch once, in its queue or in one hand. *)
BatchInv ==
    /\ \A r \in Runs : \A i, j \in queue[r] : i.event = j.event => i = j
    /\ \A c \in Pairs : \A j \in queue[c[1]] :
         Holds(c) => j.event # consumers[c].job.event
    /\ \A c, d \in Pairs :
         (c[1] = d[1] /\ Holds(c) /\ Holds(d)
            /\ consumers[c].job.event = consumers[d].job.event) => c = d

(* The attempts a run that has not rejected was given are those of the     *)
(* row, for as long as its worker is the one the row is locked by.         *)
IsCurrent(job, w) ==
    rows[job.event].lockedBy = w => job.attempts = rows[job.event].attempts
AttemptsInv ==
    /\ \A c \in Pairs :
         c[1] \notin rejected /\ Holds(c) => IsCurrent(consumers[c].job, WorkerOf[c[1]])
    /\ \A r \in Runs \ rejected : \A j \in queue[r] :
         Live(r) # {} => IsCurrent(j, WorkerOf[r])

IInv ==
    /\ OutboxTypeOK /\ RowInv /\ HandInv /\ BatchInv /\ AttemptsInv /\ QuarantineIsAccounted

-----------------------------------------------------------------------------
(* The rows.  A settled row cannot be locked, so a consumer that owns the  *)
(* lease of an event works on one that is open.                            *)
LEMMA OwnedIsOpen ==
    ASSUME OutboxConstants, IInv, NEW c \in Pairs, Holds(c), OwnsLease(c)
    PROVE  /\ consumers[c].job \in Claimed
           /\ consumers[c].job.event \in Events
           /\ rows[consumers[c].job.event] \in Row
           /\ rows[consumers[c].job.event].lockedBy # None
           /\ ~rows[consumers[c].job.event].processed
           /\ ~rows[consumers[c].job.event].quarantined
           /\ rows[consumers[c].job.event].due
<1> DEFINE e == consumers[c].job.event
<1>1. consumers[c] \in Consumer /\ rows \in [Events -> Row] /\ c[1] \in Runs
  BY DEF IInv, OutboxTypeOK, Pairs
<1>2. consumers[c].job \in Claimed
  BY <1>1 DEF Consumer, Holds
<1>3. e \in Events /\ rows[e] \in Row
  BY <1>1, <1>2 DEF Claimed
<1>4. rows[e].lockedBy # None
  BY <1>1 DEF OwnsLease, OutboxConstants
<1>5. ~Settled(e) /\ rows[e].due
  BY <1>3, <1>4 DEF IInv, RowInv
<1>6. QED BY <1>2, <1>3, <1>4, <1>5 DEF Settled

(* What the writes to a row may do to its lease: end it, or leave it and   *)
(* the attempts as they are.                                               *)
LeaseKept ==
    \A e \in Events :
        \/ rows'[e].lockedBy = None
        \/ rows'[e].lockedBy = rows[e].lockedBy /\ rows'[e].attempts = rows[e].attempts

(* The row e becomes y, without a lease. *)
LEMMA ReleaseRow ==
    ASSUME OutboxConstants, IInv, NEW e \in Events, NEW y \in Row,
           rows[e].lockedBy # None,
           rows' = [rows EXCEPT ![e] = y],
           y.lockedBy = None, y.lease = "none",
           y.processed \/ y.quarantined => y.due
    PROVE  rows' \in [Events -> Row] /\ RowInv' /\ LeaseKept /\ OutcomeKept
<1>1. /\ rows \in [Events -> Row] /\ rows'[e] = y
      /\ \A d \in Events \ {e} : rows'[d] = rows[d]
      /\ rows' \in [Events -> Row]
  BY DEF IInv, OutboxTypeOK
<1>2. \A d \in Events : /\ rows[d].lockedBy = None <=> rows[d].lease = "none"
                        /\ rows[d].lockedBy # None => ~Settled(d)
                        /\ rows[d].lockedBy # None \/ Settled(d) => rows[d].due
  BY DEF IInv, RowInv
<1>3. RowInv'
  <2> SUFFICES ASSUME NEW d \in Events
               PROVE  /\ rows'[d].lockedBy = None <=> rows'[d].lease = "none"
                      /\ rows'[d].lockedBy # None => ~Settled(d)'
                      /\ rows'[d].lockedBy # None \/ Settled(d)' => rows'[d].due
    BY DEF RowInv
  <2>1. CASE d = e
    BY <1>1, <2>1 DEF Settled
  <2>2. CASE d # e
    <3>1. rows'[d] = rows[d]
      BY <1>1, <2>2
    <3>2. Settled(d)' <=> Settled(d)
      BY <3>1 DEF Settled
    <3>3. QED BY <1>2, <3>1, <3>2
  <2>3. QED BY <2>1, <2>2
<1>4. LeaseKept
  BY <1>1 DEF LeaseKept
<1>5. OutcomeKept
  BY <1>1, <1>2 DEF OutcomeKept
<1>6. QED BY <1>1, <1>3, <1>4, <1>5

(* complete ends the lease and leaves the attempts. *)
LEMMA ProcessedRow ==
    ASSUME OutboxConstants, IInv, NEW c \in Pairs, Holds(c), OwnsLease(c),
           SetProcessed(consumers[c].job.event), UNCHANGED quarantines
    PROVE  /\ rows' \in [Events -> Row] /\ RowInv' /\ LeaseKept /\ OutcomeKept
           /\ QuarantineIsAccounted'
<1> DEFINE e == consumers[c].job.event
           y == [Release(rows[e]) EXCEPT !.processed = TRUE]
<1>1. /\ e \in Events /\ rows[e] \in Row /\ rows[e].lockedBy # None
      /\ ~rows[e].quarantined /\ rows[e].due
  BY OwnedIsOpen
<1>2. rows' = [rows EXCEPT ![e] = y]
  BY DEF SetProcessed
<1>3. /\ y \in Row /\ y.lockedBy = None /\ y.lease = "none"
      /\ y.attempts = rows[e].attempts
      /\ y.quarantined = rows[e].quarantined /\ y.due = rows[e].due
  BY <1>1, Zenon DEF Release, Row
<1> HIDE DEF y
<1>4. y.processed \/ y.quarantined => y.due
  BY <1>1, <1>3
<1>5. rows' \in [Events -> Row] /\ RowInv' /\ LeaseKept /\ OutcomeKept
  BY <1>1, <1>2, <1>3, <1>4, ReleaseRow, Zenon
<1>6. \A d \in Events : /\ rows'[d].attempts = rows[d].attempts
                        /\ rows'[d].quarantined = rows[d].quarantined
  BY <1>1, <1>2, <1>3 DEF IInv, OutboxTypeOK
<1>7. QED BY <1>5, <1>6 DEF IInv, QuarantineIsAccounted

(* retry and quarantine write one attempt more than claim returned: the    *)
(* last one is a quarantine, and an earlier one never is.                  *)
LEMMA GivenBackRow ==
    ASSUME OutboxConstants, IInv, NEW c \in Pairs, Holds(c), OwnsLease(c),
           GiveBack(consumers[c].job)
    PROVE  /\ rows' \in [Events -> Row] /\ quarantines' \in [Events -> Nat]
           /\ RowInv' /\ LeaseKept /\ OutcomeKept /\ QuarantineIsAccounted'
<1> DEFINE job == consumers[c].job
           e == job.event
           attempt == job.attempts + 1
           retried == [Release(rows[e]) EXCEPT !.attempts = attempt, !.due = FALSE]
           given == [Release(rows[e]) EXCEPT !.attempts = attempt, !.quarantined = TRUE]
<1>1. /\ e \in Events /\ rows[e] \in Row /\ rows[e].lockedBy # None /\ job \in Claimed
      /\ ~rows[e].processed /\ ~rows[e].quarantined /\ rows[e].due
  BY OwnedIsOpen
<1>2. job.attempts \in Nat /\ job.attempts < MaxAttempts /\ MaxAttempts \in Nat
  BY <1>1 DEF IInv, HandInv, Claimed, OutboxConstants
<1>3. /\ rows \in [Events -> Row] /\ quarantines \in [Events -> Nat]
      /\ \A d \in Events :
           /\ rows[d].quarantined <=> rows[d].attempts = MaxAttempts
           /\ quarantines[d] = IF rows[d].quarantined THEN 1 ELSE 0
  BY DEF IInv, OutboxTypeOK, QuarantineIsAccounted
<1>4. attempt \in 0..MaxAttempts
  BY <1>2
<1>5. CASE attempt >= MaxAttempts
  <2>1. /\ rows' = [rows EXCEPT ![e] = given]
        /\ quarantines' = [quarantines EXCEPT ![e] = @ + 1]
    BY <1>5 DEF GiveBack, Quarantine
  <2>2. /\ given \in Row /\ given.lockedBy = None /\ given.lease = "none"
        /\ given.quarantined /\ given.attempts = attempt /\ given.due = rows[e].due
    BY <1>1, <1>4, Zenon DEF Release, Row
  <2> HIDE DEF given
  <2>3. given.due
    BY <1>1, <2>2
  <2>4. rows' \in [Events -> Row] /\ RowInv' /\ LeaseKept /\ OutcomeKept
    BY <1>1, <2>1, <2>2, <2>3, ReleaseRow, Zenon
  <2>5. quarantines[e] = 0
    BY <1>1, <1>3
  <2>6. quarantines' \in [Events -> Nat] /\ quarantines'[e] = 1 /\ rows'[e] = given
    BY <1>1, <1>3, <2>1, <2>5
  <2>7. attempt = MaxAttempts
    BY <1>2, <1>5
  <2>8. \A d \in Events \ {e} : rows'[d] = rows[d] /\ quarantines'[d] = quarantines[d]
    BY <1>3, <2>1
  <2>9. QuarantineIsAccounted'
    <3> SUFFICES ASSUME NEW d \in Events
                 PROVE  /\ rows'[d].quarantined <=> rows'[d].attempts = MaxAttempts
                        /\ quarantines'[d] = IF rows'[d].quarantined THEN 1 ELSE 0
      BY DEF QuarantineIsAccounted
    <3>1. CASE d = e
      BY <2>2, <2>6, <2>7, <3>1
    <3>2. CASE d # e
      BY <1>3, <2>8, <3>2
    <3>3. QED BY <3>1, <3>2
  <2>10. QED BY <2>4, <2>6, <2>9
<1>6. CASE ~(attempt >= MaxAttempts)
  <2>1. rows' = [rows EXCEPT ![e] = retried] /\ quarantines' = quarantines
    BY <1>6 DEF GiveBack, RetryEvent
  <2>2. /\ retried \in Row /\ retried.lockedBy = None /\ retried.lease = "none"
        /\ retried.quarantined = rows[e].quarantined
        /\ retried.processed = rows[e].processed /\ retried.attempts = attempt
    BY <1>1, <1>4, Zenon DEF Release, Row
  <2> HIDE DEF retried
  <2>3. ~retried.quarantined /\ ~retried.processed
    BY <1>1, <2>2
  <2>4. rows' \in [Events -> Row] /\ RowInv' /\ LeaseKept /\ OutcomeKept
    BY <1>1, <2>1, <2>2, <2>3, ReleaseRow, Zenon
  <2>5. attempt # MaxAttempts /\ quarantines[e] = 0 /\ rows'[e] = retried
    BY <1>1, <1>2, <1>3, <1>6, <2>1
  <2>6. \A d \in Events \ {e} : rows'[d] = rows[d]
    BY <1>3, <2>1
  <2>7. QuarantineIsAccounted'
    <3> SUFFICES ASSUME NEW d \in Events
                 PROVE  /\ rows'[d].quarantined <=> rows'[d].attempts = MaxAttempts
                        /\ quarantines'[d] = IF rows'[d].quarantined THEN 1 ELSE 0
      BY DEF QuarantineIsAccounted
    <3>1. CASE d = e
      BY <2>1, <2>2, <2>3, <2>5, <3>1
    <3>2. CASE d # e
      BY <1>3, <2>1, <2>6, <3>2
    <3>3. QED BY <3>1, <3>2
  <2>8. QED BY <1>3, <2>1, <2>4, <2>7
<1>7. QED BY <1>5, <1>6

-----------------------------------------------------------------------------
(* The consumers.  The consumer c goes on to x, with the event it had in   *)
(* hand or with none.                                                      *)
Busy == {"handle", "complete", "fail"}

LEMMA HandsKept ==
    ASSUME OutboxConstants, IInv, NEW c \in Pairs, NEW x \in Consumer,
           consumers' = [consumers EXCEPT ![c] = x], UNCHANGED queue,
           x.job = None \/ x.job = consumers[c].job,
           x.job # None <=> x.pc \in Busy
    PROVE  consumers' \in [Pairs -> Consumer] /\ HandInv' /\ BatchInv'
<1>1. /\ consumers \in [Pairs -> Consumer] /\ consumers'[c] = x
      /\ consumers' \in [Pairs -> Consumer]
      /\ \A d \in Pairs \ {c} : consumers'[d] = consumers[d]
  BY DEF IInv, OutboxTypeOK, Pairs
<1>2. \A d \in Pairs : Holds(d)' => Holds(d) /\ consumers'[d].job = consumers[d].job
  BY <1>1 DEF Holds
<1>3. HandInv'
  <2>1. \A d \in Pairs : Holds(d)' <=> consumers'[d].pc \in Busy
    BY <1>1 DEF IInv, HandInv, Holds, Busy
  <2>2. QED BY <1>2, <2>1 DEF IInv, HandInv, Busy
<1>4. BatchInv'
  BY <1>2 DEF IInv, BatchInv
<1>5. QED BY <1>1, <1>3, <1>4

(* Such a step keeps the attempts current when leases only end and no run  *)
(* comes to life.                                                          *)
LEMMA AttemptsKept ==
    ASSUME OutboxConstants, IInv, LeaseKept, UNCHANGED queue,
           rejected \subseteq rejected',
           \A d \in Pairs : Holds(d)' => Holds(d) /\ consumers'[d].job = consumers[d].job,
           \A r \in Runs : Live(r)' # {} => Live(r) # {}
    PROVE  AttemptsInv'
<1>1. \A r \in Runs : WorkerOf[r] # None /\ WorkerOf[r] \in Workers
  BY DEF OutboxConstants
<1>2. ASSUME NEW j \in Claimed, NEW r \in Runs, IsCurrent(j, WorkerOf[r])
      PROVE  IsCurrent(j, WorkerOf[r])'
  BY <1>1, <1>2 DEF LeaseKept, IsCurrent, Claimed
<1>3. \A c \in Pairs : Holds(c) => consumers[c].job \in Claimed /\ c[1] \in Runs
  BY DEF IInv, OutboxTypeOK, Pairs, Consumer, Holds
<1>4. ASSUME NEW c \in Pairs, c[1] \notin rejected', Holds(c)'
      PROVE  IsCurrent(consumers[c].job, WorkerOf[c[1]])'
  <2>1. /\ Holds(c) /\ c[1] \notin rejected /\ consumers'[c].job = consumers[c].job
        /\ consumers[c].job \in Claimed /\ c[1] \in Runs
    BY <1>3, <1>4
  <2>2. IsCurrent(consumers[c].job, WorkerOf[c[1]])
    BY <2>1 DEF IInv, AttemptsInv
  <2>3. QED BY <1>1, <2>1, <2>2 DEF LeaseKept, IsCurrent, Claimed
<1>5. ASSUME NEW r \in Runs, r \notin rejected', NEW j \in queue'[r], Live(r)' # {}
      PROVE  IsCurrent(j, WorkerOf[r])'
  <2>1. j \in Claimed /\ r \notin rejected /\ j \in queue[r] /\ Live(r) # {}
    BY <1>5 DEF IInv, OutboxTypeOK
  <2>2. IsCurrent(j, WorkerOf[r])
    BY <2>1 DEF IInv, AttemptsInv
  <2>3. QED BY <1>2, <2>1, <2>2
<1>6. QED BY <1>4, <1>5 DEF AttemptsInv

(* The two together, for the step of one consumer. *)
LEMMA ConsumerMoves ==
    ASSUME OutboxConstants, IInv, LeaseKept, NEW c \in Pairs, NEW x \in Consumer,
           consumers' = [consumers EXCEPT ![c] = x], UNCHANGED queue,
           x.job = None \/ x.job = consumers[c].job,
           x.job # None <=> x.pc \in Busy,
           consumers[c].pc # "done", rejected \subseteq rejected'
    PROVE  consumers' \in [Pairs -> Consumer] /\ HandInv' /\ BatchInv' /\ AttemptsInv'
<1>1. /\ consumers \in [Pairs -> Consumer] /\ consumers'[c] = x
      /\ \A d \in Pairs \ {c} : consumers'[d] = consumers[d]
  BY DEF IInv, OutboxTypeOK, Pairs
<1>2. \A d \in Pairs : Holds(d)' => Holds(d) /\ consumers'[d].job = consumers[d].job
  BY <1>1 DEF Holds
<1>3. ASSUME NEW r \in Runs, NEW k \in Live(r)'
      PROVE  k \in Live(r)
  <2>1. k \in Consumers /\ consumers'[<<r, k>>].pc # "done" /\ <<r, k>> \in Pairs
    BY <1>3 DEF Live, Pairs
  <2>2. consumers[<<r, k>>].pc # "done"
    BY <1>1, <2>1
  <2>3. QED BY <2>1, <2>2 DEF Live
<1>4. AttemptsInv'
  BY <1>2, <1>3, AttemptsKept
<1>5. QED BY <1>4, HandsKept, Zenon

-----------------------------------------------------------------------------
(* One lemma per action.  SafeStep is what every one of them establishes.  *)
SafeStep == IInv' /\ OutcomeKept

LEMMA SameRows ==
    ASSUME OutboxConstants, IInv, UNCHANGED <<rows, quarantines>>
    PROVE  RowInv' /\ QuarantineIsAccounted' /\ LeaseKept /\ OutcomeKept
<1>1. RowInv' /\ QuarantineIsAccounted'
  BY DEF IInv, RowInv, QuarantineIsAccounted, Settled
<1>2. QED BY <1>1 DEF LeaseKept, OutcomeKept

(* The values Stamp, NextEvent and IdleConsumer give a consumer. *)
LEMMA StampedConsumer ==
    ASSUME IInv, NEW c \in Pairs, NEW pc \in {"complete", "fail"}, Holds(c), Stamp(c, pc)
    PROVE  \E x \in Consumer : /\ consumers' = [consumers EXCEPT ![c] = x]
                               /\ x.job = consumers[c].job /\ x.pc \in Busy
<1> DEFINE late == rows[consumers[c].job.event].lease # "expired"
           x == [consumers[c] EXCEPT !.pc = pc, !.inTime = late]
<1>1. consumers[c] \in Consumer /\ consumers \in [Pairs -> Consumer]
  BY DEF IInv, OutboxTypeOK, Pairs
<1>2. late \in BOOLEAN
  OBVIOUS
<1>3. consumers' = [consumers EXCEPT ![c] = x]
  BY <1>1, Zenon DEF Stamp
<1> HIDE DEF late
<1>4. x \in Consumer /\ x.job = consumers[c].job /\ x.pc \in Busy
  BY <1>1, <1>2, Zenon DEF Consumer, Busy
<1>5. QED BY <1>3, <1>4, Zenon

LEMMA FreeConsumer ==
    /\ Ready \in Consumer /\ Ready.job = None /\ Ready.pc = "ready"
    /\ IdleConsumer \in Consumer /\ IdleConsumer.job = None /\ IdleConsumer.pc = "done"
  BY Zenon DEF Ready, IdleConsumer, Consumer

LEMMA FaultType ==
    ASSUME OutboxConstants, IInv, QueryFault \/ NoQueryFault
    PROVE  strikes' \in 0..MaxStrikes
  BY DEF OutboxConstants, IInv, OutboxTypeOK, QueryFault, NoQueryFault

LEMMA HandlerReturnsStep ==
    ASSUME OutboxConstants, IInv, NEW c \in Pairs, HandlerReturns(c)
    PROVE  SafeStep
<1> DEFINE e == consumers[c].job.event
<1>1. Holds(c) /\ consumers[c].pc = "handle"
  BY DEF HandlerReturns, IInv, HandInv
<1>2. /\ Stamp(c, "complete")
      /\ UNCHANGED <<rows, quarantines, queue, rejected, situation, overruns>>
      /\ QueryFault \/ NoQueryFault
  BY DEF HandlerReturns
<1>3. PICK x \in Consumer : /\ consumers' = [consumers EXCEPT ![c] = x]
                            /\ x.job = consumers[c].job /\ x.pc \in Busy
  BY <1>1, <1>2, StampedConsumer
<1>4. RowInv' /\ QuarantineIsAccounted' /\ LeaseKept /\ OutcomeKept
  BY <1>2, SameRows
<1>5. consumers' \in [Pairs -> Consumer] /\ HandInv' /\ BatchInv' /\ AttemptsInv'
  BY <1>1, <1>2, <1>3, <1>4, ConsumerMoves, Zenon DEF Holds
<1>6. incidents' \subseteq Events \X IncidentCodes
  <2>1. e \in Events
    BY <1>1 DEF IInv, OutboxTypeOK, Pairs, Consumer, Claimed, Holds
  <2>2. \A s, b : IncidentsOf(s, b) \subseteq IncidentCodes
    BY DEF IncidentsOf, IncidentCodes
  <2>3. PICK b \in BOOLEAN :
          incidents' = incidents \cup {<<e, code>> : code \in IncidentsOf(situation[e], b)}
    BY DEF HandlerReturns
  <2>4. QED BY <2>1, <2>2, <2>3 DEF IInv, OutboxTypeOK
<1>7. OutboxTypeOK'
  BY <1>2, <1>5, <1>6, FaultType DEF IInv, OutboxTypeOK, Pairs
<1>8. QED BY <1>4, <1>5, <1>7 DEF SafeStep, IInv

LEMMA HandlerThrowsStep ==
    ASSUME OutboxConstants, IInv, NEW c \in Pairs, HandlerThrows(c)
    PROVE  SafeStep
<1>1. Holds(c) /\ consumers[c].pc = "handle"
  BY DEF HandlerThrows, IInv, HandInv
<1>2. /\ Stamp(c, "fail")
      /\ UNCHANGED <<rows, quarantines, incidents, queue, rejected, situation, overruns>>
      /\ QueryFault \/ NoQueryFault
  BY DEF HandlerThrows, outboxTables
<1>3. PICK x \in Consumer : /\ consumers' = [consumers EXCEPT ![c] = x]
                            /\ x.job = consumers[c].job /\ x.pc \in Busy
  BY <1>1, <1>2, StampedConsumer
<1>4. RowInv' /\ QuarantineIsAccounted' /\ LeaseKept /\ OutcomeKept
  BY <1>2, SameRows
<1>5. consumers' \in [Pairs -> Consumer] /\ HandInv' /\ BatchInv' /\ AttemptsInv'
  BY <1>1, <1>2, <1>3, <1>4, ConsumerMoves, Zenon DEF Holds
<1>6. OutboxTypeOK'
  BY <1>2, <1>5, FaultType DEF IInv, OutboxTypeOK, Pairs
<1>7. QED BY <1>4, <1>5, <1>6 DEF SafeStep, IInv

LEMMA CompleteStep ==
    ASSUME OutboxConstants, IInv, NEW c \in Pairs, CompleteEvent(c)
    PROVE  SafeStep
<1> DEFINE e == consumers[c].job.event
<1>1. Holds(c) /\ consumers[c].pc = "complete"
  BY DEF CompleteEvent, IInv, HandInv
<1>2. /\ UNCHANGED <<quarantines, incidents, queue, rejected, situation, overruns>>
      /\ QueryFault \/ NoQueryFault
      /\ NextEvent(c) \/ Stamp(c, "fail")
      /\ (OwnsLease(c) /\ SetProcessed(e)) \/ UNCHANGED rows
  BY DEF CompleteEvent
<1>3. PICK x \in Consumer : /\ consumers' = [consumers EXCEPT ![c] = x]
                            /\ x.job = None \/ x.job = consumers[c].job
                            /\ x.job # None <=> x.pc \in Busy
  <2>1. CASE NextEvent(c)
    BY <2>1, FreeConsumer, Zenon DEF NextEvent, Busy
  <2>2. CASE Stamp(c, "fail")
    BY <1>1, <2>2, StampedConsumer DEF Holds
  <2>3. QED BY <1>2, <2>1, <2>2
<1>4. /\ rows' \in [Events -> Row] /\ RowInv' /\ LeaseKept /\ OutcomeKept
      /\ QuarantineIsAccounted'
  BY <1>1, <1>2, ProcessedRow, SameRows DEF IInv, OutboxTypeOK
<1>5. consumers' \in [Pairs -> Consumer] /\ HandInv' /\ BatchInv' /\ AttemptsInv'
  BY <1>1, <1>2, <1>3, <1>4, ConsumerMoves, Zenon
<1>6. OutboxTypeOK'
  BY <1>2, <1>4, <1>5, FaultType DEF IInv, OutboxTypeOK, Pairs
<1>7. QED BY <1>4, <1>5, <1>6 DEF SafeStep, IInv

LEMMA FailAttemptStep ==
    ASSUME OutboxConstants, IInv, NEW c \in Pairs, FailAttempt(c)
    PROVE  SafeStep
<1>1. Holds(c) /\ consumers[c].pc = "fail" /\ c[1] \in Runs
  BY DEF FailAttempt, IInv, HandInv, Pairs
<1>2. /\ UNCHANGED <<incidents, queue, situation, overruns>>
      /\ QueryFault \/ NoQueryFault
      /\ (NextEvent(c) /\ UNCHANGED rejected) \/ Reject(c)
      /\ (OwnsLease(c) /\ GiveBack(consumers[c].job)) \/ UNCHANGED <<rows, quarantines>>
  BY DEF FailAttempt
<1>3. rejected \subseteq rejected' /\ rejected' \subseteq Runs
  BY <1>1, <1>2 DEF Reject, IInv, OutboxTypeOK
<1>4. PICK x \in Consumer : /\ consumers' = [consumers EXCEPT ![c] = x]
                            /\ x.job = None /\ x.pc \notin Busy
  BY <1>2, FreeConsumer DEF NextEvent, Reject, Busy
<1>5. /\ rows' \in [Events -> Row] /\ quarantines' \in [Events -> Nat] /\ RowInv'
      /\ LeaseKept /\ OutcomeKept /\ QuarantineIsAccounted'
  BY <1>1, <1>2, GivenBackRow, SameRows DEF IInv, OutboxTypeOK
<1>6. consumers' \in [Pairs -> Consumer] /\ HandInv' /\ BatchInv' /\ AttemptsInv'
  BY <1>1, <1>2, <1>3, <1>4, <1>5, ConsumerMoves, Zenon
<1>7. OutboxTypeOK'
  BY <1>2, <1>3, <1>5, <1>6, FaultType DEF IInv, OutboxTypeOK, Pairs
<1>8. QED BY <1>5, <1>6, <1>7 DEF SafeStep, IInv

(* The event a consumer takes leaves the queue as it comes into its hand. *)
LEMMA TakeStep ==
    ASSUME OutboxConstants, IInv, NEW c \in Pairs, Take(c)
    PROVE  SafeStep
<1>1. /\ consumers[c].pc = "ready" /\ ~Holds(c) /\ c[1] \in Runs
      /\ UNCHANGED <<rows, quarantines, incidents, rejected, situation, overruns, strikes>>
  BY DEF Take, IInv, HandInv, Pairs, outboxTables, bounds
<1>2. RowInv' /\ QuarantineIsAccounted' /\ LeaseKept /\ OutcomeKept
  BY <1>1, SameRows
<1>3. CASE queue[c[1]] = {} /\ consumers' = [consumers EXCEPT ![c] = IdleConsumer] /\ UNCHANGED queue
  <2>1. consumers' \in [Pairs -> Consumer] /\ HandInv' /\ BatchInv' /\ AttemptsInv'
    BY <1>1, <1>2, <1>3, FreeConsumer, ConsumerMoves, ZenonT(30) DEF Busy
  <2>2. OutboxTypeOK'
    BY <1>1, <1>3, <2>1 DEF IInv, OutboxTypeOK, Pairs
  <2>3. QED BY <1>2, <2>1, <2>2 DEF SafeStep, IInv
<1>4. ASSUME NEW job \in queue[c[1]],
             queue' = [queue EXCEPT ![c[1]] = @ \ {job}],
             consumers' = [consumers EXCEPT
                 ![c] = [pc |-> "handle", job |-> job, inTime |-> FALSE]]
      PROVE  SafeStep
  <2>1. /\ queue \in [Runs -> SUBSET Claimed] /\ consumers \in [Pairs -> Consumer]
        /\ job \in Claimed /\ queue' \in [Runs -> SUBSET Claimed]
        /\ queue'[c[1]] = queue[c[1]] \ {job}
        /\ \A r \in Runs : queue'[r] \subseteq queue[r]
    BY <1>1, <1>4 DEF IInv, OutboxTypeOK, Pairs
  <2>2. /\ consumers'[c].pc = "handle" /\ consumers'[c].job = job /\ job # None
        /\ \A d \in Pairs \ {c} : consumers'[d] = consumers[d]
        /\ consumers' \in [Pairs -> Consumer]
    BY <1>4, <2>1 DEF Consumer, OutboxConstants
  <2>3. /\ Holds(c)'
        /\ \A d \in Pairs \ {c} : /\ Holds(d)' <=> Holds(d)
                                  /\ consumers'[d].job = consumers[d].job
                                  /\ consumers'[d].pc = consumers[d].pc
    BY <2>2 DEF Holds
  <2>4. HandInv'
    <3>1. job.attempts < MaxAttempts
      BY <1>1, <1>4 DEF IInv, HandInv
    <3>2. QED BY <2>1, <2>2, <2>3, <3>1 DEF IInv, HandInv
  <2>5. BatchInv'
    <3>1. \A r \in Runs : \A i, j \in queue'[r] : i.event = j.event => i = j
      BY <2>1 DEF IInv, BatchInv
    <3>2. \A d \in Pairs : d[1] \in Runs
      BY DEF Pairs
    <3>3. ASSUME NEW d \in Pairs, NEW j \in queue'[d[1]], Holds(d)'
          PROVE  j.event # consumers'[d].job.event
      <4>1. CASE d = c
        BY <1>1, <1>4, <2>1, <2>2, <3>3, <4>1 DEF IInv, BatchInv
      <4>2. CASE d # c
        BY <2>1, <2>3, <3>2, <3>3, <4>2 DEF IInv, BatchInv
      <4>3. QED BY <4>1, <4>2, Zenon
    <3>4. ASSUME NEW d \in Pairs \ {c}, d[1] = c[1], Holds(d)'
          PROVE  consumers'[d].job.event # job.event
      BY <1>4, <2>3, <3>4 DEF IInv, BatchInv
    <3>5. ASSUME NEW b \in Pairs, NEW d \in Pairs, b[1] = d[1], Holds(b)', Holds(d)',
                 consumers'[b].job.event = consumers'[d].job.event
          PROVE  b = d
      <4>1. CASE b # c /\ d # c
        BY <2>3, <3>5, <4>1 DEF IInv, BatchInv
      <4>2. CASE b = c \/ d = c
        BY <2>2, <3>4, <3>5, <4>2
      <4>3. QED BY <4>1, <4>2
    <3>6. QED BY <3>1, <3>3, <3>5 DEF BatchInv
  <2>6. AttemptsInv'
    <3>1. /\ \A r \in Runs : Live(r)' = Live(r)
          /\ Live(c[1]) # {}
      <4>1. \A d \in Pairs : consumers'[d].pc # "done" <=> consumers[d].pc # "done"
        BY <1>1, <2>2
      <4>2. \A r \in Runs : Live(r)' = Live(r)
        BY <4>1 DEF Live, Pairs
      <4>3. c = <<c[1], c[2]>> /\ c[2] \in Consumers
        BY DEF Pairs
      <4>4. c[2] \in Live(c[1])
        BY <1>1, <4>3 DEF Live
      <4>5. QED BY <4>2, <4>4
    <3>2. \A j, w : IsCurrent(j, w)' <=> IsCurrent(j, w)
      BY <1>1, Zenon DEF IsCurrent
    <3>3. c[1] \notin rejected => IsCurrent(job, WorkerOf[c[1]])
      BY <1>1, <1>4, <3>1, SMTT(30) DEF IInv, AttemptsInv
    <3>4. \A d \in Pairs : (d[1] \notin rejected' /\ Holds(d)')
                              => IsCurrent(consumers[d].job, WorkerOf[d[1]])'
      BY <1>1, <2>2, <2>3, <3>2, <3>3, SMTT(30) DEF IInv, AttemptsInv, IsCurrent
    <3>5. \A r \in Runs \ rejected' : \A j \in queue'[r] :
            Live(r)' # {} => IsCurrent(j, WorkerOf[r])'
      BY <1>1, <2>1, <3>1, <3>2 DEF IInv, AttemptsInv
    <3>6. QED BY <3>4, <3>5 DEF AttemptsInv
  <2>7. OutboxTypeOK'
    BY <1>1, <2>1, <2>2 DEF IInv, OutboxTypeOK, Pairs
  <2>8. QED BY <1>2, <2>4, <2>5, <2>6, <2>7 DEF SafeStep, IInv
<1>5. QED BY <1>3, <1>4 DEF Take

(* The clock changes one column of one open row. *)
LEMMA ClockStep ==
    ASSUME OutboxConstants, IInv, NEW e \in Events, NEW y \in Row,
           rows' = [rows EXCEPT ![e] = y], ~Settled(e),
           y.lockedBy = rows[e].lockedBy, y.attempts = rows[e].attempts,
           y.processed = rows[e].processed, y.quarantined = rows[e].quarantined,
           y.lockedBy = None <=> y.lease = "none", y.lockedBy # None => y.due,
           UNCHANGED <<situation, incidents, quarantines, runVars, strikes>>,
           overruns' \in 0..MaxOverruns
    PROVE  SafeStep
<1>1. /\ rows' \in [Events -> Row] /\ rows'[e] = y
      /\ \A d \in Events \ {e} : rows'[d] = rows[d]
  BY DEF IInv, OutboxTypeOK
<1>2. \A d \in Events : /\ rows'[d].lockedBy = rows[d].lockedBy
                        /\ rows'[d].attempts = rows[d].attempts
                        /\ rows'[d].quarantined = rows[d].quarantined
                        /\ Settled(d)' <=> Settled(d)
  <2>1. Settled(e)' <=> Settled(e)
    BY <1>1 DEF Settled
  <2>2. \A d \in Events \ {e} : Settled(d)' <=> Settled(d)
    BY <1>1 DEF Settled
  <2>3. QED BY <1>1, <2>1, <2>2
<1>3. RowInv'
  <2>1. ASSUME NEW d \in Events
        PROVE  /\ rows'[d].lockedBy = None <=> rows'[d].lease = "none"
               /\ rows'[d].lockedBy # None => ~Settled(d)'
               /\ rows'[d].lockedBy # None \/ Settled(d)' => rows'[d].due
    <3>1. CASE d = e
      BY <1>1, <1>2, <3>1 DEF IInv, RowInv
    <3>2. CASE d # e
      BY <1>1, <1>2, <3>2, SMTT(30) DEF IInv, RowInv
    <3>3. QED BY <3>1, <3>2
  <2>2. QED BY <2>1 DEF RowInv
<1>4. QuarantineIsAccounted' /\ LeaseKept
  BY <1>2 DEF IInv, QuarantineIsAccounted, LeaseKept
<1>5. OutcomeKept
  BY <1>1 DEF OutcomeKept
<1>6. UNCHANGED <<queue, consumers, rejected>>
  BY Zenon DEF runVars
<1>7. HandInv' /\ BatchInv'
  BY <1>6 DEF IInv, HandInv, BatchInv, Holds
<1>8. AttemptsInv'
  BY <1>4, <1>6, AttemptsKept DEF Holds, Live
<1>9. OutboxTypeOK'
  BY <1>1, <1>6 DEF IInv, OutboxTypeOK
<1>10. QED BY <1>3, <1>4, <1>5, <1>7, <1>8, <1>9 DEF SafeStep, IInv

LEMMA LeaseExpiresStep ==
    ASSUME OutboxConstants, IInv, NEW e \in Events, LeaseExpires(e)
    PROVE  SafeStep
<1> DEFINE y == [rows[e] EXCEPT !.lease = "expired"]
<1>1. /\ rows \in [Events -> Row] /\ rows[e] \in Row /\ rows[e].lease = "held"
      /\ rows' = [rows EXCEPT ![e] = y]
  BY DEF LeaseExpires, IInv, OutboxTypeOK
<1>2. rows[e].lockedBy # None /\ ~Settled(e) /\ rows[e].due
  BY <1>1 DEF IInv, RowInv
<1>3. /\ y \in Row /\ y.lockedBy = rows[e].lockedBy /\ y.attempts = rows[e].attempts
      /\ y.processed = rows[e].processed /\ y.quarantined = rows[e].quarantined
      /\ y.lease = "expired" /\ y.due = rows[e].due
  BY <1>1 DEF Row
<1> HIDE DEF y
<1>4. y.due
  BY <1>2, <1>3
<1>5. overruns' \in 0..MaxOverruns
  BY DEF LeaseExpires, OutboxConstants, IInv, OutboxTypeOK
<1>6. UNCHANGED <<situation, incidents, quarantines, runVars, strikes>>
  BY DEF LeaseExpires
<1>7. y.lockedBy = None <=> y.lease = "none"
  BY <1>2, <1>3
<1>8. QED BY <1>1, <1>2, <1>3, <1>4, <1>5, <1>6, <1>7, ClockStep, Zenon

LEMMA DelayPassesStep ==
    ASSUME OutboxConstants, IInv, NEW e \in Events, DelayPasses(e)
    PROVE  SafeStep
<1> DEFINE y == [rows[e] EXCEPT !.due = TRUE]
<1>1. /\ rows \in [Events -> Row] /\ rows[e] \in Row /\ ~rows[e].due
      /\ rows' = [rows EXCEPT ![e] = y]
  BY DEF DelayPasses, IInv, OutboxTypeOK
<1>2. rows[e].lockedBy = None /\ ~Settled(e) /\ rows[e].lease = "none"
  BY <1>1 DEF IInv, RowInv
<1>3. /\ y \in Row /\ y.lockedBy = rows[e].lockedBy /\ y.attempts = rows[e].attempts
      /\ y.processed = rows[e].processed /\ y.quarantined = rows[e].quarantined
      /\ y.lease = rows[e].lease
  BY <1>1, Zenon DEF Row
<1> HIDE DEF y
<1>4. overruns' \in 0..MaxOverruns
  BY DEF DelayPasses, OutboxConstants, IInv, OutboxTypeOK, bounds
<1>5. UNCHANGED <<situation, incidents, quarantines, runVars, strikes>>
  BY DEF DelayPasses, bounds
<1>6. (y.lockedBy = None <=> y.lease = "none") /\ (y.lockedBy # None => y.due)
  BY <1>2, <1>3
<1>7. QED BY <1>1, <1>2, <1>3, <1>4, <1>5, <1>6, ClockStep, Zenon

(* A crash only takes jobs away, and a rejection of the worker that died. *)
LEMMA CrashStep ==
    ASSUME OutboxConstants, IInv, NEW w \in Workers, WorkerCrash(w)
    PROVE  SafeStep
<1>1. /\ UNCHANGED <<rows, quarantines, incidents, situation, overruns>> /\ QueryFault
      /\ queue \in [Runs -> SUBSET Claimed] /\ consumers \in [Pairs -> Consumer]
      /\ rejected' = {r \in rejected : WorkerOf[r] # w}
  BY DEF WorkerCrash, IInv, OutboxTypeOK, Pairs, outboxTables
<1>2. RowInv' /\ QuarantineIsAccounted' /\ LeaseKept /\ OutcomeKept
  BY <1>1, SameRows
<1>3. /\ queue' \in [Runs -> SUBSET Claimed]
      /\ \A r \in Runs : WorkerOf[r] = w => queue'[r] = {}
      /\ \A r \in Runs : WorkerOf[r] # w => queue'[r] = queue[r]
  BY <1>1 DEF WorkerCrash
<1>4. /\ consumers' \in [Pairs -> Consumer]
      /\ \A c \in Pairs : WorkerOf[c[1]] = w => consumers'[c] = IdleConsumer
      /\ \A c \in Pairs : WorkerOf[c[1]] # w => consumers'[c] = consumers[c]
  BY <1>1, FreeConsumer DEF WorkerCrash, Pairs
<1>5. \A c \in Pairs : Holds(c)' => /\ Holds(c) /\ consumers'[c] = consumers[c]
                                    /\ WorkerOf[c[1]] # w
  BY <1>4, FreeConsumer DEF Holds
<1>6. \A c \in Pairs : c[1] \in Runs
  BY Zenon DEF Pairs
<1>7. HandInv'
  <2>1. \A c \in Pairs : Holds(c)' <=> consumers'[c].pc \in {"handle", "complete", "fail"}
    BY <1>4, FreeConsumer, Zenon DEF IInv, HandInv, Holds
  <2>2. QED BY <1>3, <1>5, <2>1, Zenon DEF IInv, HandInv
<1>8. BatchInv'
  BY <1>3, <1>5, <1>6, SMTT(30) DEF IInv, BatchInv
<1>9. AttemptsInv'
  <2>1. \A j, v : IsCurrent(j, v)' <=> IsCurrent(j, v)
    BY <1>1, SMTT(30) DEF IsCurrent
  <2>2. \A c \in Pairs : (c[1] \notin rejected' /\ Holds(c)')
                            => IsCurrent(consumers'[c].job, WorkerOf[c[1]])
    BY <1>1, <1>5, Zenon DEF IInv, AttemptsInv
  <2>3. \A c \in Pairs : (c[1] \notin rejected' /\ Holds(c)')
                            => IsCurrent(consumers[c].job, WorkerOf[c[1]])'
    BY <1>1, <2>2 DEF IsCurrent
  <2>4. ASSUME NEW r \in Runs, r \notin rejected', NEW j \in queue'[r], Live(r)' # {}
        PROVE  IsCurrent(j, WorkerOf[r])'
    <3>1. WorkerOf[r] # w /\ j \in queue[r] /\ r \notin rejected
      BY <1>1, <1>3, <2>4
    <3>2. \A k \in Consumers : consumers'[<<r, k>>] = consumers[<<r, k>>]
      BY <1>4, <3>1 DEF Pairs
    <3>3. Live(r) # {}
      BY <2>4, <3>2, Zenon DEF Live
    <3>4. QED BY <2>1, <3>1, <3>3 DEF IInv, AttemptsInv
  <2>5. QED BY <2>3, <2>4 DEF AttemptsInv
<1>10. OutboxTypeOK'
  BY <1>1, <1>3, <1>4, FaultType DEF IInv, OutboxTypeOK, Pairs
<1>11. QED BY <1>2, <1>7, <1>8, <1>9, <1>10 DEF SafeStep, IInv

(* claim locks open rows and gives a run without consumers their attempts. *)
(* The runs of the same worker that are still alive have rejected.         *)
LEMMA ClaimStep ==
    ASSUME OutboxConstants, IInv, NEW r \in Runs, Claim(r)
    PROVE  SafeStep
<1> DEFINE w == WorkerOf[r]
           jobOf(e) == [event |-> e, attempts |-> rows[e].attempts]
<1>1. PICK batch \in SUBSET Candidates :
        /\ Lock(batch, w)
        /\ queue' = [queue EXCEPT ![r] = {jobOf(e) : e \in batch}]
        /\ StartConsumers(r, Cardinality(batch))
  BY ZenonT(30) DEF Claim
<1>2. /\ LoopIsFree(r) /\ rejected' = rejected \ {r}
      /\ UNCHANGED <<situation, incidents, quarantines, overruns, strikes>>
  BY DEF Claim, bounds
<1>3. /\ rows \in [Events -> Row] /\ queue \in [Runs -> SUBSET Claimed]
      /\ consumers \in [Pairs -> Consumer] /\ w \in Workers /\ w # None
      /\ batch \subseteq Events
  <2>1. /\ rows \in [Events -> Row] /\ queue \in [Runs -> SUBSET Claimed]
        /\ consumers \in [Pairs -> Consumer]
    BY DEF IInv, OutboxTypeOK, Pairs
  <2>2. w \in Workers /\ w # None
    BY DEF OutboxConstants
  <2>3. QED BY <2>1, <2>2 DEF Candidates
<1>4. \A e \in batch : ~Settled(e) /\ rows[e].due
  BY DEF Candidates, Settled
<1>5. /\ rows' \in [Events -> Row]
      /\ \A e \in Events \ batch : rows'[e] = rows[e]
      /\ \A e \in batch : /\ rows'[e].lockedBy = w /\ rows'[e].lease = "held"
                          /\ rows'[e].attempts = rows[e].attempts
                          /\ rows'[e].processed = rows[e].processed
                          /\ rows'[e].quarantined = rows[e].quarantined
                          /\ rows'[e].due = rows[e].due
  <2> DEFINE locked(e) == [rows[e] EXCEPT !.lockedBy = w, !.lease = "held"]
  <2>1. \A e \in batch : /\ locked(e) \in Row
                          /\ locked(e).lockedBy = w /\ locked(e).lease = "held"
                          /\ locked(e).attempts = rows[e].attempts
                          /\ locked(e).processed = rows[e].processed
                          /\ locked(e).quarantined = rows[e].quarantined
                          /\ locked(e).due = rows[e].due
    BY <1>3, ZenonT(30) DEF Row
  <2>2. rows' = [e \in Events |-> IF e \in batch THEN locked(e) ELSE rows[e]]
    BY <1>1, Zenon DEF Lock
  <2> HIDE DEF locked
  <2>3. /\ \A e \in Events \ batch : rows'[e] = rows[e]
        /\ \A e \in batch : rows'[e] = locked(e)
        /\ rows' \in [Events -> Row]
    BY <1>3, <2>1, <2>2
  <2>4. QED BY <2>1, <2>3
<1>6. \A e \in Events : Settled(e)' <=> Settled(e)
  BY <1>3, <1>5 DEF Settled
<1>7. RowInv'
  <2>1. ASSUME NEW e \in Events
        PROVE  /\ rows'[e].lockedBy = None <=> rows'[e].lease = "none"
               /\ rows'[e].lockedBy # None => ~Settled(e)'
               /\ rows'[e].lockedBy # None \/ Settled(e)' => rows'[e].due
    <3>1. CASE e \in batch
      BY <1>3, <1>4, <1>5, <1>6, <3>1, Zenon
    <3>2. CASE e \notin batch
      BY <1>5, <1>6, <3>2, SMTT(30) DEF IInv, RowInv
    <3>3. QED BY <3>1, <3>2, Zenon
  <2>2. QED BY <2>1 DEF RowInv
<1>8. QuarantineIsAccounted'
  BY <1>2, <1>3, <1>5 DEF IInv, QuarantineIsAccounted
<1>9. OutcomeKept
  BY <1>4, <1>5, SMTT(30) DEF OutcomeKept
<1>10. /\ queue' \in [Runs -> SUBSET Claimed]
       /\ queue'[r] = {jobOf(e) : e \in batch}
       /\ \A s \in Runs \ {r} : queue'[s] = queue[s]
       /\ \A e \in batch : jobOf(e).event = e /\ jobOf(e).attempts = rows[e].attempts
  BY <1>1, <1>3 DEF Claimed, Row
<1>11. \A c \in Pairs : c[1] = r => consumers[c].pc = "done" /\ ~Holds(c)
  <2>1. ASSUME NEW c \in Pairs, c[1] = r
        PROVE  consumers[c].pc = "done"
    <3>1. c = <<r, c[2]>> /\ c[2] \in Consumers
      BY <2>1, SMTT(30) DEF Pairs
    <3>2. QED BY <1>2, <3>1 DEF LoopIsFree, Live
  <2>2. QED BY <2>1 DEF IInv, HandInv
<1>12. /\ consumers' \in [Pairs -> Consumer]
       /\ \A c \in Pairs : c[1] # r => consumers'[c] = consumers[c]
       /\ \A c \in Pairs : c[1] = r => consumers'[c] = Ready \/ consumers'[c] = consumers[c]
  BY <1>1, <1>3, FreeConsumer DEF StartConsumers, Pairs
<1>13. \A c \in Pairs : Holds(c)' => /\ c[1] # r /\ Holds(c) /\ consumers'[c] = consumers[c]
  BY <1>11, <1>12, FreeConsumer DEF Holds
<1>14. \A c \in Pairs : c[1] \in Runs
  BY SMTT(30) DEF Pairs
<1>15. HandInv'
  <2>1. \A c \in Pairs : Holds(c)' <=> consumers'[c].pc \in {"handle", "complete", "fail"}
    BY <1>11, <1>12, FreeConsumer DEF IInv, HandInv, Holds
  <2>2. ASSUME NEW e \in batch
        PROVE  rows[e].attempts < MaxAttempts
    <3>1. rows[e].attempts \in 0..MaxAttempts /\ MaxAttempts \in Nat
      BY <1>3, <2>2 DEF Row, OutboxConstants
    <3>2. rows[e].attempts # MaxAttempts
      BY <1>3, <1>4, <2>2 DEF IInv, QuarantineIsAccounted, Settled
    <3>3. QED BY <3>1, <3>2
  <2>3. \A j \in queue'[r] : j.attempts < MaxAttempts
    BY <1>10, <2>2, SMTT(30)
  <2>4. QED BY <1>10, <1>13, <2>1, <2>3, SMTT(30) DEF IInv, HandInv
<1>16. BatchInv'
  <2>1. \A i, j \in queue'[r] : i.event = j.event => i = j
    BY <1>10, SMTT(30)
  <2>2. QED BY <1>10, <1>13, <1>14, <2>1, SMTT(30) DEF IInv, BatchInv
<1>17. AttemptsInv'
  <2>1. ASSUME NEW j \in Claimed, NEW s \in Runs, WorkerOf[s] # w,
               IsCurrent(j, WorkerOf[s])
        PROVE  IsCurrent(j, WorkerOf[s])'
    <3>1. j.event \in Events
      BY DEF Claimed
    <3>2. QED BY <1>5, <2>1, <3>1 DEF IsCurrent
  <2>2. ASSUME NEW s \in Runs, s # r, s \notin rejected, Live(s) # {}
        PROVE  WorkerOf[s] # w
    BY <1>2, <2>2, SMTT(30) DEF LoopIsFree
  <2>3. ASSUME NEW c \in Pairs, c[1] \notin rejected', Holds(c)'
        PROVE  IsCurrent(consumers[c].job, WorkerOf[c[1]])'
    <3>1. /\ c[1] # r /\ Holds(c) /\ consumers'[c] = consumers[c] /\ c[1] \in Runs
          /\ c[1] \notin rejected /\ consumers[c].job \in Claimed
      BY <1>2, <1>3, <1>13, <1>14, <2>3 DEF Holds, Consumer
    <3>2. c[2] \in Live(c[1])
      <4>1. c = <<c[1], c[2]>> /\ c[2] \in Consumers
        BY DEF Pairs
      <4>2. consumers[c].pc # "done"
        BY <3>1, SMTT(30) DEF IInv, HandInv
      <4>3. QED BY <4>1, <4>2 DEF Live
    <3>3. IsCurrent(consumers[c].job, WorkerOf[c[1]])
      BY <3>1 DEF IInv, AttemptsInv
    <3>4. WorkerOf[c[1]] # w
      BY <2>2, <3>1, <3>2
    <3>5. consumers[c].job.event \in Events
      BY <3>1 DEF Claimed
    <3>6. QED BY <1>5, <3>1, <3>3, <3>4, <3>5, SMTT(30) DEF IsCurrent
  <2>4. ASSUME NEW s \in Runs, s \notin rejected', NEW j \in queue'[s], Live(s)' # {}
        PROVE  IsCurrent(j, WorkerOf[s])'
    <3>1. CASE s = r
      BY <1>5, <1>10, <2>4, <3>1, SMTT(30) DEF IsCurrent
    <3>2. CASE s # r
      <4>1. j \in queue[s] /\ s \notin rejected /\ j \in Claimed
        BY <1>2, <1>3, <1>10, <2>4, <3>2
      <4>2. \A k \in Consumers : consumers'[<<s, k>>] = consumers[<<s, k>>]
        BY <1>12, <3>2 DEF Pairs
      <4>3. Live(s) # {}
        BY <2>4, <4>2, Zenon DEF Live
      <4>4. QED BY <2>1, <2>2, <3>2, <4>1, <4>3, SMTT(30) DEF IInv, AttemptsInv
    <3>3. QED BY <3>1, <3>2, Zenon
  <2>5. QED BY <2>3, <2>4 DEF AttemptsInv
<1>18. OutboxTypeOK'
  BY <1>2, <1>5, <1>10, <1>12 DEF IInv, OutboxTypeOK, Pairs
<1>19. QED BY <1>7, <1>8, <1>9, <1>15, <1>16, <1>17, <1>18 DEF SafeStep, IInv

-----------------------------------------------------------------------------
LEMMA InitHolds ==
    ASSUME OutboxConstants, OutboxInit
    PROVE  IInv
<1>1. NewRow \in Row
  BY DEF NewRow, Row, OutboxConstants
<1>2. OutboxTypeOK
  BY <1>1, FreeConsumer, SMTT(30) DEF OutboxInit, OutboxTypeOK, OutboxConstants
<1>3. RowInv /\ QuarantineIsAccounted
  BY DEF OutboxInit, RowInv, QuarantineIsAccounted, NewRow, Settled, OutboxConstants
<1>4. \A c \in Pairs : consumers[c] = IdleConsumer /\ ~Holds(c)
  BY FreeConsumer DEF OutboxInit, Pairs, Holds
<1>5. \A r \in Runs : queue[r] = {}
  BY DEF OutboxInit
<1>6. \A c \in Pairs : c[1] \in Runs
  BY SMTT(30) DEF Pairs
<1>7. HandInv /\ BatchInv /\ AttemptsInv
  BY <1>4, <1>5, <1>6, FreeConsumer DEF HandInv, BatchInv, AttemptsInv
<1>8. QED BY <1>2, <1>3, <1>7 DEF IInv

LEMMA NextKeeps ==
    ASSUME OutboxConstants, IInv, [OutboxNext]_outboxVars
    PROVE  IInv' /\ [OutcomeKept]_outboxVars
<1>1. ASSUME NEW c \in Runs \X Consumers, ConsumerStep(c)
      PROVE  SafeStep
  BY <1>1, TakeStep, HandlerReturnsStep, HandlerThrowsStep, CompleteStep, FailAttemptStep
     DEF ConsumerStep, Pairs
<1>2. CASE UNCHANGED outboxVars
  <2>1. UNCHANGED <<situation, rows, incidents, quarantines, queue, consumers, rejected,
                    overruns, strikes>>
    BY <1>2 DEF outboxVars, outboxTables, runVars, bounds
  <2>2. RowInv' /\ QuarantineIsAccounted' /\ LeaseKept
    BY <2>1, SameRows, SMTT(30)
  <2>3. HandInv' /\ BatchInv'
    BY <2>1, SMTT(30) DEF IInv, HandInv, BatchInv, Holds
  <2>4. AttemptsInv'
    BY <2>1, <2>2, AttemptsKept DEF Holds, Live
  <2>5. OutboxTypeOK'
    BY <2>1 DEF IInv, OutboxTypeOK
  <2>6. QED BY <1>2, <2>2, <2>3, <2>4, <2>5 DEF IInv
<1>3. CASE OutboxNext
  <2>1. SafeStep
    BY <1>1, <1>3, ClaimStep, LeaseExpiresStep, DelayPassesStep, CrashStep DEF OutboxNext
  <2>2. QED BY <2>1 DEF SafeStep
<1>4. QED BY <1>2, <1>3

(* The inductive invariant of the outbox: rows, batches and attempts. *)
THEOREM OutboxInvariance ==
    ASSUME OutboxConstants
    PROVE  OutboxSpec => []IInv
<1>1. OutboxInit => IInv
  BY InitHolds
<1>2. IInv /\ [OutboxNext]_outboxVars => IInv'
  BY NextKeeps
<1>3. QED BY <1>1, <1>2, PTL DEF OutboxSpec

(* A quarantined event used up its attempts and has one critical incident, *)
(* and no other event has either (retry and quarantine of the store, and   *)
(* the limit of runOnce).                                                  *)
THEOREM QuarantinesAreAccounted ==
    ASSUME OutboxConstants
    PROVE  OutboxSpec => []QuarantineIsAccounted
<1>1. OutboxSpec => []IInv
  BY OutboxInvariance
<1>2. IInv => QuarantineIsAccounted
  BY DEF IInv
<1>3. QED BY <1>1, <1>2, PTL

(* However late the query of a worker that lost its lease, it does not     *)
(* change an event that was processed or quarantined, although the guard   *)
(* of the queries does not test quarantined_at.                            *)
THEOREM OutcomesAreFinal ==
    ASSUME OutboxConstants
    PROVE  OutboxSpec => OutcomeIsFinal
<1>1. OutboxSpec => []IInv
  BY OutboxInvariance
<1>2. IInv /\ [OutboxNext]_outboxVars => [OutcomeKept]_outboxVars
  BY NextKeeps
<1>3. QED BY <1>1, <1>2, PTL DEF OutboxSpec, OutcomeIsFinal

(* The owner of a lease is alone, and writes an attempt count that is      *)
(* current, as long as no left-over consumer shares its worker's id.       *)
THEOREM LeaseHasOneOwner ==
    ASSUME OutboxConstants
    PROVE  OutboxSpec => []OneOwner
<1>1. ASSUME IInv, NEW e \in Events, NEW c \in Owners(e), OnlyRun(c[1])
      PROVE  Owners(e) = {c} /\ consumers[c].job.attempts = rows[e].attempts
  <2>1. /\ c \in Pairs /\ c[1] \in Runs /\ c[1] \notin rejected
        /\ consumers[c].job.event = e /\ rows[e].lockedBy = WorkerOf[c[1]]
        /\ consumers[c].pc \in {"complete", "fail"}
    BY <1>1 DEF Owners, OnlyRun, OwnsLease, Pairs
  <2>2. Holds(c)
    BY <1>1, <2>1, SMTT(30) DEF IInv, HandInv
  <2>3. consumers[c].job.attempts = rows[e].attempts
    BY <1>1, <2>1, <2>2, SMTT(30) DEF IInv, AttemptsInv, IsCurrent
  <2>4. ASSUME NEW d \in Owners(e)
        PROVE  d = c
    <3>1. /\ d \in Pairs /\ d[1] \in Runs /\ consumers[d].job.event = e
          /\ rows[e].lockedBy = WorkerOf[d[1]]
          /\ consumers[d].pc \in {"complete", "fail"}
      BY <2>4 DEF Owners, OwnsLease, Pairs
    <3>2. Holds(d)
      BY <1>1, <3>1 DEF IInv, HandInv
    <3>3. d[2] \in Live(d[1])
      <4>1. d = <<d[1], d[2]>> /\ d[2] \in Consumers
        BY <3>1 DEF Pairs
      <4>2. consumers[d].pc # "done"
        BY <3>1
      <4>3. QED BY <4>1, <4>2 DEF Live
    <3>4. d[1] = c[1]
      BY <1>1, <2>1, <3>1, <3>3 DEF OnlyRun
    <3>5. QED BY <1>1, <2>1, <2>2, <3>1, <3>2, <3>4, SMTT(30) DEF IInv, BatchInv
  <2>5. QED BY <2>3, <2>4, Zenon
<1>2. IInv => OneOwner
  BY <1>1 DEF OneOwner
<1>3. OutboxSpec => []IInv
  BY OutboxInvariance
<1>4. QED BY <1>2, <1>3, PTL

=============================================================================
