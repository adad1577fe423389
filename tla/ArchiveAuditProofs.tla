------------------------- MODULE ArchiveAuditProofs -------------------------
(***************************************************************************)
(* Proofs about AuditChain and, below the line, about ArchiveImport.       *)
(***************************************************************************)
EXTENDS AuditChain, ArchiveImport, TLAPS

(***************************************************************************)
(* The audit chain.  While a writer is between reading the newest event    *)
(* and its commit it alone holds the advisory lock, so that what it read   *)
(* is still the newest event; and as long as events are committed in the   *)
(* order of the verification, each is linked to the one committed before.  *)
(***************************************************************************)
LinksFollowCommits ==
    CommittedInOrder =>
        \A n \in DOMAIN log : log[n].previous = IF n = 1 THEN NoEvent ELSE log[n - 1].id

AuditInv ==
    /\ AuditTypeOK
    /\ \A v, w \in Writers :
         {writers[v].pc, writers[w].pc} \subseteq {"locked", "linked"} => v = w
    /\ \A w \in Writers :
         writers[w].pc = "linked" => writers[w].id \in Ids /\ LinkTo(writers[w].previous, log)
    /\ LinksFollowCommits

(* (occurred_at, id) orders events strictly. *)
LEMMA BeforeIsStrict ==
    ASSUME NEW e \in Event, NEW f \in Event, Before(e, f)
    PROVE  ~ Before(f, e)
<1>1. e.time \in Times /\ f.time \in Times /\ e.id \in Ids /\ f.id \in Ids
  BY DEF Event
<1>2. Times \subseteq Int /\ Ids \subseteq Int
  BY AuditConstants DEF Times
<1>3. e.time \in Int /\ f.time \in Int /\ e.id \in Int /\ f.id \in Int
  BY <1>1, <1>2, Zenon
<1>4. QED BY <1>3 DEF Before

(* Of events committed in order, the newest is the last. *)
LEMMA NewestIsLast ==
    ASSUME NEW events \in Seq(Event), NEW previous, events # <<>>,
           \A m, n \in DOMAIN events : m < n => Before(events[m], events[n]),
           LinkTo(previous, events)
    PROVE  previous = events[Len(events)].id
<1>1. PICK n \in DOMAIN events : IsNewest(n, events) /\ previous = events[n].id
  BY DEF LinkTo
<1>2. Len(events) \in DOMAIN events /\ n \in 1..Len(events)
  OBVIOUS
<1>3. SUFFICES ASSUME n # Len(events) PROVE FALSE
  BY <1>1
<1>4. Before(events[n], events[Len(events)]) /\ Before(events[Len(events)], events[n])
  BY <1>1, <1>2, <1>3 DEF IsNewest
<1>5. QED BY <1>2, <1>4, BeforeIsStrict

(* Events linked in the order of their commits verify in that order. *)
LEMMA OrderedLinksVerify ==
    ASSUME NEW events \in Seq(Event),
           \A m, n \in DOMAIN events : m < n => Before(events[m], events[n]),
           \A n \in DOMAIN events :
               events[n].previous = IF n = 1 THEN NoEvent ELSE events[n - 1].id
    PROVE  VerifyAuditChain(events)
<1>1. SUFFICES ASSUME NEW n \in DOMAIN events
               PROVE  IF \E i \in DOMAIN events : Before(events[i], events[n])
                      THEN \E m \in DOMAIN events : /\ IsPredecessor(m, n, events)
                                                    /\ events[n].previous = events[m].id
                      ELSE events[n].previous = NoEvent
  BY DEF VerifyAuditChain
<1>2. ASSUME NEW i \in DOMAIN events, Before(events[i], events[n])
      PROVE  i < n
  <2>1. ~ (n < i)
    BY <1>2, BeforeIsStrict
  <2>2. i # n
    BY <1>2, BeforeIsStrict
  <2>3. QED BY <2>1, <2>2
<1>3. CASE n = 1
  BY <1>2, <1>3
<1>4. CASE n # 1
  <2>1. n - 1 \in DOMAIN events /\ n - 1 < n
    BY <1>4
  <2>2. Before(events[n - 1], events[n])
    BY <2>1
  <2>3. ASSUME NEW i \in DOMAIN events, Before(events[i], events[n])
        PROVE  i = n - 1 \/ Before(events[i], events[n - 1])
    BY <1>2, <2>1, <2>3
  <2>4. IsPredecessor(n - 1, n, events)
    BY <2>2, <2>3 DEF IsPredecessor
  <2>5. QED BY <1>4, <2>1, <2>2, <2>4
<1>5. QED BY <1>3, <1>4

LEMMA AuditInitHolds == AuditInit => AuditInv
<1> SUFFICES ASSUME AuditInit PROVE AuditInv
  OBVIOUS
<1>1. AuditTypeOK
  BY AuditConstants DEF AuditInit, AuditTypeOK, Writer, IdleWriter, Times
<1>2. QED BY <1>1 DEF AuditInv, AuditInit, IdleWriter, LinksFollowCommits

(* A step that moves one writer and leaves the log. *)
LEMMA WriterMoves ==
    ASSUME AuditInv, NEW w \in Writers, NEW x \in Writer,
           writers' = [writers EXCEPT ![w] = x], UNCHANGED <<log, clock>>,
           x.pc \in {"locked", "linked"} =>
               \A v \in Writers \ {w} : writers[v].pc \notin {"locked", "linked"},
           x.pc = "linked" => x.id \in Ids /\ LinkTo(x.previous, log)
    PROVE  AuditInv'
<1>1. AuditTypeOK'
  BY DEF AuditInv, AuditTypeOK
<1>2. writers'[w] = x /\ \A v \in Writers \ {w} : writers'[v] = writers[v]
  BY DEF AuditInv, AuditTypeOK
<1>3. LinksFollowCommits'
  BY DEF AuditInv, LinksFollowCommits, CommittedInOrder
<1>4. \A u, v \in Writers :
          {writers'[u].pc, writers'[v].pc} \subseteq {"locked", "linked"} => u = v
  BY <1>2 DEF AuditInv
<1>5. QED BY <1>1, <1>2, <1>3, <1>4 DEF AuditInv

LEMMA CommitStep ==
    ASSUME AuditInv, NEW w \in Writers, Commit(w)
    PROVE  AuditInv'
<1> DEFINE e == EventOf(w)
<1>1. e \in Event /\ e.previous = writers[w].previous /\ e.id = writers[w].id
  BY DEF Commit, EventOf, AuditInv, AuditTypeOK, Writer, Event
<1>2. log \in Seq(Event) /\ LinkTo(e.previous, log) /\ log' = Append(log, e)
  BY <1>1 DEF Commit, AuditInv, AuditTypeOK
<1> HIDE DEF e
<1>3. IdleWriter \in Writer /\ IdleWriter.pc = "idle"
  BY AuditConstants DEF IdleWriter, Writer, Times
<1>4. log' \in Seq(Event) /\ Len(log') = Len(log) + 1 /\ log'[Len(log) + 1] = e
      /\ \A n \in DOMAIN log : n \in DOMAIN log' /\ log'[n] = log[n]
  BY <1>1, <1>2
<1>5. AuditTypeOK'
  BY <1>3, <1>4 DEF Commit, AuditInv, AuditTypeOK
<1>6. writers'[w].pc = "idle" /\ \A v \in Writers \ {w} : /\ writers'[v] = writers[v]
                                                         /\ writers[v].pc # "linked"
  BY <1>3 DEF Commit, AuditInv, AuditTypeOK
<1>7. LinksFollowCommits'
  <2>1. SUFFICES ASSUME CommittedInOrder', NEW n \in DOMAIN log'
                 PROVE  log'[n].previous = IF n = 1 THEN NoEvent ELSE log'[n - 1].id
    BY DEF LinksFollowCommits
  <2>2. CommittedInOrder
    BY <1>4, <2>1 DEF CommittedInOrder
  <2>3. n \in 1..(Len(log) + 1) /\ n \in DOMAIN log \cup {Len(log) + 1}
    BY <1>2, <1>4
  <2>4. CASE n \in DOMAIN log
    <3>1. log[n].previous = IF n = 1 THEN NoEvent ELSE log[n - 1].id
      BY <2>2, <2>4 DEF AuditInv, LinksFollowCommits
    <3>2. n # 1 => n - 1 \in DOMAIN log
      BY <1>2, <2>4
    <3>3. QED BY <1>4, <2>4, <3>1, <3>2
  <2>5. CASE n = Len(log) + 1
    <3>1. CASE log = <<>>
      BY <1>2, <1>4, <2>5, <3>1 DEF LinkTo
    <3>2. CASE log # <<>>
      <4>1. e.previous = log[Len(log)].id
        BY <1>2, <2>2, <3>2, NewestIsLast DEF CommittedInOrder
      <4>2. Len(log) \in DOMAIN log /\ n # 1 /\ n - 1 = Len(log)
        BY <1>2, <2>5, <3>2
      <4>3. QED BY <1>4, <2>5, <4>1, <4>2
    <3>3. QED BY <3>1, <3>2
  <2>6. QED BY <2>3, <2>4, <2>5
<1>8. \A u, v \in Writers :
          {writers'[u].pc, writers'[v].pc} \subseteq {"locked", "linked"} => u = v
  BY <1>6 DEF AuditInv
<1>9. QED BY <1>5, <1>6, <1>7, <1>8 DEF AuditInv

LEMMA AuditNextKeeps == AuditInv /\ [AuditNext]_auditVars => AuditInv'
<1> SUFFICES ASSUME AuditInv, [AuditNext]_auditVars PROVE AuditInv'
  OBVIOUS
<1>1. CASE UNCHANGED auditVars
  BY <1>1 DEF auditVars, AuditInv, AuditTypeOK, LinksFollowCommits, CommittedInOrder
<1>2. CASE Tick
  <2>1. AuditTypeOK' /\ UNCHANGED <<log, writers>>
    BY <1>2, AuditConstants DEF Tick, AuditInv, AuditTypeOK
  <2>2. QED BY <2>1 DEF AuditInv, LinksFollowCommits, CommittedInOrder
<1>3. ASSUME NEW w \in Writers, Stamp(w) PROVE AuditInv'
  <2>1. PICK time \in clock..(clock + Skew) :
            writers' = [writers EXCEPT ![w].pc = "stamped", ![w].time = time]
    BY <1>3, Zenon DEF Stamp
  <2> DEFINE x == [writers[w] EXCEPT !.pc = "stamped", !.time = time]
  <2>2. x \in Writer /\ x.pc = "stamped"
    <3>1. writers[w] \in Writer /\ clock \in 0..MaxTime
      BY DEF AuditInv, AuditTypeOK
    <3>2. time \in Times
      BY <3>1, AuditConstants DEF Times
    <3>3. QED BY <3>1, <3>2, Zenon DEF Writer
  <2>3. writers' = [writers EXCEPT ![w] = x] /\ UNCHANGED <<log, clock>>
    BY <1>3, <2>1, Zenon DEF Stamp, AuditInv, AuditTypeOK
  <2> HIDE DEF x
  <2>4. QED BY <2>2, <2>3, WriterMoves, Zenon
<1>4. ASSUME NEW w \in Writers, EnterLocked(w) PROVE AuditInv'
  <2> DEFINE x == [writers[w] EXCEPT !.pc = "locked"]
  <2>1. x \in Writer /\ x.pc = "locked"
    BY DEF AuditInv, AuditTypeOK, Writer
  <2>2. /\ writers' = [writers EXCEPT ![w] = x] /\ UNCHANGED <<log, clock>>
        /\ \A v \in Writers : writers[v].pc \notin {"locked", "linked"}
    BY <1>4 DEF EnterLocked, AuditInv, AuditTypeOK
  <2> HIDE DEF x
  <2>3. QED BY <2>1, <2>2, WriterMoves, Zenon
<1>5. ASSUME NEW w \in Writers, Link(w) PROVE AuditInv'
  <2>1. PICK id \in FreshIds, previous \in Ids \cup {NoEvent} :
            /\ LinkTo(previous, log)
            /\ writers' = [writers EXCEPT ![w] =
                 [@ EXCEPT !.pc = "linked", !.id = id, !.previous = previous]]
    BY <1>5, Zenon DEF Link
  <2> DEFINE x == [writers[w] EXCEPT !.pc = "linked", !.id = id, !.previous = previous]
  <2>2. x \in Writer /\ x.pc = "linked" /\ x.id = id /\ x.previous = previous /\ id \in Ids
    <3>1. writers[w] \in Writer /\ id \in Ids
      BY DEF AuditInv, AuditTypeOK, FreshIds
    <3>2. QED BY <3>1, Zenon DEF Writer
  <2>3. /\ writers' = [writers EXCEPT ![w] = x] /\ UNCHANGED <<log, clock>>
        /\ \A v \in Writers \ {w} : writers[v].pc \notin {"locked", "linked"}
    BY <1>5, <2>1, Zenon DEF Link, AuditInv, AuditTypeOK
  <2> HIDE DEF x
  <2>4. QED BY <2>1, <2>2, <2>3, WriterMoves, Zenon
<1>6. ASSUME NEW w \in Writers, Rollback(w) PROVE AuditInv'
  <2>1. IdleWriter \in Writer /\ IdleWriter.pc = "idle"
    BY AuditConstants DEF IdleWriter, Writer, Times
  <2>2. QED BY <1>6, <2>1, WriterMoves, Zenon DEF Rollback
<1>7. QED BY <1>1, <1>2, <1>3, <1>4, <1>5, <1>6, CommitStep DEF AuditNext

(* Whatever writers overlap, fail and retry, the chain verifies whenever   *)
(* timestamps and ids follow the order of the commits: the advisory lock   *)
(* serialises the read of the newest event and the insert of its successor *)
(* (appendAudit), for any number of writers.                               *)
THEOREM OrderedChainsVerify == AuditSpec => []OrderedChainVerifies
<1>1. AuditInv => OrderedChainVerifies
  BY OrderedLinksVerify
     DEF AuditInv, AuditTypeOK, LinksFollowCommits, OrderedChainVerifies, ChainVerifies, CommittedInOrder
<1>2. QED BY <1>1, AuditInitHolds, AuditNextKeeps, PTL DEF AuditSpec

-----------------------------------------------------------------------------
Staged == temporary \cup canonical
Committing == {"commit", "inspect", "copy", "delete"}

(* Where a call can be at a checkpoint.                                    *)
PcFits(m) ==
    \/ m.pc = "revalidate" /\ m.checkpoint = 1
    \/ m.pc = "stage" /\ m.checkpoint = 2
    \/ m.pc = "verify" /\ m.checkpoint = 3
    \/ m.pc \in Committing /\ m.checkpoint = 4
    \/ m.pc = "metadata" /\ m.checkpoint = 5
    \/ m.pc = "audit" /\ m.checkpoint = 6
    \/ m.pc = "advance" /\ m.checkpoint \in {1, 5, 6, 7}
    \/ m.pc = "returned" /\ m.checkpoint = 8

(* What a call relies on: a loop has had its effect on the blobs it is     *)
(* done with, and a call about to advance has had the checkpoint's effect. *)
CallOK(m) ==
    /\ op # None
    /\ op.key = m.key
    /\ m.checkpoint <= op.checkpoint
    /\ PcFits(m)
    /\ m.pc = "stage" => insert \ m.todo \subseteq Staged
    /\ m.pc \in Committing => insert \ m.todo \subseteq canonical
    /\ m.pc = "delete" => \A b \in m.todo :
                            (\A c \in m.todo : b <= c) => b \in canonical
    /\ (m.pc = "advance" /\ m.checkpoint = 5) => records
    /\ (m.pc = "advance" /\ m.checkpoint = 6) => audited

Active(m) == m.pc \in Working \cup {"returned"}
CallsOK == \A r \in Runs : Active(runs[r]) => CallOK(runs[r])

(* What is durable.                                                        *)
WorldOK ==
    /\ Blobs \ insert \subseteq canonical
    /\ Reached(temporary_blobs_staged) => insert \subseteq Staged
    /\ Reached(immutable_blobs_committed) => Blobs \subseteq canonical
    /\ Reached(metadata_committed) => records
    /\ Reached(audit_committed) => audited
    /\ records => /\ Blobs \subseteq canonical
                  /\ \A b \in Blobs : rows[b] # None
                  /\ \A b \in Attached : rows[b] = "import"
    /\ audited => records

IInv == TypeOK /\ CallsOK /\ WorldOK

(* Every step keeps what is durable: the operation moves on by at most one *)
(* checkpoint, staged bytes stay staged or become immutable, and nothing   *)
(* recorded goes away.                                                     *)
OpGrows == op # None => /\ op' # None
                        /\ op'.key = op.key
                        /\ op'.checkpoint \in {op.checkpoint, op.checkpoint + 1}
Grows ==
    /\ OpGrows
    /\ insert' = insert
    /\ Staged \subseteq Staged'
    /\ canonical \subseteq canonical'
    /\ records => records'
    /\ audited => audited'

----------------------------------------------------------------------------
(* The step of the loop of execute at each checkpoint.                     *)
LEMMA StepAtValues ==
    /\ StepAt[1] = "revalidate" /\ StepAt[2] = "stage" /\ StepAt[3] = "verify"
    /\ StepAt[4] = "commit" /\ StepAt[5] = "metadata" /\ StepAt[6] = "audit"
    /\ StepAt[7] = "advance" /\ StepAt[8] = "returned"
BY DEF StepAt

(* A call that does not move keeps what it relies on while others work.    *)
LEMMA CallKept ==
    ASSUME TypeOK, TypeOK', Grows, NEW m \in Run, CallOK(m)
    PROVE  CallOK(m)'
<1>1. op # None /\ op' # None /\ op \in Operation /\ op' \in Operation
  BY DEF TypeOK, CallOK, Grows, OpGrows
<1>2. op'.key = m.key /\ m.checkpoint <= op'.checkpoint
  BY <1>1 DEF CallOK, Grows, OpGrows, Operation, Run, Checkpoints
<1>3. PcFits(m)'
  BY DEF CallOK, PcFits
<1>4. /\ (m.pc = "stage" => insert \ m.todo \subseteq Staged)'
      /\ (m.pc \in Committing => insert \ m.todo \subseteq canonical)'
  BY DEF CallOK, Grows, Committing
<1>5. (m.pc = "delete" => \A b \in m.todo :
          (\A c \in m.todo : b <= c) => b \in canonical)'
  BY DEF CallOK, Grows
<1>6. /\ ((m.pc = "advance" /\ m.checkpoint = 5) => records)'
      /\ ((m.pc = "advance" /\ m.checkpoint = 6) => audited)'
  BY DEF CallOK, Grows
<1> QED
  BY <1>1, <1>2, <1>3, <1>4, <1>5, <1>6 DEF CallOK

(* What a step of one call has to establish.                               *)
LEMMA OneCall ==
    ASSUME IInv, TypeOK', Grows, WorldOK', NEW r \in Runs,
           \A q \in Runs : q # r => runs'[q] = runs[q],
           Active(runs[r])' => CallOK(runs[r])'
    PROVE  IInv'
<1> SUFFICES ASSUME NEW q \in Runs, Active(runs[q])'
             PROVE  CallOK(runs[q])'
  BY DEF IInv, CallsOK
<1>1. CASE q = r
  BY <1>1
<1>2. CASE q # r
  <2>1. PICK m \in Run : m = runs[q]
    BY DEF IInv, TypeOK
  <2>2. runs'[q] = m
    BY <1>2, <2>1
  <2>3. CallOK(m)
    <3>1. Active(runs[q])
      BY <2>1, <2>2 DEF Active
    <3> QED
      BY <2>1, <3>1 DEF IInv, CallsOK
  <2>4. CallOK(m)'
    BY <2>3, CallKept DEF IInv
  <2> QED
    BY <2>2, <2>4
<1> QED
  BY <1>1, <1>2

(* A step that leaves the database alone and loses no bytes.               *)
LEMMA WorldKept ==
    ASSUME IInv, Grows, UNCHANGED dbVars
    PROVE  WorldOK'
BY DEF IInv, WorldOK, Grows, Reached, dbVars

(* A call at a checkpoint the operation has reached, with the effects of   *)
(* that checkpoint, may go on there.                                       *)
LEMMA GoOnOK ==
    ASSUME TypeOK, TypeOK', NEW r \in Runs, NEW k \in Checkpoints,
           GoOnAt(r, k), insert' = insert,
           op' # None, op'.key = runs[r].key, k <= op'.checkpoint
    PROVE  /\ CallOK(runs[r])'
           /\ \A q \in Runs : q # r => runs'[q] = runs[q]
<1> DEFINE m == [pc |-> StepAt[k], key |-> runs[r].key,
                 checkpoint |-> k, todo |-> insert]
<1>1. runs' = [runs EXCEPT ![r] = m]
  BY DEF GoOnAt
<1>2. /\ runs'[r] = m
      /\ \A q \in Runs : q # r => runs'[q] = runs[q]
  BY <1>1 DEF TypeOK
<1>3. m.pc = StepAt[k] /\ m.checkpoint = k /\ m.todo = insert /\ m.key = runs[r].key
  OBVIOUS
<1> HIDE DEF m
<1>4. PcFits(m)
  BY <1>3, StepAtValues DEF PcFits, Checkpoints, Committing
<1>5. m.pc # "delete" /\ (m.pc = "advance" => m.checkpoint = 7)
  BY <1>3, StepAtValues DEF Checkpoints
<1>6. CallOK(runs[r])'
  BY <1>2, <1>3, <1>4, <1>5 DEF CallOK, PcFits
<1> QED
  BY <1>2, <1>6

----------------------------------------------------------------------------
(* A call that only changes its step.                                      *)
LEMMA GotoFacts ==
    ASSUME TypeOK, NEW r \in Runs, NEW pc, Goto(r, pc)
    PROVE  /\ runs'[r].pc = pc
           /\ runs'[r].key = runs[r].key
           /\ runs'[r].checkpoint = runs[r].checkpoint
           /\ runs'[r].todo = runs[r].todo
           /\ \A q \in Runs : q # r => runs'[q] = runs[q]
           /\ pc \in Working \cup {"returned", "failed", "refused"}
                => runs' \in [Runs -> Run]
BY DEF TypeOK, Goto, Run

(* A loop that is done with a blob.                                        *)
LEMMA DoneFacts ==
    ASSUME TypeOK, NEW r \in Runs, NEW b \in Blobs, Done(r, b)
    PROVE  /\ runs'[r].pc = StepAt[runs[r].checkpoint]
           /\ runs'[r].key = runs[r].key
           /\ runs'[r].checkpoint = runs[r].checkpoint
           /\ runs'[r].todo = runs[r].todo \ {b}
           /\ \A q \in Runs : q # r => runs'[q] = runs[q]
           /\ runs' \in [Runs -> Run]
<1> DEFINE m == [pc |-> StepAt[runs[r].checkpoint], key |-> runs[r].key,
                 checkpoint |-> runs[r].checkpoint, todo |-> runs[r].todo \ {b}]
<1>1. runs[r] \in Run
  BY DEF TypeOK
<1>2. StepAt[runs[r].checkpoint] \in Working \cup {"returned"}
  BY <1>1, StepAtValues DEF Run, Checkpoints, Working
<1>3. m \in Run
  BY <1>1, <1>2 DEF Run
<1>4. runs' = [runs EXCEPT ![r] = m]
  BY DEF Done
<1>5. /\ m.pc = StepAt[runs[r].checkpoint] /\ m.key = runs[r].key
      /\ m.checkpoint = runs[r].checkpoint /\ m.todo = runs[r].todo \ {b}
  OBVIOUS
<1> HIDE DEF m
<1> QED
  BY <1>3, <1>4, <1>5 DEF TypeOK

(* A call that goes on at a checkpoint.                                    *)
LEMMA GoOnType ==
    ASSUME TypeOK, NEW r \in Runs, NEW k \in Checkpoints, GoOnAt(r, k)
    PROVE  runs' \in [Runs -> Run]
<1>1. StepAt[k] \in Working \cup {"returned"}
  BY StepAtValues DEF Checkpoints, Working
<1>2. [pc |-> StepAt[k], key |-> runs[r].key, checkpoint |-> k,
       todo |-> insert] \in Run
  BY <1>1 DEF Run, TypeOK
<1> QED
  BY <1>2 DEF GoOnAt, TypeOK

(* A call that ends with an error keeps the invariant.                     *)
LEMMA FailKept ==
    ASSUME IInv, NEW r \in Runs, Goto(r, "failed"),
           insert' = insert, UNCHANGED dbVars, UNCHANGED storeVars,
           faults' \in 0..MaxFaults
    PROVE  IInv'
<1>1. TypeOK
  BY DEF IInv
<1>2. TypeOK'
  BY <1>1, GotoFacts DEF TypeOK, dbVars, storeVars
<1>3. Grows
  BY <1>1 DEF Grows, OpGrows, dbVars, storeVars, Staged
<1>4. WorldOK'
  BY <1>3, WorldKept
<1>5. /\ \A q \in Runs : q # r => runs'[q] = runs[q]
      /\ ~Active(runs[r])'
  BY <1>1, GotoFacts DEF Active, Working
<1> QED
  BY <1>2, <1>3, <1>4, <1>5, OneCall

(* A call at work relies on its checkpoint.                                *)
LEMMA AtWork ==
    ASSUME IInv, NEW r \in Runs, runs[r].pc \in Working
    PROVE  CallOK(runs[r])
BY DEF IInv, CallsOK, Active

(* begin.                                                                  *)
LEMMA BeginKept == ASSUME IInv, NEW r \in Runs, Begin(r) PROVE IInv'
<1>1. TypeOK /\ runs[r] \in Run /\ authorised \in Checkpoints
  BY DEF IInv, TypeOK, authorised, Checkpoints
<1>2. CASE op = None
  <2>1. op' = [key |-> runs[r].key, checkpoint |-> authorised] /\ GoOnAt(r, authorised)
    BY <1>2 DEF Begin
  <2>2. op' \in Operation /\ op' # None /\ op'.key = runs[r].key /\ op'.checkpoint = 1
    BY <1>1, <2>1, ImportConstants DEF Operation, Run, authorised
  <2>3. TypeOK'
    BY <1>1, <2>1, <2>2, GoOnType DEF TypeOK, Begin, storeVars
  <2>4. Grows
    BY <1>2 DEF Grows, OpGrows, Begin, storeVars, Staged
  <2>5. WorldOK'
    BY <2>2, <2>4 DEF IInv, WorldOK, Reached, Begin, Grows, temporary_blobs_staged,
       immutable_blobs_committed, metadata_committed, audit_committed
  <2>6. insert' = insert /\ authorised <= op'.checkpoint
    BY <2>2 DEF Begin, authorised
  <2>7. /\ CallOK(runs[r])'
        /\ \A q \in Runs : q # r => runs'[q] = runs[q]
    BY <1>1, <2>1, <2>2, <2>3, <2>6, GoOnOK
  <2> QED
    BY <2>3, <2>4, <2>5, <2>7, OneCall
<1>3. CASE op # None
  <2>1. op \in Operation /\ op' = op
    BY <1>1, <1>3 DEF TypeOK, Begin
  <2>2. insert' = insert /\ UNCHANGED dbVars /\ UNCHANGED storeVars /\ faults' = faults
    BY <2>1 DEF Begin, dbVars
  <2>3. Grows
    BY <2>1, <2>2 DEF Grows, OpGrows, dbVars, storeVars, Staged
  <2>4. WorldOK'
    BY <2>2, <2>3, WorldKept
  <2>5. CASE op.key = runs[r].key
    <3>1. GoOnAt(r, op.checkpoint) /\ op.checkpoint \in Checkpoints
      BY <1>3, <2>1, <2>5 DEF Begin, Operation
    <3>2. TypeOK'
      BY <1>1, <2>2, <3>1, GoOnType DEF TypeOK, dbVars, storeVars
    <3>3. op' # None /\ op'.key = runs[r].key /\ op.checkpoint <= op'.checkpoint
      BY <1>3, <2>1, <2>5, <3>1 DEF Checkpoints
    <3>4. /\ CallOK(runs[r])'
          /\ \A q \in Runs : q # r => runs'[q] = runs[q]
      BY <1>1, <2>2, <3>1, <3>2, <3>3, GoOnOK
    <3> QED
      BY <2>3, <2>4, <3>2, <3>4, OneCall
  <2>6. CASE op.key # runs[r].key
    <3>1. Goto(r, "refused")
      BY <1>3, <2>6 DEF Begin
    <3>2. TypeOK'
      BY <1>1, <2>2, <3>1, GotoFacts DEF TypeOK, dbVars, storeVars
    <3>3. /\ \A q \in Runs : q # r => runs'[q] = runs[q]
          /\ ~Active(runs[r])'
      BY <1>1, <3>1, GotoFacts DEF Active, Working
    <3> QED
      BY <2>3, <2>4, <3>2, <3>3, OneCall
  <2> QED
    BY <2>5, <2>6
<1> QED
  BY <1>2, <1>3

(* A call that leaves the database alone and moves to a step it may be at. *)
LEMMA StoreStep ==
    ASSUME IInv, NEW r \in Runs, UNCHANGED <<insert, dbVars, faults>>,
           temporary' \subseteq Blobs, canonical' \subseteq Blobs,
           Staged \subseteq Staged', canonical \subseteq canonical',
           runs' \in [Runs -> Run],
           \A q \in Runs : q # r => runs'[q] = runs[q],
           Active(runs[r])' => CallOK(runs[r])'
    PROVE  IInv'
<1>1. TypeOK'
  BY DEF IInv, TypeOK, dbVars
<1>2. Grows
  BY DEF IInv, TypeOK, Grows, OpGrows, dbVars, Staged, Operation
<1>3. WorldOK'
  BY <1>2, WorldKept
<1> QED
  BY <1>1, <1>2, <1>3, OneCall

(* revalidate.                                                             *)
LEMMA RevalidateKept == ASSUME IInv, NEW r \in Runs, Revalidate(r) PROVE IInv'
<1>1. TypeOK /\ runs[r].pc = "revalidate"
      /\ UNCHANGED <<insert, dbVars, storeVars, faults>>
  BY DEF IInv, Revalidate, At
<1>2. CASE Goto(r, "failed")
  BY <1>1, <1>2, FailKept DEF TypeOK
<1>3. CASE Goto(r, "advance")
  <2>1. CallOK(runs[r])
    BY <1>1, AtWork DEF Working
  <2>2. /\ runs'[r].pc = "advance" /\ runs'[r].key = runs[r].key
        /\ runs'[r].checkpoint = runs[r].checkpoint
        /\ \A q \in Runs : q # r => runs'[q] = runs[q]
        /\ runs' \in [Runs -> Run]
    BY <1>1, <1>3, GotoFacts DEF Working
  <2>3. runs[r].checkpoint = 1 /\ op # None /\ op.key = runs[r].key
        /\ runs[r].checkpoint <= op.checkpoint
    BY <1>1, <2>1, Zenon DEF CallOK, PcFits, Committing
  <2>4. CallOK(runs[r])'
    BY <1>1, <2>2, <2>3 DEF CallOK, PcFits, Committing, dbVars
  <2> QED
    BY <1>1, <2>2, <2>4, StoreStep DEF TypeOK, storeVars, Staged
<1> QED
  BY <1>2, <1>3 DEF Revalidate

(* stageBlobs.                                                             *)
LEMMA StageBlobKept == ASSUME IInv, NEW r \in Runs, StageBlob(r) PROVE IInv'
<1>1. PICK b \in Blobs : /\ runs[r].pc = "stage"
                         /\ temporary' = temporary \cup {b}
                         /\ Done(r, b)
                         /\ UNCHANGED <<insert, dbVars, canonical, faults>>
  BY DEF StageBlob, At
<1>2. TypeOK /\ CallOK(runs[r])
  BY <1>1, AtWork DEF IInv, Working
<1>3. /\ op # None /\ op.key = runs[r].key /\ runs[r].checkpoint <= op.checkpoint
      /\ runs[r].checkpoint = 2 /\ insert \ runs[r].todo \subseteq Staged
  BY <1>1, <1>2, Zenon DEF CallOK, PcFits, Committing
<1>4. /\ runs'[r].pc = "stage" /\ runs'[r].key = runs[r].key
      /\ runs'[r].checkpoint = 2 /\ runs'[r].todo = runs[r].todo \ {b}
      /\ \A q \in Runs : q # r => runs'[q] = runs[q]
      /\ runs' \in [Runs -> Run]
  BY <1>1, <1>2, <1>3, DoneFacts, StepAtValues
<1>5. CallOK(runs[r])'
  BY <1>1, <1>3, <1>4, Zenon DEF CallOK, PcFits, Committing, Staged, dbVars
<1> QED
  BY <1>1, <1>2, <1>4, <1>5, StoreStep, Zenon DEF TypeOK, Staged

(* verifyStaged.                                                           *)
LEMMA VerifyStagedBlobKept ==
    ASSUME IInv, NEW r \in Runs, VerifyStagedBlob(r) PROVE IInv'
<1>1. PICK b \in Blobs : /\ runs[r].pc = "verify"
                         /\ Done(r, b) \/ Goto(r, "failed")
                         /\ UNCHANGED <<insert, dbVars, storeVars, faults>>
  BY DEF VerifyStagedBlob, At
<1>2. TypeOK /\ CallOK(runs[r])
  BY <1>1, AtWork DEF IInv, Working
<1>3. CASE Goto(r, "failed")
  BY <1>1, <1>2, <1>3, FailKept DEF TypeOK
<1>4. CASE Done(r, b)
  <2>1. /\ op # None /\ op.key = runs[r].key /\ runs[r].checkpoint <= op.checkpoint
        /\ runs[r].checkpoint = 3
    BY <1>1, <1>2, Zenon DEF CallOK, PcFits, Committing
  <2>2. /\ runs'[r].pc = "verify" /\ runs'[r].key = runs[r].key
        /\ runs'[r].checkpoint = 3
        /\ \A q \in Runs : q # r => runs'[q] = runs[q]
        /\ runs' \in [Runs -> Run]
    BY <1>2, <1>4, <2>1, DoneFacts, StepAtValues
  <2>3. CallOK(runs[r])'
    BY <1>1, <2>1, <2>2, Zenon DEF CallOK, PcFits, Committing, dbVars
  <2> QED
    BY <1>1, <1>2, <2>2, <2>3, StoreStep, Zenon DEF TypeOK, storeVars, Staged
<1> QED
  BY <1>1, <1>3, <1>4, Zenon

(* The steps of commitBlob before the object is copied.                    *)
LEMMA GotoCommitting ==
    ASSUME IInv, NEW r \in Runs, runs[r].pc \in Committing,
           NEW pc \in Committing, Goto(r, pc),
           UNCHANGED <<insert, dbVars, temporary, faults>>,
           canonical \subseteq canonical', canonical' \subseteq Blobs,
           pc = "delete" => \A b \in runs[r].todo :
                (\A c \in runs[r].todo : b <= c) => b \in canonical'
    PROVE  IInv'
<1>1. TypeOK /\ CallOK(runs[r])
  BY AtWork, Zenon DEF IInv, Working, Committing
<1>2. /\ op # None /\ op.key = runs[r].key /\ runs[r].checkpoint <= op.checkpoint
      /\ runs[r].checkpoint = 4 /\ insert \ runs[r].todo \subseteq canonical
  BY <1>1 DEF CallOK, PcFits, Committing
<1>3. /\ runs'[r].pc = pc /\ runs'[r].key = runs[r].key
      /\ runs'[r].checkpoint = runs[r].checkpoint /\ runs'[r].todo = runs[r].todo
      /\ \A q \in Runs : q # r => runs'[q] = runs[q]
      /\ runs' \in [Runs -> Run]
  BY <1>1, GotoFacts DEF Working, Committing
<1>4. op' # None /\ op'.key = runs'[r].key /\ runs'[r].checkpoint <= op'.checkpoint
      /\ runs'[r].checkpoint = 4 /\ insert' \ runs'[r].todo \subseteq canonical'
  BY <1>2, <1>3, Zenon DEF dbVars
<1>5. CallOK(runs[r])'
  BY <1>3, <1>4, Zenon DEF CallOK, PcFits, Committing
<1> QED
  BY <1>1, <1>3, <1>5, StoreStep DEF TypeOK, Staged

(* commitBlob is done with a blob that is immutable.                       *)
LEMMA DoneCommitting ==
    ASSUME IInv, NEW r \in Runs, runs[r].pc \in Committing,
           NEW b \in Blobs, Done(r, b), b \in canonical,
           UNCHANGED <<insert, dbVars, canonical, faults>>,
           temporary' \in {temporary, temporary \ {b}}
    PROVE  IInv'
<1>1. TypeOK /\ CallOK(runs[r])
  BY AtWork DEF IInv, Working, Committing
<1>2. /\ op # None /\ op.key = runs[r].key /\ runs[r].checkpoint <= op.checkpoint
      /\ runs[r].checkpoint = 4 /\ insert \ runs[r].todo \subseteq canonical
  BY <1>1, Zenon DEF CallOK, PcFits, Committing
<1>3. /\ runs'[r].pc = "commit" /\ runs'[r].key = runs[r].key
      /\ runs'[r].checkpoint = 4 /\ runs'[r].todo = runs[r].todo \ {b}
      /\ \A q \in Runs : q # r => runs'[q] = runs[q]
      /\ runs' \in [Runs -> Run]
  BY <1>1, <1>2, DoneFacts, StepAtValues
<1>4. CallOK(runs[r])'
  BY <1>2, <1>3 DEF CallOK, PcFits, Committing, dbVars
<1> QED
  BY <1>1, <1>3, <1>4, StoreStep, Zenon DEF TypeOK, Staged

(* commitBlob, with the staged object in hand.                             *)
LEMMA CommitBlobKept == ASSUME IInv, NEW r \in Runs, CommitBlob(r) PROVE IInv'
<1>1. /\ runs[r].pc \in Committing
      /\ Goto(r, "inspect") \/ Goto(r, "failed")
      /\ UNCHANGED <<insert, dbVars, storeVars, faults>>
      /\ TypeOK
  BY DEF CommitBlob, At, Committing, IInv
<1>2. CASE Goto(r, "failed")
  BY <1>1, <1>2, FailKept DEF TypeOK
<1>3. CASE Goto(r, "inspect")
  BY <1>1, <1>3, GotoCommitting DEF Committing, TypeOK, storeVars
<1> QED
  BY <1>1, <1>2, <1>3

(* commitImmutable looks at the two objects.                               *)
LEMMA InspectObjectsKept ==
    ASSUME IInv, NEW r \in Runs, InspectObjects(r) PROVE IInv'
<1>1. PICK b \in Blobs :
        /\ runs[r].pc \in Committing
        /\ IsNext(r, b)
        /\ \/ Goto(r, "copy")
           \/ b \in canonical /\ Goto(r, "delete")
           \/ b \in canonical /\ Done(r, b)
           \/ Goto(r, "failed")
        /\ UNCHANGED <<insert, dbVars, storeVars, faults>>
  BY DEF InspectObjects, At, Committing
<1>2. TypeOK
  BY DEF IInv
<1>3. CASE Goto(r, "failed")
  BY <1>1, <1>2, <1>3, FailKept, Zenon DEF TypeOK
<1>4. CASE Goto(r, "copy")
  BY <1>1, <1>2, <1>4, GotoCommitting DEF Committing, TypeOK, storeVars
<1>5. CASE b \in canonical /\ Goto(r, "delete")
  <2>1. \A c \in runs[r].todo : (\A d \in runs[r].todo : c <= d) => c \in canonical'
    <3> SUFFICES ASSUME NEW c \in runs[r].todo, \A d \in runs[r].todo : c <= d
                 PROVE  c \in canonical'
      BY Zenon
    <3>1. b <= c /\ c <= b
      BY <1>1 DEF IsNext
    <3>2. b \in Int /\ c \in Int
      BY <1>2 DEF TypeOK, Run, Blobs
    <3> QED
      BY <1>1, <1>5, <3>1, <3>2 DEF storeVars
  <2> QED
    BY <1>1, <1>2, <1>5, <2>1, GotoCommitting DEF Committing, TypeOK, storeVars
<1>6. CASE b \in canonical /\ Done(r, b)
  BY <1>1, <1>6, DoneCommitting DEF storeVars
<1> QED
  BY <1>1, <1>3, <1>4, <1>5, <1>6

(* commitImmutable copies: the blob in hand is immutable now.              *)
LEMMA CopyObjectKept == ASSUME IInv, NEW r \in Runs, CopyObject(r) PROVE IInv'
<1>1. PICK b \in Blobs :
        /\ runs[r].pc \in Committing
        /\ IsNext(r, b)
        /\ \/ canonical' = canonical \cup {b} /\ Goto(r, "delete")
           \/ Goto(r, "failed") /\ UNCHANGED canonical
        /\ UNCHANGED <<insert, dbVars, temporary, faults>>
  BY DEF CopyObject, At, Committing
<1>2. TypeOK
  BY DEF IInv
<1>3. CASE Goto(r, "failed") /\ UNCHANGED canonical
  BY <1>1, <1>2, <1>3, FailKept, Zenon DEF TypeOK, storeVars
<1>4. CASE canonical' = canonical \cup {b} /\ Goto(r, "delete")
  <2>1. \A c \in runs[r].todo : (\A d \in runs[r].todo : c <= d) => c \in canonical'
    <3> SUFFICES ASSUME NEW c \in runs[r].todo, \A d \in runs[r].todo : c <= d
                 PROVE  c \in canonical'
      OBVIOUS
    <3>1. b <= c /\ c <= b
      BY <1>1 DEF IsNext
    <3>2. b \in Int /\ c \in Int
      BY <1>2 DEF TypeOK, Run, Blobs
    <3> QED
      BY <1>4, <3>1, <3>2
  <2> QED
    BY <1>1, <1>2, <1>4, <2>1, GotoCommitting DEF Committing, TypeOK
<1> QED
  BY <1>1, <1>3, <1>4, Zenon

(* The staged object goes only once the immutable one is there.            *)
LEMMA DeleteTemporaryKept ==
    ASSUME IInv, NEW r \in Runs, DeleteTemporary(r) PROVE IInv'
<1>1. PICK b \in Blobs :
        /\ runs[r].pc = "delete"
        /\ IsNext(r, b)
        /\ temporary' = temporary \ {b}
        /\ Done(r, b)
        /\ UNCHANGED <<insert, dbVars, canonical, faults>>
  BY DEF DeleteTemporary, At
<1>2. CallOK(runs[r])
  BY <1>1, AtWork DEF Working
<1>3. b \in canonical
  BY <1>1, <1>2, Zenon DEF CallOK, IsNext
<1> QED
  BY <1>1, <1>3, DoneCommitting DEF Committing

(* The calls that have a checkpoint's effect in the database go on to      *)
(* advance.                                                                *)
LEMMA ToAdvance ==
    ASSUME IInv, NEW r \in Runs, Goto(r, "advance"),
           \/ runs[r].pc = "metadata" /\ records'
           \/ runs[r].pc = "audit" /\ audited',
           TypeOK', WorldOK', Grows, op' = op
    PROVE  IInv'
<1>1. TypeOK /\ CallOK(runs[r])
  BY AtWork, Zenon DEF IInv, Working
<1>2. /\ op # None /\ op.key = runs[r].key /\ runs[r].checkpoint <= op.checkpoint
      /\ runs[r].pc = "metadata" => runs[r].checkpoint = 5
      /\ runs[r].pc = "audit" => runs[r].checkpoint = 6
  BY <1>1, Zenon DEF CallOK, PcFits, Committing
<1>3. /\ runs'[r].pc = "advance" /\ runs'[r].key = runs[r].key
      /\ runs'[r].checkpoint = runs[r].checkpoint
      /\ \A q \in Runs : q # r => runs'[q] = runs[q]
  BY <1>1, GotoFacts, Zenon
<1>4. CallOK(runs[r])'
  BY <1>2, <1>3 DEF CallOK, PcFits, Committing
<1> QED
  BY <1>3, <1>4, OneCall

(* commitMetadata.                                                         *)
LEMMA CommitMetadataKept ==
    ASSUME IInv, NEW r \in Runs, CommitMetadata(r) PROVE IInv'
<1>1. /\ TypeOK /\ runs[r].pc = "metadata"
      /\ UNCHANGED <<insert, op, audited, storeVars, faults>>
  BY DEF CommitMetadata, At, IInv
<1>2. CASE Goto(r, "failed") /\ UNCHANGED <<rows, records>>
  BY <1>1, <1>2, FailKept, Zenon DEF TypeOK, dbVars
<1>3. CASE /\ BytesCommitted /\ KeysHold
           /\ rows' = InsertedRows
           /\ records' = TRUE
           /\ Goto(r, "advance")
  <2>1. TypeOK'
    BY <1>1, <1>3, GotoFacts DEF TypeOK, storeVars, Working, InsertedRows
  <2>2. Grows
    BY <1>1, <1>3 DEF Grows, OpGrows, storeVars, Staged, TypeOK, Operation
  <2>3. \A b \in Blobs : rows'[b] # None
    BY <1>1, <1>3, ImportConstants DEF InsertedRows
  <2>4. \A b \in Attached : rows'[b] = "import"
    BY <1>3 DEF KeysHold
  <2>5. WorldOK'
    BY <1>1, <1>3, <2>3, <2>4, Zenon DEF IInv, WorldOK, Reached, storeVars, Staged, BytesCommitted
  <2> QED
    BY <1>1, <1>3, <2>1, <2>2, <2>5, ToAdvance
<1> QED
  BY <1>2, <1>3, Zenon DEF CommitMetadata, InsertedRecords

(* appendAudit: its checkpoint says the records are there.                 *)
LEMMA AppendAuditKept == ASSUME IInv, NEW r \in Runs, AppendAudit(r) PROVE IInv'
<1>1. /\ TypeOK /\ runs[r].pc = "audit" /\ audited' = TRUE /\ Goto(r, "advance")
      /\ UNCHANGED <<insert, op, rows, records, storeVars, faults>>
  BY DEF AppendAudit, At, IInv
<1>2. records
  <2>1. CallOK(runs[r]) /\ runs[r] \in Run
    BY <1>1, AtWork DEF Working, TypeOK
  <2>2. op # None /\ runs[r].checkpoint = 6 /\ runs[r].checkpoint <= op.checkpoint
    BY <1>1, <2>1 DEF CallOK, PcFits, Committing
  <2>3. op.checkpoint \in Int
    BY <1>1, <2>2 DEF TypeOK, Operation, Checkpoints
  <2>4. Reached(metadata_committed)
    BY <2>2, <2>3 DEF Reached, metadata_committed
  <2> QED
    BY <2>4 DEF IInv, WorldOK
<1>3. TypeOK'
  BY <1>1, GotoFacts DEF TypeOK, storeVars, Working
<1>4. Grows
  BY <1>1 DEF Grows, OpGrows, storeVars, Staged, TypeOK, Operation
<1>5. WorldOK'
  BY <1>1, <1>2 DEF IInv, WorldOK, Reached, storeVars, Staged
<1> QED
  BY <1>1, <1>3, <1>4, <1>5, ToAdvance

(* What has become durable when a call comes to advance.                   *)
LEMMA EffectAtEnd ==
    ASSUME IInv, NEW r \in Runs, AtEnd(r)
    PROVE  /\ op # None /\ op.key = runs[r].key
           /\ runs[r].checkpoint \in 1..7 /\ runs[r].checkpoint <= op.checkpoint
           /\ runs[r].checkpoint = 2 => insert \subseteq Staged
           /\ runs[r].checkpoint = 4 => Blobs \subseteq canonical
           /\ runs[r].checkpoint = 5 => records
           /\ runs[r].checkpoint = 6 => audited
<1>1. /\ runs[r].pc \in {"advance", "stage", "verify", "commit"}
      /\ runs[r].pc # "advance" => runs[r].todo = {}
  BY DEF AtEnd, At, Loops
<1>2. CallOK(runs[r])
  BY <1>1, AtWork DEF Working
<1>3. /\ op # None /\ op.key = runs[r].key /\ runs[r].checkpoint <= op.checkpoint
      /\ runs[r].checkpoint \in 1..7
  BY <1>1, <1>2 DEF CallOK, PcFits, Committing
<1>4. runs[r].checkpoint = 2 => insert \subseteq Staged
  <2>1. runs[r].checkpoint = 2 => runs[r].pc = "stage" /\ runs[r].todo = {}
    BY <1>1, <1>2 DEF CallOK, PcFits, Committing
  <2> QED
    BY <1>2, <2>1 DEF CallOK
<1>5. runs[r].checkpoint = 4 => Blobs \subseteq canonical
  <2>1. runs[r].checkpoint = 4 => runs[r].pc \in Committing /\ runs[r].todo = {}
    BY <1>1, <1>2 DEF CallOK, PcFits, Committing
  <2>2. runs[r].checkpoint = 4 => insert \subseteq canonical
    BY <1>2, <2>1 DEF CallOK
  <2> QED
    BY <2>2 DEF IInv, WorldOK
<1>6. /\ runs[r].checkpoint = 5 => records
      /\ runs[r].checkpoint = 6 => audited
  BY <1>1, <1>2 DEF CallOK, PcFits, Committing
<1> QED
  BY <1>3, <1>4, <1>5, <1>6

(* advance.                                                                *)
LEMMA AdvanceKept == ASSUME IInv, NEW r \in Runs, Advance(r) PROVE IInv'
<1> DEFINE k == runs[r].checkpoint
<1>1. /\ TypeOK /\ AtEnd(r)
      /\ UNCHANGED <<insert, rows, records, audited, storeVars, faults>>
  BY Zenon DEF IInv, Advance
<1>2. /\ op # None /\ op \in Operation /\ op.key = runs[r].key
      /\ k \in 1..7 /\ k <= op.checkpoint
      /\ k = 2 => insert \subseteq Staged
      /\ k = 4 => Blobs \subseteq canonical
      /\ k = 5 => records
      /\ k = 6 => audited
  BY <1>1, EffectAtEnd, Zenon DEF TypeOK
<1>3. CASE op.checkpoint # k /\ GoOnAt(r, op.checkpoint) /\ op' = op
  <2>1. op.checkpoint \in Checkpoints /\ op.checkpoint <= op'.checkpoint
    BY <1>2, <1>3 DEF Operation, Checkpoints
  <2>2. TypeOK'
    BY <1>1, <1>3, <2>1, GoOnType DEF TypeOK, storeVars
  <2>3. Grows
    BY <1>1, <1>2, <1>3 DEF Grows, OpGrows, storeVars, Staged
  <2>4. WorldOK'
    BY <1>1, <1>3, <2>3, WorldKept DEF dbVars
  <2>5. /\ CallOK(runs[r])'
        /\ \A q \in Runs : q # r => runs'[q] = runs[q]
    BY <1>1, <1>2, <1>3, <2>1, <2>2, GoOnOK, Zenon
  <2> QED
    BY <2>2, <2>3, <2>4, <2>5, OneCall
<1>4. CASE op.checkpoint = k /\ op' = [op EXCEPT !.checkpoint = k + 1] /\ GoOnAt(r, k + 1)
  <2>1. k + 1 \in Checkpoints
    BY <1>2 DEF Checkpoints
  <2>2. op' \in Operation /\ op'.key = op.key /\ op'.checkpoint = k + 1 /\ op' # None
    BY <1>2, <1>4, <2>1, ImportConstants DEF Operation
  <2>3. TypeOK'
    BY <1>1, <1>4, <2>1, <2>2, GoOnType DEF TypeOK, storeVars
  <2>4. Grows
    BY <1>1, <1>2, <1>4, <2>2 DEF Grows, OpGrows, storeVars, Staged
  <2>5. WorldOK'
    <3> HIDE DEF k
    <3>1. \A j \in {3, 5, 6, 7} : k + 1 >= j => k + 1 = j \/ op.checkpoint >= j
      BY <1>2, <1>4
    <3>2. /\ k + 1 >= 3 => insert \subseteq Staged
          /\ k + 1 >= 5 => Blobs \subseteq canonical
          /\ k + 1 >= 6 => records
          /\ k + 1 >= 7 => audited
      BY <1>2, <3>1 DEF IInv, WorldOK, Reached, temporary_blobs_staged,
         immutable_blobs_committed, metadata_committed, audit_committed
    <3> QED
      BY <1>1, <2>2, <3>2 DEF IInv, WorldOK, Reached, storeVars, Staged,
         temporary_blobs_staged, immutable_blobs_committed, metadata_committed,
         audit_committed
  <2>6. op'.key = runs[r].key /\ k + 1 <= op'.checkpoint
    BY <1>2, <2>1, <2>2 DEF Checkpoints
  <2>7. /\ CallOK(runs[r])'
        /\ \A q \in Runs : q # r => runs'[q] = runs[q]
    BY <1>1, <1>4, <2>1, <2>2, <2>3, <2>6, GoOnOK
  <2> QED
    BY <2>3, <2>4, <2>5, <2>7, OneCall
<1> QED
  BY <1>3, <1>4 DEF Advance

(* A step of no call.                                                      *)
LEMMA NoCall ==
    ASSUME IInv, TypeOK', Grows, WorldOK', runs' = runs
    PROVE  IInv'
<1> SUFFICES ASSUME NEW q \in Runs, Active(runs[q])'
             PROVE  CallOK(runs[q])'
  BY DEF IInv, CallsOK
<1>1. PICK m \in Run : m = runs[q]
  BY Zenon DEF IInv, TypeOK
<1>2. runs'[q] = m /\ CallOK(m)
  BY <1>1 DEF IInv, CallsOK, Active
<1>3. CallOK(m)'
  BY <1>2, CallKept DEF IInv
<1> QED
  BY <1>2, <1>3

(* Uploads of the same bytes.                                              *)
LEMMA UploadBytesKept == ASSUME IInv, NEW b \in Blobs, UploadBytes(b) PROVE IInv'
<1>1. TypeOK'
  BY DEF IInv, TypeOK, UploadBytes, dbVars
<1>2. Grows
  BY DEF IInv, TypeOK, UploadBytes, dbVars, Grows, OpGrows, Staged, Operation
<1>3. WorldOK'
  BY <1>2, WorldKept DEF UploadBytes
<1> QED
  BY <1>1, <1>2, <1>3, NoCall DEF UploadBytes

(* An upload takes only a digest no import has recorded.                   *)
LEMMA RecordUploadKept == ASSUME IInv, NEW b \in Blobs, RecordUpload(b) PROVE IInv'
<1>1. TypeOK'
  BY DEF IInv, TypeOK, RecordUpload, storeVars
<1>2. Grows
  BY DEF IInv, TypeOK, RecordUpload, storeVars, Grows, OpGrows, Staged, Operation
<1>3. ~records'
  BY Zenon DEF IInv, WorldOK, RecordUpload
<1>4. WorldOK'
  BY <1>3 DEF IInv, WorldOK, RecordUpload, Reached, storeVars, Staged
<1> QED
  BY <1>1, <1>2, <1>4, NoCall DEF RecordUpload

(* An interruption.                                                        *)
LEMMA InterruptKept == ASSUME IInv, NEW r \in Runs, Interrupt(r) PROVE IInv'
<1>1. faults' \in 0..MaxFaults
  BY ImportConstants DEF IInv, TypeOK, Interrupt
<1> QED
  BY <1>1, FailKept DEF Interrupt

----------------------------------------------------------------------------
(* A ready plan: no call is at work and nothing is recorded.               *)
LEMMA InitOK == Init => IInv
<1> SUFFICES ASSUME Init PROVE IInv
  OBVIOUS
<1>1. TypeOK
  <2>1. PICK present \in SUBSET Uploaded :
          /\ insert = Blobs \ present
          /\ canonical = present
          /\ rows = [b \in Blobs |-> IF b \in present THEN "upload" ELSE None]
    BY DEF Init
  <2>2. /\ insert \subseteq Blobs /\ canonical \subseteq Blobs
        /\ rows \in [Blobs -> {None, "import", "upload"}]
    BY <2>1, ImportConstants
  <2>3. runs \in [Runs -> Run]
    <3>1. [pc: {"idle"}, key: Keys, checkpoint: {authorised}, todo: {{}}] \subseteq Run
      BY DEF Run, Checkpoints, authorised
    <3> QED
      BY <3>1 DEF Init
  <2>4. faults \in 0..MaxFaults
    BY ImportConstants DEF Init
  <2> QED
    BY <2>2, <2>3, <2>4, Zenon DEF Init, TypeOK
<1>2. CallsOK
  BY DEF Init, CallsOK, Active, Working
<1>3. WorldOK
  BY DEF Init, WorldOK, Reached
<1> QED
  BY <1>1, <1>2, <1>3 DEF IInv

(* A step of something else.                                               *)
LEMMA StutterOK == ASSUME IInv, UNCHANGED vars PROVE IInv'
<1>1. TypeOK'
  BY DEF IInv, TypeOK, vars, dbVars, storeVars
<1>2. Grows
  BY DEF IInv, TypeOK, vars, dbVars, storeVars, Grows, OpGrows, Staged, Operation
<1>3. WorldOK'
  BY <1>2, WorldKept DEF vars
<1> QED
  BY <1>1, <1>2, <1>3, NoCall DEF vars

(* The induction step.                                                     *)
LEMMA NextOK == IInv /\ [Next]_vars => IInv'
<1> SUFFICES ASSUME IInv, [Next]_vars PROVE IInv'
  OBVIOUS
<1>1. CASE UNCHANGED vars
  BY <1>1, StutterOK
<1>2. CASE \E r \in Runs : Step(r) \/ Interrupt(r)
  BY <1>2, BeginKept, RevalidateKept, StageBlobKept, VerifyStagedBlobKept,
     CommitBlobKept, InspectObjectsKept, CopyObjectKept, DeleteTemporaryKept,
     CommitMetadataKept, AppendAuditKept, AdvanceKept, InterruptKept DEF Step
<1>3. CASE \E b \in Blobs : UploadBytes(b) \/ RecordUpload(b)
  BY <1>3, UploadBytesKept, RecordUploadKept
<1> QED
  BY <1>1, <1>2, <1>3 DEF Next

(* The inductive invariant: at every step of every call what it relies on  *)
(* is durable, for any number of calls of execute, blobs, uploads and      *)
(* interruptions.                                                          *)
THEOREM ImportInvariance == Spec => []IInv
<1>1. Init => IInv
  BY InitOK
<1>2. IInv /\ [Next]_vars => IInv'
  BY NextOK
<1> QED
  BY <1>1, <1>2, PTL DEF Spec

(* The state of the operation, the objects and the calls stays well        *)
(* formed.                                                                 *)
THEOREM ImportTypeCorrect == Spec => []TypeOK
<1>1. IInv => TypeOK
  BY DEF IInv
<1> QED
  BY <1>1, ImportInvariance, PTL

(* A checkpoint of the operation row means that its effect is durable.     *)
THEOREM CheckpointsAreEffects == Spec => []CheckpointsMeanEffects
<1>1. IInv => CheckpointsMeanEffects
  BY Zenon DEF IInv, WorldOK, CheckpointsMeanEffects, Staged
<1> QED
  BY <1>1, ImportInvariance, PTL

(* A call that execute reports as complete has a complete import.          *)
THEOREM NoPartialSuccess == Spec => []ReportedIsComplete
<1>1. IInv => ReportedIsComplete
  <2> SUFFICES ASSUME IInv, NEW r \in Runs, runs[r].pc = "returned"
               PROVE  /\ op = [key |-> runs[r].key, checkpoint |-> completed]
                      /\ records /\ audited
                      /\ Blobs \subseteq canonical
                      /\ \A b \in Attached : rows[b] = "import"
    BY DEF ReportedIsComplete, At
  <2>1. CallOK(runs[r])
    BY DEF IInv, CallsOK, Active
  <2>2. op # None /\ op.key = runs[r].key /\ runs[r].checkpoint = 8
        /\ runs[r].checkpoint <= op.checkpoint
    BY <2>1 DEF CallOK, PcFits, Committing
  <2>3. op \in Operation
    BY <2>2 DEF IInv, TypeOK
  <2>4. op.checkpoint = 8
    BY <2>2, <2>3 DEF Operation, Checkpoints
  <2>5. op = [key |-> runs[r].key, checkpoint |-> completed]
    BY <2>2, <2>3, <2>4 DEF Operation, completed
  <2>6. Reached(audit_committed)
    BY <2>2, <2>4 DEF Reached, audit_committed
  <2>7. records /\ audited
    BY <2>6 DEF IInv, WorldOK
  <2> QED
    BY <2>5, <2>7 DEF IInv, WorldOK
<1> QED
  BY <1>1, ImportInvariance, PTL

(* advance is the only step that moves the operation, by one checkpoint.   *)
THEOREM CheckpointsAdvance == Spec => CheckpointNeverMovesBack
<1> DEFINE Moves == op # None =>
                      /\ op'.key = op.key
                      /\ op'.checkpoint \in {op.checkpoint, op.checkpoint + 1}
<1>1. IInv /\ [Next]_vars => [Moves]_vars
  <2> SUFFICES ASSUME IInv, Next, op # None PROVE Moves
    OBVIOUS
  <2>1. op \in Operation
    BY DEF IInv, TypeOK
  <2>2. CASE op' = op
    BY <2>2
  <2>3. ASSUME NEW r \in Runs, Advance(r) PROVE Moves
    BY <2>1, <2>3, SMTT(30) DEF Advance, Operation
  <2>4. op' = op \/ \E r \in Runs : Advance(r)
    BY Zenon DEF Next, Step, Begin, Revalidate, StageBlob, VerifyStagedBlob, CommitBlob,
       InspectObjects, CopyObject, DeleteTemporary, CommitMetadata, AppendAudit,
       Interrupt, UploadBytes, RecordUpload, dbVars
  <2> QED
    BY <2>2, <2>3, <2>4
<1> QED
  BY <1>1, ImportInvariance, PTL DEF Spec, CheckpointNeverMovesBack
=============================================================================
