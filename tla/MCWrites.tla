------------------------------ MODULE MCWrites ------------------------------
(***************************************************************************)
(* The writes of the catalogue, as one sum: a behaviour is one of          *)
(* ObjectIngest, OutboxWorker, ResourceHistory or ImportConsole, chosen at *)
(* the start, and the others do not move.                                  *)
(***************************************************************************)
EXTENDS ObjectIngest, OutboxWorker, ResourceHistory, TLC

CONSTANTS platform, b1, k1, k2, r1, r2, bytes, e1, e2, one, two

VARIABLES
    part,       \* the component this behaviour is of
    view, reading, flights, strays, provider, ways, used

page == <<view, reading, flights, strays, provider, ways, used>>

(* Every key is always routed to one storage: k2's to a binding.           *)
StableRoutes == [k \in Keys |-> IF k = k2 THEN {b1} ELSE {platform}]

(* Two workers; the loop of the first has two runs in progress at once.    *)
TwoLoops == {<<one, 1>>, <<two, 1>>, <<one, 2>>}
OwnerOfRun == [r \in TwoLoops |-> r[1]]

(* Of the two events one can be handled and one never can.                 *)
OneOfEach == e1 :> "unattached" @@ e2 :> "lost"

(* What the proofs about the parts assume of their constants.              *)
ASSUME PartConstants == OutboxConstants /\ HistoryConstants

(* Two archives that give one record different values, and one that fails  *)
(* its verification; a rejected archive is of another workspace.           *)
Archive(status, home, value) ==
    [status |-> status, home |-> home, records |-> "resource" :> value]

Console == INSTANCE ImportConsole WITH
    Content <- "first" :> Archive("verified", TRUE, 1)
                 @@ "second" :> Archive("verified", TRUE, 2)
                 @@ "broken" :> Archive("rejected", FALSE, 1),
    MaxChoices <- 2, MaxRuns <- 5, MaxMixedRuns <- 2, MaxFlights <- 2, MaxAsides <- 1,
    MaxOthers <- 2

MCInit ==
    /\ part \in {"ingest", "outbox", "history", "console"}
    /\ Init
    /\ OutboxInit /\ situation = OneOfEach
    /\ HistoryInit
    /\ Console!Init

MCNext ==
    \/ part = "ingest" /\ Next /\ UNCHANGED <<part, outboxVars, historyVars, page>>
    \/ part = "outbox" /\ OutboxNext /\ UNCHANGED <<part, vars, historyVars, page>>
    \/ part = "history" /\ HistoryNext /\ UNCHANGED <<part, vars, outboxVars, page>>
    \/ part = "console" /\ Console!Next /\ UNCHANGED <<part, vars, outboxVars, historyVars>>

MCSpec == MCInit /\ [][MCNext]_<<part, vars, outboxVars, historyVars, page>>

Symmetry == Permutations({r1, r2})

-----------------------------------------------------------------------------
(* A plan the portability page offers is of the file it names and replaces *)
(* no record, but for the named ways the page can mix two candidates and   *)
(* others can commit records it does not know of (PortabilityView, and     *)
(* createPlan and commitMetadata of the provider).                         *)
OfferedPlanIsOfNamedFile == Console!OfferedPlanIsOfNamedFile
=============================================================================
