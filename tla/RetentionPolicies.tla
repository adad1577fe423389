-------------------------- MODULE RetentionPolicies --------------------------
(***************************************************************************)
(* PostgresRetentionPolicyRepository.  A write is a transaction that locks *)
(* its idempotency key, looks for an earlier request under the key, writes *)
(* the row and records the request.  An update names the instant of the    *)
(* version its caller saw.  Instants are read from the clock of the API    *)
(* process in milliseconds, so two writes may carry the same one.          *)
(***************************************************************************)
EXTENDS Naturals, Sequences, FiniteSets

CONSTANTS
    MaxPolicies,    \* bound of the keys under which policies are created
    MaxKeys,        \* bound of the idempotency keys
    Attempts,          \* requests in flight
    MaxMoment         \* bound of the clock

VARIABLES
    policies,   \* for each policy the versions its row has had
    requests,   \* retention_policy_requests: the keys with their fingerprints
    wants,      \* what the client asks for under each key
    attempts,      \* the requests in flight
    moment         \* the clock of the processes

retentionVars == <<policies, requests, wants, attempts, moment>>

(* A client draws a key for each thing it wants to do.                     *)
Keys == 1..MaxKeys
CreateKeys == 1..MaxPolicies

NoAttempt == [pc |-> "idle", key |-> {}, asked |-> {}, at |-> 0]

RetentionInit ==
    /\ policies = <<>>
    /\ requests = {}
    /\ wants = [k \in Keys |-> {}]
    /\ attempts = [c \in Attempts |-> NoAttempt]
    /\ moment = 0

MomentPasses == moment < MaxMoment /\ moment' = moment + 1 /\ UNCHANGED <<policies, requests, wants, attempts>>

Row(p) == policies[p][Len(policies[p])]

(* A client decides to create a policy, or to update what it reads; it may *)
(* reuse the key of an earlier decision.                                   *)
WantCreate(k) ==
    /\ k \in CreateKeys
    /\ wants' = [wants EXCEPT ![k] = {[op |-> "create", policy |-> 0, seen |-> 0, expected |-> 0]}]
    /\ UNCHANGED <<policies, requests, attempts, moment>>

WantUpdate(k) ==
    /\ \E p \in DOMAIN policies :
          wants' = [wants EXCEPT ![k] = {[op |-> "update", policy |-> p, seen |-> Len(policies[p]),
                                          expected |-> Row(p).at]}]
    /\ UNCHANGED <<policies, requests, attempts, moment>>

(* The request, or its repetition.                                         *)
SendRequest(c, k) ==
    /\ attempts[c].pc = "idle"
    /\ wants[k] # {}
    /\ attempts' = [attempts EXCEPT ![c] = [NoAttempt EXCEPT !.pc = "begin", !.key = {k}, !.asked = wants[k],
                                                  !.at = moment]]
    /\ UNCHANGED <<policies, requests, wants, moment>>

(* What the fingerprint tells apart: not what the client saw, but the      *)
(* instant it names.                                                       *)
Fingerprint(asked) == {[op |-> a.op, policy |-> a.policy, expected |-> a.expected] : a \in asked}

InTransaction == {"apply", "commit"}
Holds(c, k) == attempts[c].pc \in InTransaction /\ attempts[c].key = {k}

(* The lock of the key, and the request recorded under it: the call ends   *)
(* with the recorded result, or refused when the fingerprint is another.   *)
Lock(c) ==
    /\ attempts[c].pc = "begin"
    /\ \A k \in attempts[c].key : \A d \in Attempts : ~ Holds(d, k)
    /\ attempts' = [attempts EXCEPT ![c] = IF \E r \in requests : {r.key} = attempts[c].key
                                     THEN NoAttempt ELSE [@ EXCEPT !.pc = "apply"]]
    /\ UNCHANGED <<policies, requests, wants, moment>>

(* Mutant: the update finds its row by identity alone.                     *)
MatchesIdentity(p, expected) == TRUE

Matches(p, expected) == Row(p).at = expected

RowFree(c, p) == \A d \in Attempts \ {c} : attempts[d].pc = "commit" => \A a \in attempts[d].asked : a.policy # p

(* create: the INSERT makes a row of its own.                              *)
InsertPolicy(c) ==
    /\ attempts[c].pc = "apply"
    /\ \E a \in attempts[c].asked : a.op = "create"
    /\ attempts' = [attempts EXCEPT ![c].pc = "commit"]
    /\ UNCHANGED <<policies, requests, wants, moment>>

(* update: the UPDATE waits for the lock of the row and compares the       *)
(* instant with the committed row.                                         *)
UpdatePolicy(c) ==
    /\ attempts[c].pc = "apply"
    /\ \E a \in attempts[c].asked :
          /\ a.op = "update"
          /\ RowFree(c, a.policy)
          /\ attempts' = [attempts EXCEPT ![c] = IF Matches(a.policy, a.expected)
                                           THEN [@ EXCEPT !.pc = "commit"] ELSE NoAttempt]
    /\ UNCHANGED <<policies, requests, wants, moment>>

(* The request is recorded and the transaction commits.                    *)
CommitPolicy(c) ==
    /\ attempts[c].pc = "commit"
    /\ \E a \in attempts[c].asked, k \in attempts[c].key :
          LET policy == IF a.op = "create" THEN Len(policies) + 1 ELSE a.policy
              row == [at |-> attempts[c].at, key |-> k, seen |-> a.seen]
          IN  /\ policies' = IF a.op = "create" THEN Append(policies, <<row>>)
                             ELSE [policies EXCEPT ![policy] = Append(@, row)]
              /\ requests' = requests \cup {[key |-> k, fingerprint |-> Fingerprint({a})]}
              /\ attempts' = [attempts EXCEPT ![c] = NoAttempt]
    /\ UNCHANGED <<wants, moment>>

(* The connection is lost or the process stops: the transaction rolls      *)
(* back, and the client may repeat the request.                            *)
Crash(c) ==
    /\ attempts[c].pc # "idle"
    /\ attempts' = [attempts EXCEPT ![c] = NoAttempt]
    /\ UNCHANGED <<policies, requests, wants, moment>>

RetentionNext ==
    \/ MomentPasses
    \/ \E k \in Keys : WantCreate(k) \/ WantUpdate(k)
    \/ \E c \in Attempts : \/ \E k \in Keys : SendRequest(c, k)
                        \/ Lock(c) \/ InsertPolicy(c) \/ UpdatePolicy(c) \/ CommitPolicy(c) \/ Crash(c)

RetentionSpec == RetentionInit /\ [][RetentionNext]_retentionVars

-----------------------------------------------------------------------------
KeysAppliedOnce ==
    \A p, q \in DOMAIN policies : \A i \in DOMAIN policies[p], j \in DOMAIN policies[q] :
        policies[p][i].key = policies[q][j].key => p = q /\ i = j

(* However requests overlap, are repeated or lose their connection, an     *)
(* update that is kept replaces the version its caller saw, or one that    *)
(* was written at that same instant; and a key is applied once.            *)
UpdateReplacesWhatWasSeen ==
    /\ \A p \in DOMAIN policies : \A i \in 2 .. Len(policies[p]) :
          LET seen == policies[p][i].seen
          IN  \A j \in seen .. i - 1 : policies[p][j].at = policies[p][seen].at
    /\ KeysAppliedOnce
=============================================================================
