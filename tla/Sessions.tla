------------------------------ MODULE Sessions ------------------------------
(***************************************************************************)
(* Signing in and out: OidcIdentityService and StandardsOidcProvider       *)
(* (packages/identity) over PostgresIdentityStore, the sessions            *)
(* AdminSessionGateway keeps in the memory of each API process, and the    *)
(* routes of apps/trust-api/src/server.ts that use them.                   *)
(*                                                                         *)
(* States, session ids and CSRF tokens are random: a login attempt is its  *)
(* own state, and a session is named by the call that created it, so a     *)
(* caller knows the token of a session exactly when it knows the session.  *)
(* A call of "mutation" presents the token or none.                        *)
(***************************************************************************)
EXTENDS Naturals, FiniteSets

CONSTANTS
    Processes,    \* API processes
    Logins,       \* login attempts
    Visits,        \* requests to the API
    LoginLife,    \* loginLifetimeMs
    SessionLife,  \* sessionLifetimeMs, lifetimeMs
    MaxInstant,
    MaxOutages

VARIABLES
    transactions, \* identity_login_transactions
    table,        \* identity_sessions
    memory,       \* the sessions map of each process
    discovery,    \* the promise of the provider's metadata each process holds
    visits,
    instant,
    outages

sessionVars == <<transactions, table, memory, discovery, visits, instant, outages>>

IdleVisit == [pc |-> "idle", at |-> {}, login |-> {}, session |-> {}, asks |-> {}]

SessionsInit ==
    /\ transactions = {}
    /\ table = {}
    /\ memory = [p \in Processes |-> {}]
    /\ discovery = [p \in Processes |-> "none"]
    /\ visits = [c \in Visits |-> IdleVisit]
    /\ instant = 0
    /\ outages = 0

VisitAt(c, pc) == visits[c].pc = pc
MoveOn(c, pc) == visits' = [visits EXCEPT ![c].pc = pc]
Process(c) == CHOOSE p \in Processes : p \in visits[c].at
Created == {t.id : t \in table} \cup UNION {{s.id : s \in memory[p]} : p \in Processes}

SessionTick == /\ instant < MaxInstant
        /\ instant' = instant + 1
        /\ UNCHANGED <<transactions, table, memory, discovery, visits, outages>>

-----------------------------------------------------------------------------
(* GET /v1/auth/oidc/start: beginLogin saves the login before it asks for  *)
(* the provider's endpoint.                                                *)
BeginLogin(c) ==
    /\ VisitAt(c, "idle")
    /\ \E p \in Processes, l \in Logins :
         /\ \A t \in transactions : t.login # l
         /\ \A d \in Visits : l \notin visits[d].login
         /\ transactions' = transactions \cup {[login |-> l, expires |-> instant + LoginLife]}
         /\ visits' = [visits EXCEPT ![c] =
                [IdleVisit EXCEPT !.pc = "discover", !.at = {p}, !.login = {l}]]
    /\ UNCHANGED <<table, memory, discovery, instant, outages>>

(* metadata: the promise is kept, a rejected one too.                      *)
Discover(c) ==
    /\ VisitAt(c, "discover") \/ VisitAt(c, "exchange")
    /\ discovery[Process(c)] = "none"
    /\ \/ discovery' = [discovery EXCEPT ![Process(c)] = "known"] /\ UNCHANGED outages
       \/ /\ outages < MaxOutages
          /\ outages' = outages + 1
          /\ discovery' = [discovery EXCEPT ![Process(c)] = "failed"]
    /\ UNCHANGED <<transactions, table, memory, visits, instant>>

SendToProvider(c) ==
    /\ VisitAt(c, "discover")
    /\ discovery[Process(c)] # "none"
    /\ MoveOn(c, IF discovery[Process(c)] = "known" THEN "redirected" ELSE "failed")
    /\ UNCHANGED <<transactions, table, memory, discovery, instant, outages>>

(* GET /v1/auth/oidc/callback: completeLogin takes the login out of the    *)
(* table, and only then looks at the browser binding and the expiry.       *)
ConsumeLogin(c) ==
    /\ VisitAt(c, "idle")
    /\ \E p \in Processes, l \in Logins, sameBrowser \in BOOLEAN :
         LET found == {t \in transactions : t.login = l}
             valid == sameBrowser /\ \E t \in found : t.expires > instant
         IN  /\ \E d \in Visits : visits[d].login = {l}
             /\ transactions' = transactions \ found
             /\ visits' = [visits EXCEPT ![c] =
                    [IdleVisit EXCEPT !.pc = IF valid THEN "exchange" ELSE "refused",
                                     !.at = {p}, !.login = {l}]]
    /\ UNCHANGED <<table, memory, discovery, instant, outages>>

(* exchangeCode, the nonce and mapActor, which may all refuse.             *)
Exchange(c) ==
    /\ VisitAt(c, "exchange")
    /\ discovery[Process(c)] # "none"
    /\ \/ MoveOn(c, "refused")
       \/ discovery[Process(c)] = "known" /\ MoveOn(c, "create")
    /\ UNCHANGED <<transactions, table, memory, discovery, instant, outages>>

CreateOidcSession(c) ==
    /\ VisitAt(c, "create")
    /\ table' = table \cup {[id |-> c, login |-> visits[c].login,
                             expires |-> instant + SessionLife, revoked |-> FALSE]}
    /\ visits' = [visits EXCEPT ![c].pc = "signedIn", ![c].session = {c}]
    /\ UNCHANGED <<transactions, memory, discovery, instant, outages>>

Live(sessions) == {s \in sessions : s.expires > instant}

(* POST /v1/auth/session: a session of this process for the bootstrap      *)
(* credential.                                                             *)
CreateSession(c) ==
    /\ VisitAt(c, "idle")
    /\ \E p \in Processes :
         /\ memory' = [memory EXCEPT ![p] =
                           Live(@) \cup {[id |-> c, expires |-> instant + SessionLife]}]
         /\ visits' = [visits EXCEPT ![c] =
                [IdleVisit EXCEPT !.pc = "signedIn", !.at = {p}, !.session = {c}]]
    /\ UNCHANGED <<transactions, table, discovery, instant, outages>>

-----------------------------------------------------------------------------
(* A mutation needs the session's CSRF token.                              *)
Proven(asks) == "mutation" \in asks => "token" \in asks

(* authenticateSession: the memory of the process, after it is pruned,     *)
(* then the table.  A session of another process's memory is unknown.      *)
Authenticate(c) ==
    /\ VisitAt(c, "idle")
    /\ \E p \in Processes, s \in Created, asks \in SUBSET {"mutation", "token"} :
         LET here == s \in {m.id : m \in Live(memory[p])}
         IN  /\ memory' = [memory EXCEPT ![p] = Live(@)]
             /\ visits' = [visits EXCEPT ![c] =
                    [IdleVisit EXCEPT !.pc = IF here /\ Proven(asks) THEN "known" ELSE "look",
                                     !.at = {p}, !.session = {s}, !.asks = asks]]
    /\ UNCHANGED <<transactions, table, discovery, instant, outages>>

(* getSession: the row, neither revoked nor expired.                       *)
LookUpSession(c) ==
    /\ VisitAt(c, "look")
    /\ LET rows == {t \in Live(table) : visits[c].session = {t.id} /\ ~ t.revoked}
       IN  MoveOn(c, IF rows # {} /\ Proven(visits[c].asks) THEN "known" ELSE "refused")
    /\ UNCHANGED <<transactions, table, memory, discovery, instant, outages>>

(* A request that is let in is served, or is DELETE /v1/auth/session.      *)
Serve(c) ==
    /\ VisitAt(c, "known")
    /\ MoveOn(c, "served")
    /\ UNCHANGED <<transactions, table, memory, discovery, instant, outages>>

(* Mutant: signing out of a session in memory leaves the table alone.      *)
RevokeHere(c) ==
    /\ VisitAt(c, "known")
    /\ visits[c].asks = {"mutation", "token"}
    /\ memory' = [memory EXCEPT ![Process(c)] = {m \in @ : visits[c].session # {m.id}}]
    /\ MoveOn(c, "signedOut")
    /\ UNCHANGED <<transactions, table, discovery, instant, outages>>

Revoke(c) ==
    /\ VisitAt(c, "known")
    /\ visits[c].asks = {"mutation", "token"}
    /\ memory' = [memory EXCEPT ![Process(c)] = {m \in @ : visits[c].session # {m.id}}]
    /\ MoveOn(c, "revoke")
    /\ UNCHANGED <<transactions, table, discovery, instant, outages>>

RevokeRow(c) ==
    /\ VisitAt(c, "revoke")
    /\ table' = {IF visits[c].session = {t.id} THEN [t EXCEPT !.revoked = TRUE] ELSE t : t \in table}
    /\ MoveOn(c, "signedOut")
    /\ UNCHANGED <<transactions, memory, discovery, instant, outages>>

-----------------------------------------------------------------------------
Ended == {"idle", "redirected", "signedIn", "served", "signedOut", "refused", "failed"}

VisitFails(c) ==
    /\ visits[c].pc \notin Ended
    /\ outages < MaxOutages
    /\ outages' = outages + 1
    /\ MoveOn(c, "failed")
    /\ UNCHANGED <<transactions, table, memory, discovery, instant>>

(* A restart forgets the sessions in memory and the provider's metadata.   *)
Restart(p) ==
    /\ outages < MaxOutages
    /\ outages' = outages + 1
    /\ memory' = [memory EXCEPT ![p] = {}]
    /\ discovery' = [discovery EXCEPT ![p] = "none"]
    /\ visits' = [c \in Visits |-> IF visits[c].pc \notin Ended /\ p \in visits[c].at
                                 THEN [visits[c] EXCEPT !.pc = "failed"] ELSE visits[c]]
    /\ UNCHANGED <<transactions, table, instant>>

Work(c) ==
    \/ Discover(c) \/ SendToProvider(c) \/ Exchange(c) \/ CreateOidcSession(c)
    \/ LookUpSession(c) \/ Serve(c) \/ Revoke(c) \/ RevokeRow(c)

SessionsNext ==
    \/ SessionTick
    \/ \E c \in Visits : \/ BeginLogin(c) \/ ConsumeLogin(c) \/ CreateSession(c)
                        \/ Authenticate(c) \/ Work(c) \/ VisitFails(c)
    \/ \E p \in Processes : Restart(p)

SessionsSpec == SessionsInit /\ [][SessionsNext]_sessionVars

-----------------------------------------------------------------------------
(* Once signing out has been answered, no process lets the session in any  *)
(* more: not from its memory, and not from the table.                      *)
SignedOutIsRefused ==
    \A c \in Visits : VisitAt(c, "signedOut") =>
        /\ \A p \in Processes : \A m \in memory[p] : visits[c].session # {m.id}
        /\ \A t \in table : visits[c].session = {t.id} => t.revoked
=============================================================================
