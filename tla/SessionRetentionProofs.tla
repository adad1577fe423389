----------------------- MODULE SessionRetentionProofs -----------------------
(***************************************************************************)
(* Proofs about Sessions and, below the line, about RetentionPolicies.     *)
(***************************************************************************)
EXTENDS Sessions, RetentionPolicies, TLAPS

(***************************************************************************)
(* Sessions.  A session of memory or of the table is named by the visit    *)
(* that created it, which is over; one of the bootstrap credential has no  *)
(* login and lives in the process that created it.                         *)
(***************************************************************************)
Visit == [pc: Ended \cup {"discover", "exchange", "create", "look", "known", "revoke"},
          at: SUBSET Processes, login: SUBSET Logins, session: SUBSET Visits,
          asks: SUBSET {"mutation", "token"}]

SessionsTypeOK ==
    /\ visits \in [Visits -> Visit]
    /\ DOMAIN memory = Processes
    /\ \A p \in Processes : \A m \in memory[p] : m.id \in Visits
    /\ \A t \in table : t.id \in Visits

(* A visit that presents a session, of a visit that signed in; once it is  *)
(* let in, a session without a login is one of the visit's own process.    *)
PresentsSession(c) ==
    \E s \in Visits, p \in Processes :
        /\ visits[c].session = {s} /\ visits[c].at = {p}
        /\ visits[s].pc = "signedIn"
        /\ visits[c].pc # "look" /\ visits[s].login = {} => visits[s].at = {p}

VisitInv(c) ==
    /\ visits[c].pc \in {"exchange", "create"} => visits[c].login # {}
    /\ visits[c].pc \in {"look", "known", "revoke", "signedOut"} => PresentsSession(c)

OutOfMemory(c) == \A p \in Processes : \A m \in memory[p] : visits[c].session # {m.id}

RevokedInTable(c) == \A t \in table : visits[c].session = {t.id} => t.revoked

SessionsInv ==
    /\ SessionsTypeOK
    /\ \A p \in Processes : \A m \in memory[p] :
         /\ visits[m.id].pc = "signedIn"
         /\ visits[m.id].login = {} /\ visits[m.id].at = {p}
    /\ \A t \in table : visits[t.id].pc = "signedIn" /\ visits[t.id].login # {}
    /\ \A c \in Visits :
         /\ VisitInv(c)
         /\ visits[c].pc \in {"revoke", "signedOut"} => OutOfMemory(c)
         /\ visits[c].pc = "signedOut" => RevokedInTable(c)

LEMMA SessionsInitHolds == SessionsInit => SessionsInv
BY DEF SessionsInit, SessionsInv, SessionsTypeOK, Visit, Ended, IdleVisit, VisitInv

(* What keeps the invariant: who has signed in stays so; a session appears *)
(* only with the visit that signs in by it; a row stays revoked.           *)
LEMMA SessionsStep ==
    ASSUME SessionsInv, SessionsTypeOK',
           \A s \in Visits : visits[s].pc = "signedIn" => visits'[s] = visits[s],
           \A p \in Processes : \A m \in memory'[p] :
               \/ m \in memory[p]
               \/ /\ visits[m.id].pc # "signedIn" /\ visits'[m.id].pc = "signedIn"
                  /\ visits'[m.id].login = {} /\ visits'[m.id].at = {p},
           \A t \in table' :
               \/ \E u \in table : u.id = t.id /\ (u.revoked => t.revoked)
               \/ /\ visits[t.id].pc # "signedIn" /\ visits'[t.id].pc = "signedIn"
                  /\ visits'[t.id].login # {},
           \A c \in Visits :
               \/ visits'[c] = visits[c]
               \/ /\ VisitInv(c)'
                  /\ visits'[c].pc \in {"revoke", "signedOut"} => OutOfMemory(c)'
                  /\ visits'[c].pc = "signedOut" => RevokedInTable(c)'
    PROVE  SessionsInv'
<1>1. ASSUME NEW p \in Processes, NEW m \in memory'[p]
      PROVE  /\ visits'[m.id].pc = "signedIn"
             /\ visits'[m.id].login = {} /\ visits'[m.id].at = {p}
  BY DEF SessionsInv, SessionsTypeOK
<1>2. ASSUME NEW t \in table'
      PROVE  visits'[t.id].pc = "signedIn" /\ visits'[t.id].login # {}
  <2>1. CASE \E u \in table : u.id = t.id
    BY <2>1 DEF SessionsInv, SessionsTypeOK
  <2>2. QED BY <2>1
<1>3. ASSUME NEW c \in Visits, visits'[c] = visits[c]
      PROVE  /\ VisitInv(c)'
             /\ visits'[c].pc \in {"revoke", "signedOut"} => OutOfMemory(c)'
             /\ visits'[c].pc = "signedOut" => RevokedInTable(c)'
  <2>1. VisitInv(c)
    BY DEF SessionsInv
  <2>2. PresentsSession(c) => PresentsSession(c)'
    BY <1>3 DEF PresentsSession
  <2>3. VisitInv(c)'
    BY <1>3, <2>1, <2>2 DEF VisitInv
  <2>4. ASSUME visits[c].pc \in {"revoke", "signedOut"}
        PROVE  OutOfMemory(c)'
    <3>1. PICK s \in Visits : visits[c].session = {s} /\ visits[s].pc = "signedIn"
      BY <2>1, <2>4 DEF VisitInv, PresentsSession
    <3>2. OutOfMemory(c)
      BY <2>4 DEF SessionsInv
    <3>3. QED BY <1>3, <3>1, <3>2, SMTT(30) DEF OutOfMemory
  <2>5. ASSUME visits[c].pc = "signedOut"
        PROVE  RevokedInTable(c)'
    <3>1. PICK s \in Visits : visits[c].session = {s} /\ visits[s].pc = "signedIn"
      BY <2>1, <2>5 DEF VisitInv, PresentsSession
    <3>2. RevokedInTable(c)
      BY <2>5 DEF SessionsInv
    <3>3. ASSUME NEW t \in table', visits'[c].session = {t.id} PROVE t.revoked
      <4>1. PICK u \in table : u.id = t.id /\ (u.revoked => t.revoked)
        BY <1>3, <3>1, <3>3
      <4>2. u.revoked
        BY <1>3, <3>2, <3>3, <4>1 DEF RevokedInTable
      <4>3. QED BY <4>1, <4>2
    <3>4. QED BY <3>3 DEF RevokedInTable
  <2>6. QED BY <1>3, <2>3, <2>4, <2>5
<1>4. QED BY <1>1, <1>2, <1>3 DEF SessionsInv

(* A step of one visit that signs nobody in or out. *)
LEMMA VisitStep ==
    ASSUME SessionsInv, NEW c \in Visits, NEW x \in Visit,
           visits' = [visits EXCEPT ![c] = x], visits[c].pc # "signedIn",
           DOMAIN memory' = Processes, \A p \in Processes : memory'[p] \subseteq memory[p],
           UNCHANGED table, x.pc \notin {"revoke", "signedOut"}, VisitInv(c)'
    PROVE  SessionsInv'
<1>1. SessionsTypeOK'
  BY DEF SessionsInv, SessionsTypeOK
<1>2. visits'[c] = x /\ \A d \in Visits \ {c} : visits'[d] = visits[d]
  BY DEF SessionsInv, SessionsTypeOK
<1>3. QED BY <1>1, <1>2, SessionsStep

LEMMA ProcessOfVisit ==
    ASSUME NEW c \in Visits, NEW p \in Processes, visits[c].at = {p}
    PROVE  Process(c) = p
BY DEF Process

LEMMA BeginLoginStep ==
    ASSUME SessionsInv, NEW c \in Visits, BeginLogin(c)
    PROVE  SessionsInv'
<1>1. PICK p \in Processes, l \in Logins :
          visits' = [visits EXCEPT ![c] =
                [IdleVisit EXCEPT !.pc = "discover", !.at = {p}, !.login = {l}]]
  BY Zenon DEF BeginLogin
<1> DEFINE x == [IdleVisit EXCEPT !.pc = "discover", !.at = {p}, !.login = {l}]
<1>2. x \in Visit /\ x.pc = "discover"
  BY Zenon DEF Visit, IdleVisit
<1> HIDE DEF x
<1>3. visits' = [visits EXCEPT ![c] = x] /\ visits'[c] = x /\ visits[c].pc # "signedIn"
  <2>1. visits' = [visits EXCEPT ![c] = x]
    BY <1>1, Zenon DEF x
  <2>2. visits \in [Visits -> Visit]
    BY DEF SessionsInv, SessionsTypeOK
  <2>3. visits[c].pc # "signedIn"
    BY DEF BeginLogin, VisitAt
  <2>4. QED BY <2>1, <2>2, <2>3
<1>4. VisitInv(c)'
  BY <1>2, <1>3 DEF VisitInv
<1>5. QED BY <1>2, <1>3, <1>4, VisitStep, Zenon DEF BeginLogin, SessionsInv, SessionsTypeOK

LEMMA ConsumeLoginStep ==
    ASSUME SessionsInv, NEW c \in Visits, ConsumeLogin(c)
    PROVE  SessionsInv'
<1>1. PICK p \in Processes, l \in Logins, pc \in {"exchange", "refused"} :
          visits' = [visits EXCEPT ![c] =
                [IdleVisit EXCEPT !.pc = pc, !.at = {p}, !.login = {l}]]
  BY Zenon DEF ConsumeLogin
<1> DEFINE x == [IdleVisit EXCEPT !.pc = pc, !.at = {p}, !.login = {l}]
<1>2. x \in Visit /\ x.pc = pc /\ x.login = {l}
  BY Zenon DEF Visit, IdleVisit, Ended
<1> HIDE DEF x
<1>3. visits' = [visits EXCEPT ![c] = x] /\ visits'[c] = x /\ visits[c].pc # "signedIn"
  BY <1>1, Zenon DEF x, ConsumeLogin, VisitAt, SessionsInv, SessionsTypeOK
<1>4. VisitInv(c)'
  BY <1>2, <1>3 DEF VisitInv
<1>5. QED BY <1>2, <1>3, <1>4, VisitStep, Zenon DEF ConsumeLogin, SessionsInv, SessionsTypeOK

LEMMA AuthenticateStep ==
    ASSUME SessionsInv, NEW c \in Visits, Authenticate(c)
    PROVE  SessionsInv'
<1> DEFINE Pc(p, s, asks) == IF s \in {m.id : m \in Live(memory[p])} /\ Proven(asks)
                             THEN "known" ELSE "look"
<1>0. PICK p \in Processes, s \in Created, asks \in SUBSET {"mutation", "token"} :
          /\ memory' = [memory EXCEPT ![p] = Live(@)]
          /\ visits' = [visits EXCEPT ![c] =
                [IdleVisit EXCEPT !.pc = Pc(p, s, asks),
                                  !.at = {p}, !.session = {s}, !.asks = asks]]
  BY Zenon DEF Authenticate
<1> DEFINE pc == Pc(p, s, asks)
<1>1. /\ pc \in {"known", "look"}
      /\ pc = "known" => s \in {m.id : m \in Live(memory[p])}
      /\ memory' = [memory EXCEPT ![p] = Live(@)]
      /\ visits' = [visits EXCEPT ![c] =
            [IdleVisit EXCEPT !.pc = pc, !.at = {p}, !.session = {s}, !.asks = asks]]
  BY <1>0
<1> HIDE DEF pc
<1>2. s \in Visits /\ visits[s].pc = "signedIn" /\ visits[c].pc = "idle"
  BY DEF Created, Authenticate, VisitAt, SessionsInv, SessionsTypeOK
<1> DEFINE x == [IdleVisit EXCEPT !.pc = pc, !.at = {p}, !.session = {s}, !.asks = asks]
<1>3. x \in Visit /\ x.pc = pc /\ x.session = {s} /\ x.at = {p}
  <2>1. IdleVisit \in Visit
    BY DEF Visit, IdleVisit, Ended
  <2>2. QED BY <1>1, <1>2, <2>1, Zenon DEF Visit
<1> HIDE DEF x
<1>4. /\ visits' = [visits EXCEPT ![c] = x] /\ visits'[c] = x /\ visits'[s] = visits[s]
      /\ DOMAIN memory' = Processes /\ \A q \in Processes : memory'[q] \subseteq memory[q]
  BY <1>1, <1>2 DEF x, Live, SessionsInv, SessionsTypeOK
<1>5. pc = "known" => visits[s].at = {p}
  BY <1>1 DEF Live, SessionsInv
<1>6. VisitInv(c)'
  BY <1>1, <1>2, <1>3, <1>4, <1>5 DEF VisitInv, PresentsSession
<1>7. QED BY <1>1, <1>2, <1>3, <1>4, <1>6, VisitStep, Zenon DEF Authenticate

(* A step that only moves the visit on. *)
LEMMA MoveOnStep ==
    ASSUME SessionsInv, NEW c \in Visits, NEW pc,
           pc \in {"redirected", "failed", "refused", "create", "known", "served"},
           visits[c].pc # "signedIn", MoveOn(c, pc), UNCHANGED <<table, memory>>,
           pc = "create" => visits[c].login # {},
           pc = "known" => /\ visits[c].pc = "look"
                           /\ \A s \in Visits : visits[c].session = {s} => visits[s].login # {}
    PROVE  SessionsInv'
<1> DEFINE x == [visits[c] EXCEPT !.pc = pc]
<1>1. visits[c] \in Visit
  BY DEF SessionsInv, SessionsTypeOK
<1>2. /\ x \in Visit /\ x.pc = pc /\ x.login = visits[c].login
      /\ x.session = visits[c].session /\ x.at = visits[c].at
  BY <1>1 DEF Visit, Ended
<1>3. visits' = [visits EXCEPT ![c] = x]
  BY DEF MoveOn, SessionsInv, SessionsTypeOK
<1> HIDE DEF x
<1>4. visits'[c] = x /\ \A d \in Visits \ {c} : visits'[d] = visits[d]
  BY <1>3 DEF SessionsInv, SessionsTypeOK
<1>5. VisitInv(c)'
  <2>1. CASE pc = "known"
    <3>1. PICK s \in Visits, p \in Processes :
              visits[c].session = {s} /\ visits[c].at = {p} /\ visits[s].pc = "signedIn"
      BY <2>1 DEF SessionsInv, VisitInv, PresentsSession
    <3>2. visits'[s] = visits[s] /\ visits[s].login # {}
      BY <1>4, <2>1, <3>1
    <3>3. PresentsSession(c)'
      BY <1>2, <1>4, <3>1, <3>2 DEF PresentsSession
    <3>4. QED BY <1>2, <1>4, <2>1, <3>3 DEF VisitInv
  <2>2. CASE pc # "known"
    BY <1>2, <1>4, <2>2 DEF VisitInv
  <2>3. QED BY <2>1, <2>2
<1>6. QED BY <1>2, <1>3, <1>5, VisitStep, Zenon DEF SessionsInv, SessionsTypeOK

LEMMA CreateOidcSessionStep ==
    ASSUME SessionsInv, NEW c \in Visits, CreateOidcSession(c)
    PROVE  SessionsInv'
<1> DEFINE x == [visits[c] EXCEPT !.pc = "signedIn", !.session = {c}]
<1>1. visits[c] \in Visit /\ visits[c].pc = "create" /\ visits[c].login # {}
  BY DEF CreateOidcSession, VisitAt, SessionsInv, SessionsTypeOK, VisitInv
<1>2. x \in Visit /\ x.pc = "signedIn" /\ x.login = visits[c].login
  BY <1>1, Zenon DEF Visit, Ended
<1>3. visits' = [visits EXCEPT ![c] = x] /\ UNCHANGED memory
  BY Zenon DEF CreateOidcSession, SessionsInv, SessionsTypeOK
<1> HIDE DEF x
<1>4. visits'[c] = x /\ \A d \in Visits \ {c} : visits'[d] = visits[d]
  BY <1>3 DEF SessionsInv, SessionsTypeOK
<1>5. \A t \in table' : t \in table \/ t.id = c
  BY DEF CreateOidcSession
<1>6. SessionsTypeOK'
  BY <1>2, <1>3, <1>5 DEF SessionsInv, SessionsTypeOK
<1>7. VisitInv(c)'
  BY <1>2, <1>4 DEF VisitInv
<1>8. QED BY <1>1, <1>2, <1>3, <1>4, <1>5, <1>6, <1>7, SessionsStep

LEMMA CreateSessionStep ==
    ASSUME SessionsInv, NEW c \in Visits, CreateSession(c)
    PROVE  SessionsInv'
<1>1. PICK p \in Processes :
         /\ memory' = [memory EXCEPT ![p] =
                           Live(@) \cup {[id |-> c, expires |-> instant + SessionLife]}]
         /\ visits' = [visits EXCEPT ![c] =
                [IdleVisit EXCEPT !.pc = "signedIn", !.at = {p}, !.session = {c}]]
  BY Zenon DEF CreateSession
<1> DEFINE x == [IdleVisit EXCEPT !.pc = "signedIn", !.at = {p}, !.session = {c}]
<1>2. x \in Visit /\ x.pc = "signedIn" /\ x.login = {} /\ x.at = {p}
  BY Zenon DEF Visit, Ended, IdleVisit
<1> HIDE DEF x
<1>3. visits'[c] = x /\ \A d \in Visits \ {c} : visits'[d] = visits[d]
  BY <1>1 DEF x, SessionsInv, SessionsTypeOK
<1>4. \A q \in Processes : \A m \in memory'[q] : m \in memory[q] \/ (q = p /\ m.id = c)
  BY <1>1 DEF Live, SessionsInv, SessionsTypeOK
<1>5. visits[c].pc = "idle" /\ UNCHANGED table
  BY DEF CreateSession, VisitAt
<1>6. SessionsTypeOK'
  BY <1>1, <1>2, <1>4, <1>5 DEF x, SessionsInv, SessionsTypeOK
<1>7. VisitInv(c)'
  BY <1>2, <1>3 DEF VisitInv
<1>8. QED BY <1>2, <1>3, <1>4, <1>5, <1>6, <1>7, SessionsStep

(* Signing out leaves no process with the session: it was in the memory of *)
(* this one or, having a login, in none.                                   *)
LEMMA RevokeStep ==
    ASSUME SessionsInv, NEW c \in Visits, Revoke(c)
    PROVE  SessionsInv'
<1>1. visits[c] \in Visit /\ visits[c].pc = "known"
  BY DEF Revoke, VisitAt, SessionsInv, SessionsTypeOK
<1>2. PICK s \in Visits, p \in Processes :
          /\ visits[c].session = {s} /\ visits[c].at = {p} /\ visits[s].pc = "signedIn"
          /\ visits[s].login = {} => visits[s].at = {p}
  BY <1>1 DEF SessionsInv, VisitInv, PresentsSession
<1>3. Process(c) = p
  BY <1>2, ProcessOfVisit
<1> DEFINE x == [visits[c] EXCEPT !.pc = "revoke"]
<1>4. x \in Visit /\ x.pc = "revoke" /\ x.session = {s} /\ x.at = {p}
  BY <1>1, <1>2 DEF Visit
<1>5. visits' = [visits EXCEPT ![c] = x] /\ UNCHANGED table
  BY DEF Revoke, MoveOn, SessionsInv, SessionsTypeOK
<1> HIDE DEF x
<1>6. visits'[c] = x /\ \A d \in Visits \ {c} : visits'[d] = visits[d]
  BY <1>5 DEF SessionsInv, SessionsTypeOK
<1>7. /\ DOMAIN memory' = Processes
      /\ \A q \in Processes : \A m \in memory'[q] : m \in memory[q] /\ (q = p => m.id # s)
  BY <1>2, <1>3 DEF Revoke, SessionsInv, SessionsTypeOK
<1>8. SessionsTypeOK'
  BY <1>4, <1>5, <1>7 DEF SessionsInv, SessionsTypeOK
<1>9. OutOfMemory(c)'
  <2>1. SUFFICES ASSUME NEW q \in Processes, NEW m \in memory'[q], m.id = s PROVE FALSE
    BY <1>4, <1>6 DEF OutOfMemory
  <2>2. m \in memory[q] /\ q # p
    BY <1>7, <2>1
  <2>3. visits[s].login = {} /\ visits[s].at = {q}
    BY <2>1, <2>2 DEF SessionsInv
  <2>4. QED BY <1>2, <2>2, <2>3
<1>10. VisitInv(c)'
  BY <1>1, <1>2, <1>4, <1>6 DEF VisitInv, PresentsSession
<1>11. QED BY <1>1, <1>4, <1>5, <1>6, <1>7, <1>8, <1>9, <1>10, SessionsStep

LEMMA RevokeRowStep ==
    ASSUME SessionsInv, NEW c \in Visits, RevokeRow(c)
    PROVE  SessionsInv'
<1>1. visits[c] \in Visit /\ visits[c].pc = "revoke"
  BY DEF RevokeRow, VisitAt, SessionsInv, SessionsTypeOK
<1>2. PICK s \in Visits, p \in Processes :
          /\ visits[c].session = {s} /\ visits[c].at = {p} /\ visits[s].pc = "signedIn"
          /\ visits[s].login = {} => visits[s].at = {p}
  BY <1>1 DEF SessionsInv, VisitInv, PresentsSession
<1> DEFINE x == [visits[c] EXCEPT !.pc = "signedOut"]
<1>3. x \in Visit /\ x.pc = "signedOut" /\ x.session = {s} /\ x.at = {p}
  BY <1>1, <1>2 DEF Visit, Ended
<1>4. visits' = [visits EXCEPT ![c] = x] /\ UNCHANGED memory
  BY DEF RevokeRow, MoveOn, SessionsInv, SessionsTypeOK
<1> HIDE DEF x
<1>5. visits'[c] = x /\ \A d \in Visits \ {c} : visits'[d] = visits[d]
  BY <1>4 DEF SessionsInv, SessionsTypeOK
<1>6. ASSUME NEW t \in table'
      PROVE  /\ \E u \in table : u.id = t.id /\ (u.revoked => t.revoked)
             /\ t.id = s => t.revoked
  <2>1. PICK u \in table :
            t = IF visits[c].session = {u.id} THEN [u EXCEPT !.revoked = TRUE] ELSE u
    BY DEF RevokeRow
  <2>2. CASE u.id = s
    BY <1>2, <2>1, <2>2 DEF SessionsInv, SessionsTypeOK
  <2>3. CASE u.id # s
    BY <1>2, <2>1, <2>3
  <2>4. QED BY <2>2, <2>3
<1>7. SessionsTypeOK'
  BY <1>3, <1>4, <1>6 DEF SessionsInv, SessionsTypeOK
<1>8. OutOfMemory(c)' /\ RevokedInTable(c)'
  <2>1. OutOfMemory(c)
    BY <1>1 DEF SessionsInv
  <2>2. QED BY <1>2, <1>3, <1>4, <1>5, <1>6, <2>1 DEF OutOfMemory, RevokedInTable
<1>9. VisitInv(c)'
  BY <1>1, <1>2, <1>3, <1>5 DEF VisitInv, PresentsSession
<1>10. QED BY <1>1, <1>4, <1>5, <1>6, <1>7, <1>8, <1>9, SessionsStep

LEMMA RestartStep ==
    ASSUME SessionsInv, NEW p \in Processes, Restart(p)
    PROVE  SessionsInv'
<1>1. /\ DOMAIN memory' = Processes /\ \A q \in Processes : memory'[q] \subseteq memory[q]
      /\ UNCHANGED table
  BY DEF Restart, SessionsInv, SessionsTypeOK
<1>2. ASSUME NEW c \in Visits
      PROVE  /\ visits'[c] \in Visit /\ (visits'[c] = visits[c] \/ visits'[c].pc = "failed")
             /\ visits[c].pc = "signedIn" => visits'[c] = visits[c]
  <2>1. visits[c] \in Visit
    BY DEF SessionsInv, SessionsTypeOK
  <2>2. visits'[c] = IF visits[c].pc \notin Ended /\ p \in visits[c].at
                     THEN [visits[c] EXCEPT !.pc = "failed"] ELSE visits[c]
    BY DEF Restart
  <2>3. QED BY <2>1, <2>2 DEF Visit, Ended
<1>3. visits' \in [Visits -> Visit]
  BY <1>2 DEF Restart
<1>4. SessionsTypeOK'
  BY <1>1, <1>3 DEF SessionsInv, SessionsTypeOK
<1>5. \A c \in Visits : visits'[c].pc = "failed" => VisitInv(c)'
  BY DEF VisitInv
<1>6. QED BY <1>1, <1>2, <1>4, <1>5, SessionsStep

LEMMA SessionsNextKeeps == SessionsInv /\ [SessionsNext]_sessionVars => SessionsInv'
<1> SUFFICES ASSUME SessionsInv, [SessionsNext]_sessionVars PROVE SessionsInv'
  OBVIOUS
<1>1. CASE UNCHANGED <<visits, table, memory>>
  <2>1. SessionsTypeOK'
    BY <1>1 DEF SessionsInv, SessionsTypeOK
  <2>2. QED BY <1>1, <2>1, SessionsStep
<1>2. ASSUME NEW c \in Visits, SendToProvider(c) \/ Serve(c) \/ VisitFails(c)
      PROVE  SessionsInv'
  BY <1>2, MoveOnStep DEF SendToProvider, Serve, VisitFails, VisitAt, Ended
<1>3. ASSUME NEW c \in Visits, Exchange(c) PROVE SessionsInv'
  <2>1. visits[c].pc = "exchange" /\ visits[c].login # {}
    BY <1>3 DEF Exchange, VisitAt, SessionsInv, VisitInv
  <2>2. QED BY <1>3, <2>1, MoveOnStep DEF Exchange
<1>4. ASSUME NEW c \in Visits, LookUpSession(c) PROVE SessionsInv'
  <2>1. PICK pc \in {"known", "refused"} :
            /\ MoveOn(c, pc)
            /\ pc = "known" => \E t \in table : visits[c].session = {t.id}
    BY <1>4 DEF LookUpSession, Live
  <2>2. pc = "known" => \A s \in Visits : visits[c].session = {s} => visits[s].login # {}
    BY <2>1 DEF SessionsInv
  <2>3. visits[c].pc = "look" /\ UNCHANGED <<table, memory>>
    BY <1>4 DEF LookUpSession, VisitAt
  <2>4. QED BY <2>1, <2>2, <2>3, MoveOnStep
<1>5. ASSUME NEW c \in Visits, Work(c) PROVE SessionsInv'
  BY <1>1, <1>2, <1>3, <1>4, <1>5, CreateOidcSessionStep, RevokeStep, RevokeRowStep
     DEF Work, Discover
<1>6. QED
  BY <1>1, <1>2, <1>5, BeginLoginStep, ConsumeLoginStep, CreateSessionStep, AuthenticateStep,
     RestartStep DEF SessionsNext, SessionTick, sessionVars

(* Once signing out has been answered, no process lets the session in any  *)
(* more, from its memory or from the table: for any number of processes,   *)
(* overlapping requests, failures and restarts (logout of server.ts, which *)
(* revokes in the memory of one process and in the table).                 *)
THEOREM SignedOutSessionsAreRefused == SessionsSpec => []SignedOutIsRefused
<1>1. SessionsInv => SignedOutIsRefused
  BY DEF SessionsInv, SignedOutIsRefused, VisitAt, OutOfMemory, RevokedInTable
<1>2. QED BY <1>1, SessionsInitHolds, SessionsNextKeeps, PTL DEF SessionsSpec

-----------------------------------------------------------------------------
(***************************************************************************)
(* Retention policies.  What a client wants to update, it has seen; a      *)
(* request that is past the lock of its key alone may record that key; one *)
(* past its UPDATE alone may commit to that row, which still carries the   *)
(* instant it names; and a row's versions never go back in time.           *)
(***************************************************************************)
Want == [op: {"create", "update"}, policy: Nat, seen: Nat, expected: Nat]
Version == [at: Nat, key: Keys, seen: Nat]
Attempt == [pc: {"idle", "begin"} \cup InTransaction, key: SUBSET Keys, asked: SUBSET Want, at: Nat]

RetentionTypeOK ==
    /\ policies \in Seq(Seq(Version)) /\ \A p \in DOMAIN policies : Len(policies[p]) > 0
    /\ wants \in [Keys -> SUBSET Want]
    /\ attempts \in [Attempts -> Attempt]
    /\ moment \in Nat

(* The update names a version that the policy has had. *)
HasSeen(w) ==
    w.op = "update" => /\ w.policy \in DOMAIN policies
                       /\ w.seen \in 1..Len(policies[w.policy])
                       /\ w.expected = policies[w.policy][w.seen].at

WantInv(k) == wants[k] = {} \/ \E w \in Want : wants[k] = {w} /\ HasSeen(w)

(* A request is of one key and one thing wanted, sent after it was seen. *)
AttemptInv(c) ==
    \E k \in Keys, w \in Want :
        /\ attempts[c].key = {k} /\ attempts[c].asked = {w} /\ HasSeen(w)
        /\ w.op = "update" => w.expected <= attempts[c].at
        /\ attempts[c].at <= moment
        /\ attempts[c].pc \in InTransaction => \A r \in requests : r.key # k
        /\ attempts[c].pc = "commit" /\ w.op = "update" => Matches(w.policy, w.expected)

KeysAreExclusive ==
    \A c, d \in Attempts :
        /\ attempts[c].pc \in InTransaction /\ attempts[d].pc \in InTransaction
        /\ attempts[c].key = attempts[d].key
        => c = d

RowsAreExclusive ==
    \A c, d \in Attempts : \A a \in attempts[c].asked, b \in attempts[d].asked :
        /\ attempts[c].pc = "commit" /\ a.op = "update"
        /\ attempts[d].pc = "commit" /\ b.op = "update"
        /\ a.policy = b.policy
        => c = d

VersionsInv ==
    \A p \in DOMAIN policies : \A i \in DOMAIN policies[p] :
        /\ policies[p][i].at <= moment
        /\ \E r \in requests : r.key = policies[p][i].key
        /\ \A j \in DOMAIN policies[p] : i <= j => policies[p][i].at <= policies[p][j].at
        /\ i >= 2 => policies[p][i].seen \in 1..(i - 1)

RetentionInv ==
    /\ RetentionTypeOK
    /\ \A k \in Keys : WantInv(k)
    /\ \A c \in Attempts : attempts[c].pc # "idle" => AttemptInv(c)
    /\ KeysAreExclusive
    /\ RowsAreExclusive
    /\ VersionsInv
    /\ UpdateReplacesWhatWasSeen

LEMMA RetentionInitHolds == RetentionInit => RetentionInv
<1> SUFFICES ASSUME RetentionInit PROVE RetentionInv
  OBVIOUS
<1>1. NoAttempt \in Attempt /\ NoAttempt.pc = "idle"
  BY DEF NoAttempt, Attempt
<1>2. RetentionTypeOK
  BY <1>1 DEF RetentionInit, RetentionTypeOK
<1>3. \A c \in Attempts : attempts[c].pc = "idle"
  BY <1>1 DEF RetentionInit
<1>4. DOMAIN policies = {} /\ \A k \in Keys : WantInv(k)
  BY DEF RetentionInit, WantInv
<1>5. QED BY <1>2, <1>3, <1>4 DEF RetentionInv, KeysAreExclusive, RowsAreExclusive,
                VersionsInv, UpdateReplacesWhatWasSeen, KeysAppliedOnce, InTransaction

LEMMA VersionOf ==
    ASSUME RetentionTypeOK, NEW p \in DOMAIN policies, NEW i \in DOMAIN policies[p]
    PROVE  /\ policies[p][i] \in Version
           /\ policies[p][i].at \in Nat
<1>1. policies[p] \in Seq(Version)
  BY DEF RetentionTypeOK
<1>2. policies[p][i] \in Version
  BY <1>1
<1>3. QED BY <1>2 DEF Version

(* A step of one request that writes nothing. *)
LEMMA AttemptMoves ==
    ASSUME RetentionInv, NEW c \in Attempts, NEW x \in Attempt,
           attempts' = [attempts EXCEPT ![c] = x],
           UNCHANGED <<policies, requests, wants, moment>>,
           x.pc # "idle" => AttemptInv(c)',
           x.pc \in InTransaction =>
               \A d \in Attempts \ {c} : attempts[d].pc \in InTransaction => attempts[d].key # x.key,
           x.pc = "commit" =>
               \A d \in Attempts \ {c} : \A a \in x.asked, b \in attempts[d].asked :
                   attempts[d].pc = "commit" /\ a.op = "update" /\ b.op = "update"
                   => a.policy # b.policy
    PROVE  RetentionInv'
<1>1. attempts'[c] = x /\ \A d \in Attempts \ {c} : attempts'[d] = attempts[d]
  BY DEF RetentionInv, RetentionTypeOK
<1>2. RetentionTypeOK'
  BY DEF RetentionInv, RetentionTypeOK
<1>3. \A k \in Keys : WantInv(k)'
  BY Zenon DEF RetentionInv, WantInv, HasSeen
<1>4. ASSUME NEW d \in Attempts \ {c}, attempts[d].pc # "idle" PROVE AttemptInv(d)'
  <2>1. AttemptInv(d)
    BY <1>4 DEF RetentionInv
  <2>2. QED BY <1>1, <2>1 DEF AttemptInv, HasSeen, Matches, Row
<1>5. KeysAreExclusive'
  BY <1>1 DEF RetentionInv, KeysAreExclusive
<1>6. RowsAreExclusive'
  BY <1>1 DEF RetentionInv, RowsAreExclusive
<1>7. VersionsInv' /\ UpdateReplacesWhatWasSeen'
  BY DEF RetentionInv, VersionsInv, UpdateReplacesWhatWasSeen, KeysAppliedOnce
<1>8. QED BY <1>1, <1>2, <1>3, <1>4, <1>5, <1>6, <1>7 DEF RetentionInv

LEMMA AttemptEnds ==
    ASSUME RetentionInv, NEW c \in Attempts, attempts' = [attempts EXCEPT ![c] = NoAttempt],
           UNCHANGED <<policies, requests, wants, moment>>
    PROVE  RetentionInv'
<1>1. NoAttempt \in Attempt /\ NoAttempt.pc = "idle"
  BY DEF NoAttempt, Attempt
<1>2. QED BY <1>1, AttemptMoves, Zenon DEF InTransaction

(* A request under way moves on to the next step of its transaction. *)
LEMMA AttemptAdvances ==
    ASSUME RetentionInv, NEW c \in Attempts, NEW pc \in InTransaction,
           attempts[c].pc # "idle",
           attempts' = [attempts EXCEPT ![c] = [@ EXCEPT !.pc = pc]],
           UNCHANGED <<policies, requests, wants, moment>>,
           \A r \in requests : {r.key} # attempts[c].key,
           \A d \in Attempts \ {c} : attempts[d].pc \in InTransaction
                                     => attempts[d].key # attempts[c].key,
           pc = "commit" =>
               \A a \in attempts[c].asked : a.op = "update" =>
                   /\ Matches(a.policy, a.expected)
                   /\ RowFree(c, a.policy)
    PROVE  RetentionInv'
<1> DEFINE x == [attempts[c] EXCEPT !.pc = pc]
<1>1. attempts[c] \in Attempt
  BY DEF RetentionInv, RetentionTypeOK
<1>2. /\ x \in Attempt /\ x.pc = pc /\ x.key = attempts[c].key
      /\ x.asked = attempts[c].asked /\ x.at = attempts[c].at
  BY <1>1 DEF Attempt
<1>3. attempts' = [attempts EXCEPT ![c] = x]
  OBVIOUS
<1> HIDE DEF x
<1>4. attempts'[c] = x
  BY <1>3 DEF RetentionInv, RetentionTypeOK
<1>5. PICK k \in Keys, w \in Want :
        /\ attempts[c].key = {k} /\ attempts[c].asked = {w} /\ HasSeen(w)
        /\ w.op = "update" => w.expected <= attempts[c].at
        /\ attempts[c].at <= moment
  BY DEF RetentionInv, AttemptInv
<1>6. HasSeen(w)' /\ (pc = "commit" /\ w.op = "update" => Matches(w.policy, w.expected)')
  BY <1>5 DEF HasSeen, Matches, Row
<1>7. AttemptInv(c)'
  BY <1>2, <1>4, <1>5, <1>6 DEF AttemptInv
<1>8. x.pc = "commit" =>
          \A d \in Attempts \ {c} : \A a \in x.asked, b \in attempts[d].asked :
              attempts[d].pc = "commit" /\ a.op = "update" /\ b.op = "update"
              => a.policy # b.policy
  BY <1>2 DEF RowFree
<1>9. x.pc \in InTransaction =>
          \A d \in Attempts \ {c} : attempts[d].pc \in InTransaction => attempts[d].key # x.key
  BY <1>2
<1>10. QED BY <1>2, <1>3, <1>7, <1>8, <1>9, AttemptMoves, Zenon

LEMMA SendRequestStep ==
    ASSUME RetentionInv, NEW c \in Attempts, NEW k \in Keys, SendRequest(c, k)
    PROVE  RetentionInv'
<1> DEFINE x == [NoAttempt EXCEPT !.pc = "begin", !.key = {k}, !.asked = wants[k], !.at = moment]
<1>1. wants[k] \in SUBSET Want /\ moment \in Nat
  BY DEF RetentionInv, RetentionTypeOK
<1>2. x \in Attempt /\ x.pc = "begin" /\ x.key = {k} /\ x.asked = wants[k] /\ x.at = moment
  BY <1>1, Zenon DEF NoAttempt, Attempt
<1>3. attempts' = [attempts EXCEPT ![c] = x] /\ UNCHANGED <<policies, requests, wants, moment>>
  BY DEF SendRequest
<1> HIDE DEF x
<1>4. attempts'[c] = x
  BY <1>3 DEF RetentionInv, RetentionTypeOK
<1>5. PICK w \in Want : wants[k] = {w} /\ HasSeen(w)
  BY DEF SendRequest, RetentionInv, WantInv
<1>6. w.op = "update" => w.expected <= moment
  BY <1>5 DEF HasSeen, RetentionInv, RetentionTypeOK, VersionsInv
<1>7. HasSeen(w)'
  BY <1>3, <1>5 DEF HasSeen
<1>8. AttemptInv(c)'
  BY <1>1, <1>2, <1>3, <1>4, <1>5, <1>6, <1>7 DEF AttemptInv, InTransaction
<1>9. QED BY <1>2, <1>3, <1>8, AttemptMoves, Zenon DEF InTransaction

LEMMA LockStep ==
    ASSUME RetentionInv, NEW c \in Attempts, Lock(c)
    PROVE  RetentionInv'
<1>1. CASE \E r \in requests : {r.key} = attempts[c].key
  BY <1>1, AttemptEnds DEF Lock
<1>2. CASE ~ \E r \in requests : {r.key} = attempts[c].key
  <2>1. PICK k \in Keys : attempts[c].key = {k}
    BY DEF Lock, RetentionInv, AttemptInv
  <2>2. \A d \in Attempts \ {c} : attempts[d].pc \in InTransaction
                                  => attempts[d].key # attempts[c].key
    BY <2>1 DEF Lock, Holds
  <2>3. QED BY <1>2, <2>2, AttemptAdvances, Zenon DEF Lock, InTransaction
<1>3. QED BY <1>1, <1>2

(* What a request past the lock of its key knows. *)
LEMMA PastTheLock ==
    ASSUME RetentionInv, NEW c \in Attempts, attempts[c].pc \in InTransaction
    PROVE  /\ \A r \in requests : {r.key} # attempts[c].key
           /\ \A d \in Attempts \ {c} : attempts[d].pc \in InTransaction
                                        => attempts[d].key # attempts[c].key
BY DEF RetentionInv, AttemptInv, KeysAreExclusive, InTransaction

LEMMA InsertPolicyStep ==
    ASSUME RetentionInv, NEW c \in Attempts, InsertPolicy(c)
    PROVE  RetentionInv'
<1>1. attempts[c].pc = "apply" /\ attempts[c].pc \in InTransaction
  BY DEF InsertPolicy, InTransaction
<1>2. PICK w \in Want : attempts[c].asked = {w}
  BY <1>1 DEF RetentionInv, AttemptInv
<1>3. \A a \in attempts[c].asked : a.op # "update"
  BY <1>2 DEF InsertPolicy
<1>4. attempts' = [attempts EXCEPT ![c] = [@ EXCEPT !.pc = "commit"]]
  BY DEF InsertPolicy
<1>5. QED BY <1>1, <1>3, <1>4, PastTheLock, AttemptAdvances, Zenon DEF InsertPolicy, InTransaction

LEMMA UpdatePolicyStep ==
    ASSUME RetentionInv, NEW c \in Attempts, UpdatePolicy(c)
    PROVE  RetentionInv'
<1>1. attempts[c].pc = "apply" /\ attempts[c].pc \in InTransaction
  BY DEF UpdatePolicy, InTransaction
<1>2. PICK a \in attempts[c].asked :
          /\ a.op = "update"
          /\ RowFree(c, a.policy)
          /\ attempts' = [attempts EXCEPT ![c] = IF Matches(a.policy, a.expected)
                                           THEN [@ EXCEPT !.pc = "commit"] ELSE NoAttempt]
  BY Zenon DEF UpdatePolicy
<1>3. attempts[c].asked = {a}
  BY <1>1 DEF RetentionInv, AttemptInv
<1>4. CASE ~ Matches(a.policy, a.expected)
  BY <1>2, <1>4, AttemptEnds, Zenon DEF UpdatePolicy
<1>5. CASE Matches(a.policy, a.expected)
  <2>1. attempts' = [attempts EXCEPT ![c] = [@ EXCEPT !.pc = "commit"]]
    BY <1>2, <1>5
  <2>2. QED
    BY <1>1, <1>2, <1>3, <1>5, <2>1, PastTheLock, AttemptAdvances, Zenon DEF UpdatePolicy, InTransaction
<1>6. QED BY <1>4, <1>5

(* A client decides. *)
LEMMA WantStep ==
    ASSUME RetentionInv, NEW k \in Keys, WantCreate(k) \/ WantUpdate(k)
    PROVE  RetentionInv'
<1>1. UNCHANGED <<policies, requests, attempts, moment>>
  BY DEF WantCreate, WantUpdate
<1>2. PICK w \in Want : wants' = [wants EXCEPT ![k] = {w}] /\ HasSeen(w)
  <2>1. CASE WantCreate(k)
    <3>1. [op |-> "create", policy |-> 0, seen |-> 0, expected |-> 0] \in Want
      BY DEF Want
    <3>2. QED BY <2>1, <3>1, Zenon DEF WantCreate, HasSeen
  <2>2. CASE WantUpdate(k)
    <3>1. PICK p \in DOMAIN policies :
              wants' = [wants EXCEPT ![k] = {[op |-> "update", policy |-> p,
                            seen |-> Len(policies[p]), expected |-> Row(p).at]}]
      BY <2>2, Zenon DEF WantUpdate
    <3> DEFINE v == [op |-> "update", policy |-> p, seen |-> Len(policies[p]),
                     expected |-> Row(p).at]
    <3>2. policies[p] \in Seq(Version) /\ Len(policies[p]) > 0 /\ p \in Nat
      BY DEF RetentionInv, RetentionTypeOK
    <3>3. Row(p) \in Version
      BY <3>2 DEF Row
    <3>4. v \in Want
      BY <3>2, <3>3 DEF Want, Version
    <3>5. HasSeen(v)
      BY <3>2 DEF HasSeen, Row
    <3>6. QED BY <3>1, <3>4, <3>5, Zenon
  <2>3. QED BY <2>1, <2>2
<1>3. RetentionTypeOK'
  BY <1>1, <1>2 DEF RetentionInv, RetentionTypeOK
<1>4. HasSeen(w)'
  BY <1>1, <1>2 DEF HasSeen
<1>5. ASSUME NEW q \in Keys PROVE WantInv(q)'
  <2>1. wants'[q] = IF q = k THEN {w} ELSE wants[q]
    BY <1>2 DEF RetentionInv, RetentionTypeOK
  <2>2. WantInv(q)
    BY Zenon DEF RetentionInv
  <2>3. QED BY <1>1, <1>4, <2>1, <2>2 DEF WantInv, HasSeen
<1>6. \A c \in Attempts : AttemptInv(c) => AttemptInv(c)'
  BY <1>1, SMTT(30) DEF AttemptInv, HasSeen, Matches, Row
<1>7. KeysAreExclusive' /\ RowsAreExclusive' /\ VersionsInv' /\ UpdateReplacesWhatWasSeen'
  <2>1. KeysAreExclusive'
    BY <1>1, Zenon DEF RetentionInv, KeysAreExclusive
  <2>2. RowsAreExclusive'
    BY <1>1 DEF RetentionInv, RowsAreExclusive
  <2>3. VersionsInv'
    BY <1>1 DEF RetentionInv, VersionsInv
  <2>4. UpdateReplacesWhatWasSeen'
    BY <1>1 DEF RetentionInv, UpdateReplacesWhatWasSeen, KeysAppliedOnce
  <2>5. QED BY <2>1, <2>2, <2>3, <2>4, Zenon
<1>8. QED BY <1>1, <1>3, <1>5, <1>6, <1>7 DEF RetentionInv

LEMMA MomentPassesStep ==
    ASSUME RetentionInv, MomentPasses
    PROVE  RetentionInv'
<1>1. moment' = moment + 1 /\ moment \in Nat /\ UNCHANGED <<policies, requests, wants, attempts>>
  BY DEF MomentPasses, RetentionInv, RetentionTypeOK
<1>2. RetentionTypeOK'
  BY <1>1 DEF RetentionInv, RetentionTypeOK
<1>3. \A k \in Keys : WantInv(k)'
  BY <1>1, Zenon DEF RetentionInv, WantInv, HasSeen
<1>4. ASSUME NEW c \in Attempts, AttemptInv(c) PROVE AttemptInv(c)'
  <2>1. attempts[c].at \in Nat
    BY DEF RetentionInv, RetentionTypeOK, Attempt
  <2>2. QED BY <1>1, <1>4, <2>1 DEF AttemptInv, HasSeen, Matches, Row
<1>5. VersionsInv'
  <2>1. \A p \in DOMAIN policies : \A i \in DOMAIN policies[p] : policies[p][i].at \in Nat
    BY VersionOf, Zenon DEF RetentionInv
  <2>2. QED BY <1>1, <2>1 DEF RetentionInv, VersionsInv
<1>6. KeysAreExclusive' /\ RowsAreExclusive' /\ UpdateReplacesWhatWasSeen'
  BY <1>1 DEF RetentionInv, KeysAreExclusive, RowsAreExclusive, UpdateReplacesWhatWasSeen,
              KeysAppliedOnce
<1>7. QED BY <1>1, <1>2, <1>3, <1>4, <1>5, <1>6 DEF RetentionInv

(* What a commit adds: one version n of policy p, the first one of a new   *)
(* policy or the successor of the last; all others stay.                   *)
Adds(p, n, row) ==
    /\ DOMAIN policies' = DOMAIN policies \cup {p}
    /\ \A q \in DOMAIN policies \ {p} : policies'[q] = policies[q]
    /\ n \in Nat \ {0} /\ DOMAIN policies'[p] = 1..n /\ policies'[p][n] = row
    /\ p \notin DOMAIN policies => n = 1
    /\ p \in DOMAIN policies =>
         /\ n = Len(policies[p]) + 1
         /\ \A i \in DOMAIN policies[p] : policies'[p][i] = policies[p][i]

LEMMA CommitAdds ==
    ASSUME RetentionInv, NEW w \in Want, HasSeen(w), NEW row \in Version,
           policies' = IF w.op = "create" THEN Append(policies, <<row>>)
                       ELSE [policies EXCEPT ![w.policy] = Append(@, row)]
    PROVE  /\ policies' \in Seq(Seq(Version))
           /\ \A p \in DOMAIN policies' : Len(policies'[p]) > 0
           /\ \E p, n : /\ Adds(p, n, row)
                        /\ IF w.op = "create" THEN p \notin DOMAIN policies ELSE p = w.policy
<1>1. policies \in Seq(Seq(Version)) /\ \A p \in DOMAIN policies : Len(policies[p]) > 0
  BY DEF RetentionInv, RetentionTypeOK
<1>2. CASE w.op = "create"
  <2>1. <<row>> \in Seq(Version) /\ Len(<<row>>) = 1 /\ <<row>>[1] = row
    OBVIOUS
  <2> DEFINE one == <<row>>
             p == Len(policies) + 1
  <2>2. one \in Seq(Version) /\ Len(one) = 1 /\ one[1] = row /\ policies' = Append(policies, one)
    BY <1>2, <2>1
  <2> HIDE DEF one
  <2>3. /\ policies' \in Seq(Seq(Version)) /\ DOMAIN policies' = DOMAIN policies \cup {p}
        /\ policies'[p] = one /\ \A q \in DOMAIN policies : policies'[q] = policies[q]
        /\ p \notin DOMAIN policies
    BY <1>1, <2>2
  <2> HIDE DEF p
  <2>4. Adds(p, 1, row)
    BY <2>2, <2>3 DEF Adds
  <2>5. QED BY <1>1, <1>2, <2>2, <2>3, <2>4
<1>3. CASE w.op # "create"
  <2> DEFINE p == w.policy
             longer == Append(policies[p], row)
  <2>1. w.op = "update" /\ p \in DOMAIN policies
    BY <1>3 DEF Want, HasSeen
  <2>2. policies[p] \in Seq(Version)
    BY <1>1, <2>1
  <2>3. /\ longer \in Seq(Version) /\ Len(longer) = Len(policies[p]) + 1
        /\ longer[Len(policies[p]) + 1] = row
        /\ \A i \in DOMAIN policies[p] : longer[i] = policies[p][i]
    BY <2>2
  <2>4. policies' = [policies EXCEPT ![p] = longer]
    BY <1>3
  <2> HIDE DEF longer, p
  <2>5. /\ policies' \in Seq(Seq(Version)) /\ DOMAIN policies' = DOMAIN policies
        /\ policies'[p] = longer /\ \A q \in DOMAIN policies \ {p} : policies'[q] = policies[q]
    BY <1>1, <2>1, <2>3, <2>4, SMTT(30)
  <2>6. Adds(p, Len(policies[p]) + 1, row)
    <3> DEFINE n == Len(policies[p]) + 1
    <3>1. n \in Nat \ {0} /\ DOMAIN longer = 1..n
      BY <2>2, <2>3
    <3>2. \A i \in DOMAIN policies[p] : policies'[p][i] = policies[p][i]
      BY <2>3, <2>5, Zenon
    <3>3. policies'[p][n] = row /\ DOMAIN policies'[p] = 1..n
      BY <2>3, <2>5, <3>1, Zenon
    <3>4. DOMAIN policies' = DOMAIN policies \cup {p}
      BY <2>1, <2>5, Zenon
    <3> HIDE DEF n
    <3>5. Adds(p, n, row)
      BY <2>1, <2>5, <3>1, <3>2, <3>3, <3>4 DEF Adds, n
    <3>6. QED BY <3>5 DEF n
  <2>7. \A q \in DOMAIN policies' : Len(policies'[q]) > 0
    BY <1>1, <2>2, <2>3, <2>5
  <2>8. QED BY <1>3, <2>5, <2>6, <2>7 DEF p
<1>4. QED BY <1>2, <1>3

LEMMA PoliciesType ==
    ASSUME RetentionInv, NEW q \in DOMAIN policies
    PROVE  policies[q] \in Seq(Version)
BY DEF RetentionInv, RetentionTypeOK

(* What a version added to a policy, or a policy added, leaves and brings. *)
LEMMA AddsOne ==
    ASSUME RetentionInv, NEW p, NEW n, NEW row, Adds(p, n, row)
    PROVE  /\ \A q \in DOMAIN policies : \A i \in DOMAIN policies[q] :
                /\ q \in DOMAIN policies' /\ i \in DOMAIN policies'[q]
                /\ policies'[q][i] = policies[q][i]
           /\ \A q \in DOMAIN policies' : \A i \in DOMAIN policies'[q] :
                \/ /\ q \in DOMAIN policies /\ i \in DOMAIN policies[q]
                   /\ policies'[q][i] = policies[q][i]
                \/ q = p /\ i = n /\ policies'[q][i] = row
<1>1. ASSUME NEW q \in DOMAIN policies, NEW i \in DOMAIN policies[q]
      PROVE  /\ q \in DOMAIN policies' /\ i \in DOMAIN policies'[q]
             /\ policies'[q][i] = policies[q][i]
  <2>1. policies[q] \in Seq(Version)
    BY DEF RetentionInv, RetentionTypeOK
  <2>2. CASE q = p
    BY <2>1, <2>2 DEF Adds
  <2>3. CASE q # p
    BY <2>3 DEF Adds
  <2>4. QED BY <2>2, <2>3
<1>2. ASSUME NEW q \in DOMAIN policies', NEW i \in DOMAIN policies'[q]
      PROVE  \/ /\ q \in DOMAIN policies /\ i \in DOMAIN policies[q]
                /\ policies'[q][i] = policies[q][i]
             \/ q = p /\ i = n /\ policies'[q][i] = row
  <2>1. CASE q # p
    BY <2>1 DEF Adds
  <2>2. CASE q = p /\ q \notin DOMAIN policies
    BY <2>2 DEF Adds
  <2>3. CASE q = p /\ q \in DOMAIN policies
    <3>1. policies[q] \in Seq(Version) /\ n = Len(policies[q]) + 1 /\ i \in 1..n
      BY <2>3 DEF Adds, RetentionInv, RetentionTypeOK
    <3>2. i = n \/ i \in DOMAIN policies[q]
      BY <3>1
    <3>3. QED BY <2>3, <3>2 DEF Adds
  <2>4. QED BY <2>1, <2>2, <2>3
<1>3. QED BY <1>1, <1>2

(* A version after the step was there before it, or is the one added.      *)
Kept(q, i) ==
    q \in DOMAIN policies /\ i \in DOMAIN policies[q] /\ policies'[q][i] = policies[q][i]

Added(q, i, p, n, row) == q = p /\ i = n /\ policies'[q][i] = row

LEMMA KeptOrAdded ==
    ASSUME RetentionInv, NEW p, NEW n, NEW row, Adds(p, n, row),
           NEW q \in DOMAIN policies', NEW i \in DOMAIN policies'[q]
    PROVE  Kept(q, i) \/ Added(q, i, p, n, row)
BY AddsOne DEF Kept, Added

(* The transaction of the attempt c commits row, the version n of p, under *)
(* its key k, as w wants it.                                               *)
Commits(c, k, w, p, n, row) ==
    /\ attempts[c].pc = "commit" /\ attempts[c].key = {k} /\ attempts[c].asked = {w}
    /\ HasSeen(w)
    /\ w.op = "update" => w.expected <= row.at /\ Matches(w.policy, w.expected)
    /\ row \in Version /\ row.key = k /\ row.seen = w.seen /\ row.at <= moment
    /\ Adds(p, n, row)
    /\ IF w.op = "create" THEN p \notin DOMAIN policies ELSE p = w.policy
    /\ attempts'[c].pc = "idle" /\ \A d \in Attempts \ {c} : attempts'[d] = attempts[d]
    /\ \A r \in requests : r \in requests' /\ r.key # k
    /\ \E r \in requests' : r.key = k
    /\ \A r \in requests' : r \in requests \/ r.key = k
    /\ UNCHANGED <<wants, moment>>
    /\ RetentionTypeOK'

LEMMA CommittedRow ==
    ASSUME NEW c, NEW k, NEW w, NEW p, NEW n, NEW row, Commits(c, k, w, p, n, row)
    PROVE  Adds(p, n, row) /\ row.seen = w.seen /\ policies' \in Seq(Seq(Version))
BY DEF Commits, RetentionTypeOK

LEMMA CommitPolicyCommits ==
    ASSUME RetentionInv, NEW c \in Attempts, CommitPolicy(c)
    PROVE  \E k \in Keys, w \in Want : \E p, n, row : Commits(c, k, w, p, n, row)
<1>1. /\ attempts[c].pc = "commit" /\ attempts[c] \in Attempt /\ attempts[c].at \in Nat
      /\ UNCHANGED <<wants, moment>>
  BY Zenon DEF CommitPolicy, RetentionInv, RetentionTypeOK, Attempt
<1>2. PICK k \in Keys, w \in Want :
        /\ attempts[c].key = {k} /\ attempts[c].asked = {w} /\ HasSeen(w)
        /\ w.op = "update" => w.expected <= attempts[c].at
        /\ attempts[c].at <= moment
        /\ \A r \in requests : r.key # k
        /\ w.op = "update" => Matches(w.policy, w.expected)
  BY <1>1, Zenon DEF RetentionInv, AttemptInv, InTransaction
<1> DEFINE row == [at |-> attempts[c].at, key |-> k, seen |-> w.seen]
<1>3. /\ policies' = IF w.op = "create" THEN Append(policies, <<row>>)
                     ELSE [policies EXCEPT ![w.policy] = Append(@, row)]
      /\ requests' = requests \cup {[key |-> k, fingerprint |-> Fingerprint({w})]}
      /\ attempts' = [attempts EXCEPT ![c] = NoAttempt]
  BY <1>2, Zenon DEF CommitPolicy
<1>4. row \in Version /\ row.at = attempts[c].at /\ row.key = k /\ row.seen = w.seen
  BY <1>1 DEF Version, Want
<1> HIDE DEF row
<1>5. /\ policies' \in Seq(Seq(Version))
      /\ \A p \in DOMAIN policies' : Len(policies'[p]) > 0
      /\ \E p, n : /\ Adds(p, n, row)
                   /\ IF w.op = "create" THEN p \notin DOMAIN policies ELSE p = w.policy
  BY <1>2, <1>3, <1>4, CommitAdds, Zenon
<1>6. PICK p, n : /\ Adds(p, n, row)
                  /\ IF w.op = "create" THEN p \notin DOMAIN policies ELSE p = w.policy
  BY <1>5, Zenon
<1>7. NoAttempt \in Attempt /\ NoAttempt.pc = "idle"
  BY DEF NoAttempt, Attempt
<1>8. attempts'[c].pc = "idle" /\ \A d \in Attempts \ {c} : attempts'[d] = attempts[d]
  BY <1>3, <1>7 DEF RetentionInv, RetentionTypeOK
<1>9. /\ \A r \in requests : r \in requests' /\ r.key # k
      /\ \E r \in requests' : r.key = k
      /\ \A r \in requests' : r \in requests \/ r.key = k
  <2> DEFINE new == [key |-> k, fingerprint |-> Fingerprint({w})]
  <2>1. new.key = k /\ requests' = requests \cup {new}
    BY <1>3
  <2> HIDE DEF new
  <2>2. QED BY <1>2, <2>1
<1>10. RetentionTypeOK'
  BY <1>1, <1>3, <1>5, <1>7, Zenon DEF RetentionInv, RetentionTypeOK
<1>11. Commits(c, k, w, p, n, row)
  BY <1>1, <1>2, <1>4, <1>6, <1>8, <1>9, <1>10, Zenon DEF Commits
<1>12. QED BY <1>11

(* An update follows the versions the policy has, none of them newer.      *)
LEMMA CommitFollows ==
    ASSUME RetentionInv, NEW c \in Attempts, NEW k \in Keys, NEW w \in Want,
           NEW p, NEW n, NEW row, Commits(c, k, w, p, n, row)
    PROVE  /\ w.op = "create" => p \notin DOMAIN policies /\ n = 1
           /\ w.op # "create" =>
                /\ p \in DOMAIN policies /\ n = Len(policies[p]) + 1
                /\ w.seen \in 1..Len(policies[p]) /\ w.expected = policies[p][w.seen].at
                /\ w.expected <= row.at
                /\ \A i \in DOMAIN policies[p] : policies[p][i].at <= w.expected /\ i < n
<1>1. CASE w.op = "create"
  BY <1>1, Zenon DEF Commits, Adds
<1>2. CASE w.op # "create"
  <2>1. /\ p \in DOMAIN policies /\ n = Len(policies[p]) + 1
        /\ w.seen \in 1..Len(policies[p]) /\ w.expected = policies[p][w.seen].at
        /\ policies[p][Len(policies[p])].at = w.expected
        /\ w.expected <= row.at
    BY <1>2, Zenon DEF Commits, Want, HasSeen, Matches, Row, Adds
  <2>2. policies[p] \in Seq(Version) /\ Len(policies[p]) \in DOMAIN policies[p]
    BY <2>1 DEF RetentionInv, RetentionTypeOK
  <2>3. ASSUME NEW i \in DOMAIN policies[p]
        PROVE  policies[p][i].at <= w.expected /\ i < n
    <3>1. i <= Len(policies[p]) /\ i < n
      BY <2>1, <2>2
    <3>2. policies[p][i].at <= policies[p][Len(policies[p])].at
      BY <2>1, <2>2, <3>1, Zenon DEF RetentionInv, VersionsInv
    <3>3. QED BY <2>1, <3>1, <3>2
  <2>4. QED BY <1>2, <2>1, <2>3
<1>3. QED BY <1>1, <1>2, Zenon

LEMMA CommitKeepsSeen ==
    ASSUME RetentionInv, NEW p, NEW n, NEW row, Adds(p, n, row), RetentionTypeOK',
           NEW v \in Want, HasSeen(v)
    PROVE  HasSeen(v)'
<1>1. SUFFICES ASSUME v.op = "update" PROVE HasSeen(v)'
  BY Zenon DEF HasSeen
<1>2. policies[v.policy] \in Seq(Version) /\ v.policy \in DOMAIN policies
  BY <1>1 DEF RetentionInv, RetentionTypeOK, HasSeen
<1>3. v.seen \in DOMAIN policies[v.policy]
  BY <1>1, <1>2 DEF HasSeen
<1>4. /\ v.policy \in DOMAIN policies' /\ v.seen \in DOMAIN policies'[v.policy]
      /\ policies'[v.policy][v.seen] = policies[v.policy][v.seen]
  BY <1>2, <1>3, AddsOne
<1>5. policies'[v.policy] \in Seq(Version)
  BY <1>4 DEF RetentionTypeOK
<1>6. QED BY <1>1, <1>4, <1>5 DEF HasSeen

(* The other requests keep their keys and the rows they are to commit to.  *)
LEMMA CommitKeepsAttempts ==
    ASSUME RetentionInv, NEW c \in Attempts, NEW k \in Keys, NEW w \in Want,
           NEW p, NEW n, NEW row, Commits(c, k, w, p, n, row),
           NEW d \in Attempts, attempts'[d].pc # "idle"
    PROVE  AttemptInv(d)'
<1>1. /\ d # c /\ attempts'[d] = attempts[d] /\ moment' = moment
      /\ Adds(p, n, row) /\ RetentionTypeOK'
  BY DEF Commits
<1>2. PICK l \in Keys, v \in Want :
        /\ attempts[d].key = {l} /\ attempts[d].asked = {v} /\ HasSeen(v)
        /\ v.op = "update" => v.expected <= attempts[d].at
        /\ attempts[d].at <= moment
        /\ attempts[d].pc \in InTransaction => \A r \in requests : r.key # l
        /\ attempts[d].pc = "commit" /\ v.op = "update" => Matches(v.policy, v.expected)
  BY <1>1 DEF RetentionInv, AttemptInv
<1>3. attempts[d].pc \in InTransaction => l # k
  <2>1. attempts[c].pc \in InTransaction /\ attempts[c].key = {k}
    BY DEF InTransaction, Commits
  <2>2. KeysAreExclusive
    BY Zenon DEF RetentionInv
  <2>3. QED BY <1>1, <1>2, <2>1, <2>2, Zenon DEF KeysAreExclusive
<1>4. attempts[d].pc \in InTransaction => \A r \in requests' : r.key # l
  BY <1>2, <1>3 DEF Commits
<1>5. ASSUME attempts[d].pc = "commit", v.op = "update"
      PROVE  Matches(v.policy, v.expected)'
  <2>1. v.policy \in DOMAIN policies
    BY <1>2, <1>5 DEF HasSeen
  <2>2. w.op = "update" => v.policy # w.policy
    <3>1. attempts[c].pc = "commit" /\ w \in attempts[c].asked /\ v \in attempts[d].asked
      BY <1>2, Zenon DEF Commits
    <3>2. RowsAreExclusive
      BY DEF RetentionInv
    <3>3. QED BY <1>1, <1>5, <3>1, <3>2, Zenon DEF RowsAreExclusive
  <2>3. v.policy # p
    BY <2>1, <2>2 DEF Want, Commits
  <2>4. policies'[v.policy] = policies[v.policy]
    BY <1>1, <2>1, <2>3, Zenon DEF Adds
  <2>5. QED BY <1>2, <1>5, <2>4, Zenon DEF Matches, Row
<1>6. HasSeen(v)'
  BY <1>1, <1>2, CommitKeepsSeen, Zenon
<1>7. QED BY <1>1, <1>2, <1>4, <1>5, <1>6, Zenon DEF AttemptInv

LEMMA CommitKeepsVersions ==
    ASSUME RetentionInv, NEW c \in Attempts, NEW k \in Keys, NEW w \in Want,
           NEW p, NEW n, NEW row, Commits(c, k, w, p, n, row)
    PROVE  VersionsInv'
<1>1. /\ row.at <= moment' /\ moment' = moment /\ row.seen = w.seen /\ row.key = k
      /\ row.at \in Nat /\ \E r \in requests' : r.key = k
      /\ requests \subseteq requests'
  BY Zenon DEF Commits, Version
<1>2. policies' \in Seq(Seq(Version)) /\ Adds(p, n, row)
  BY DEF Commits, RetentionTypeOK
<1>3. ASSUME NEW q \in DOMAIN policies', NEW i \in DOMAIN policies'[q]
      PROVE  /\ policies'[q][i].at <= moment'
             /\ \E r \in requests' : r.key = policies'[q][i].key
             /\ i >= 2 => policies'[q][i].seen \in 1..(i - 1)
  <2>1. CASE Added(q, i, p, n, row)
    <3>1. n >= 2 => w.op # "create"
      BY CommitFollows
    <3>2. p \in DOMAIN policies => Len(policies[p]) \in Nat
      BY DEF RetentionInv, RetentionTypeOK
    <3>3. n >= 2 => w.seen \in 1..(n - 1)
      BY <3>1, <3>2, CommitFollows
    <3>4. QED BY <1>1, <2>1, <3>3 DEF Added
  <2>2. CASE Kept(q, i)
    BY <1>1, <2>2 DEF RetentionInv, VersionsInv, Kept
  <2>3. QED BY <1>2, <2>1, <2>2, KeptOrAdded, Zenon
<1>4. ASSUME NEW q \in DOMAIN policies', NEW i \in DOMAIN policies'[q],
             NEW j \in DOMAIN policies'[q], i <= j
      PROVE  policies'[q][i].at <= policies'[q][j].at
  <2>1. i \in Nat /\ j \in Nat /\ policies'[q][i].at \in Nat /\ policies'[q][j].at \in Nat
    <3>1. policies'[q] \in Seq(Version)
      BY <1>2
    <3>2. policies'[q][i] \in Version /\ policies'[q][j] \in Version /\ i \in Nat /\ j \in Nat
      BY <3>1
    <3>3. QED BY <3>2 DEF Version
  <2>2. CASE i = j
    BY <2>1, <2>2
  <2>3. CASE i # j /\ q = p /\ i = n
    BY <1>2, <1>4, <2>1, <2>3 DEF Adds
  <2>4. CASE ~ (q = p /\ i = n) /\ q = p /\ j = n
    <3>1. p \in DOMAIN policies /\ i \in DOMAIN policies[p] /\ policies'[p][i] = policies[p][i]
      BY <1>2, <2>4, AddsOne
    <3>2. w.op # "create" /\ policies[p][i].at <= w.expected /\ w.expected <= row.at
      BY <3>1, CommitFollows, Zenon
    <3>3. policies'[p][n] = row /\ w.expected \in Nat
      BY <1>2, Zenon DEF Adds, Want
    <3>4. QED BY <1>1, <2>1, <2>4, <3>1, <3>2, <3>3
  <2>5. CASE ~ (q = p /\ i = n) /\ ~ (q = p /\ j = n)
    <3>1. /\ q \in DOMAIN policies /\ i \in DOMAIN policies[q] /\ j \in DOMAIN policies[q]
          /\ policies'[q][i] = policies[q][i] /\ policies'[q][j] = policies[q][j]
      BY <1>2, <2>5, AddsOne
    <3>2. QED BY <1>4, <3>1, Zenon DEF RetentionInv, VersionsInv
  <2>6. QED BY <2>2, <2>3, <2>4, <2>5, Zenon
<1>5. QED BY <1>3, <1>4, Zenon DEF VersionsInv

LEMMA CommitKeepsKeys ==
    ASSUME RetentionInv, NEW c \in Attempts, NEW k \in Keys, NEW w \in Want,
           NEW p, NEW n, NEW row, Commits(c, k, w, p, n, row)
    PROVE  KeysAppliedOnce'
<1>1. Adds(p, n, row) /\ row.key = k /\ \A r \in requests : r.key # k
  BY Zenon DEF Commits
<1>2. ASSUME NEW q \in DOMAIN policies, NEW i \in DOMAIN policies[q]
      PROVE  policies[q][i].key # row.key
  <2>1. \E r \in requests : r.key = policies[q][i].key
    BY Zenon DEF RetentionInv, VersionsInv
  <2>2. QED BY <1>1, <2>1
<1>3. KeysAppliedOnce
  BY Zenon DEF RetentionInv, UpdateReplacesWhatWasSeen
<1>4. ASSUME NEW q \in DOMAIN policies', NEW s \in DOMAIN policies',
             NEW i \in DOMAIN policies'[q], NEW j \in DOMAIN policies'[s],
             policies'[q][i].key = policies'[s][j].key
      PROVE  q = s /\ i = j
  <2>1. \/ /\ q \in DOMAIN policies /\ i \in DOMAIN policies[q]
           /\ policies'[q][i] = policies[q][i]
        \/ q = p /\ i = n /\ policies'[q][i] = row
    BY <1>1, AddsOne
  <2>2. \/ /\ s \in DOMAIN policies /\ j \in DOMAIN policies[s]
           /\ policies'[s][j] = policies[s][j]
        \/ s = p /\ j = n /\ policies'[s][j] = row
    BY <1>1, AddsOne
  <2>3. QED BY <1>2, <1>3, <1>4, <2>1, <2>2 DEF KeysAppliedOnce
<1>5. QED BY <1>4, Zenon DEF KeysAppliedOnce

LEMMA CommitKeepsUpdates ==
    ASSUME RetentionInv, NEW c \in Attempts, NEW k \in Keys, NEW w \in Want,
           NEW p, NEW n, NEW row, Commits(c, k, w, p, n, row), VersionsInv',
           NEW q \in DOMAIN policies', NEW i \in 2..Len(policies'[q]),
           NEW j \in policies'[q][i].seen..(i - 1)
    PROVE  policies'[q][j].at = policies'[q][policies'[q][i].seen].at
<1> DEFINE seen == policies'[q][i].seen
<1>0. Adds(p, n, row) /\ row.seen = w.seen /\ policies' \in Seq(Seq(Version))
  BY CommittedRow, Zenon
<1>1. policies'[q] \in Seq(Version) /\ i \in DOMAIN policies'[q]
  BY <1>0
<1>2. seen \in 1..(i - 1) /\ j \in 1..(i - 1) /\ i \in Nat /\ j \in seen..(i - 1)
  BY <1>1 DEF VersionsInv
<1>3. seen \in DOMAIN policies'[q] /\ j \in DOMAIN policies'[q] /\ seen <= j
  BY <1>1, <1>2
<1>4. CASE Added(q, i, p, n, row)
  <2>0. q = p /\ i = n /\ policies'[q][i] = row
    BY <1>4, Zenon DEF Added
  <2>1. w.op # "create"
    BY <2>0, CommitFollows
  <2>2. /\ p \in DOMAIN policies /\ seen \in DOMAIN policies[p] /\ j \in DOMAIN policies[p]
        /\ policies'[p][j] = policies[p][j] /\ policies'[p][seen] = policies[p][seen]
    BY <1>0, <1>2, <1>3, <2>0, AddsOne
  <2>3. seen = w.seen
    BY <1>0, <2>0, Zenon
  <2>4. policies[p][j].at <= w.expected /\ policies[p][seen].at = w.expected
    BY <2>1, <2>2, <2>3, CommitFollows
  <2>5. policies[p][seen].at <= policies[p][j].at
    BY <1>3, <2>2, Zenon DEF RetentionInv, VersionsInv
  <2>6. policies[p][j].at \in Nat /\ policies[p][seen].at \in Nat
    BY <2>2, VersionOf DEF RetentionInv
  <2>7. QED BY <2>0, <2>2, <2>4, <2>5, <2>6
<1>5. CASE Kept(q, i)
  <2>0. q \in DOMAIN policies /\ i \in DOMAIN policies[q] /\ policies'[q][i] = policies[q][i]
    BY <1>5 DEF Kept
  <2>1. policies[q] \in Seq(Version)
    BY <2>0, PoliciesType, Zenon
  <2>2. seen \in DOMAIN policies[q] /\ j \in DOMAIN policies[q] /\ i \in 2..Len(policies[q])
    BY <1>2, <2>0, <2>1
  <2>3. policies'[q][j] = policies[q][j] /\ policies'[q][seen] = policies[q][seen]
    BY <1>0, <2>0, <2>2, AddsOne, Zenon
  <2>4. policies[q][j].at = policies[q][seen].at
    BY <1>2, <2>0, <2>2 DEF RetentionInv, UpdateReplacesWhatWasSeen
  <2>5. QED BY <2>3, <2>4, Zenon
<1>6. QED BY <1>0, <1>1, <1>4, <1>5, KeptOrAdded, Zenon

LEMMA CommitPolicyStep ==
    ASSUME RetentionInv, NEW c \in Attempts, CommitPolicy(c)
    PROVE  RetentionInv'
<1>1. PICK k \in Keys, w \in Want : \E p, n, row : Commits(c, k, w, p, n, row)
  BY CommitPolicyCommits
<1>2. PICK p, n, row : Commits(c, k, w, p, n, row)
  BY <1>1, Zenon
<1>3. /\ RetentionTypeOK' /\ Adds(p, n, row) /\ wants' = wants
      /\ attempts'[c].pc = "idle" /\ \A d \in Attempts \ {c} : attempts'[d] = attempts[d]
  BY <1>2, Zenon DEF Commits
<1>4. \A q \in Keys : WantInv(q)'
  <2>1. \A v \in Want : HasSeen(v) => HasSeen(v)'
    BY <1>3, CommitKeepsSeen
  <2>2. QED BY <1>3, <2>1, Zenon DEF RetentionInv, WantInv
<1>5. \A d \in Attempts : attempts'[d].pc # "idle" => AttemptInv(d)'
  BY <1>2, CommitKeepsAttempts, Zenon
<1>6. KeysAreExclusive'
  BY <1>3 DEF RetentionInv, KeysAreExclusive, InTransaction
<1>7. RowsAreExclusive'
  BY <1>3 DEF RetentionInv, RowsAreExclusive
<1>8. VersionsInv'
  BY <1>2, CommitKeepsVersions
<1>9. UpdateReplacesWhatWasSeen'
  BY <1>2, <1>8, CommitKeepsKeys, CommitKeepsUpdates, Zenon DEF UpdateReplacesWhatWasSeen
<1>10. QED BY <1>3, <1>4, <1>5, <1>6, <1>7, <1>8, <1>9, Zenon DEF RetentionInv

LEMMA RetentionNextKeeps == RetentionInv /\ [RetentionNext]_retentionVars => RetentionInv'
<1> SUFFICES ASSUME RetentionInv, [RetentionNext]_retentionVars PROVE RetentionInv'
  OBVIOUS
<1>1. CASE UNCHANGED retentionVars
  <2>1. UNCHANGED <<policies, requests, wants, attempts, moment>>
    BY <1>1 DEF retentionVars
  <2>2. RetentionTypeOK'
    BY <2>1, SMTT(30) DEF RetentionInv, RetentionTypeOK
  <2>3. (\A k \in Keys : WantInv(k)') /\ \A c \in Attempts : AttemptInv(c) => AttemptInv(c)'
    BY <2>1, SMTT(30) DEF RetentionInv, WantInv, AttemptInv, HasSeen, Matches, Row
  <2>4. KeysAreExclusive' /\ RowsAreExclusive' /\ VersionsInv' /\ UpdateReplacesWhatWasSeen'
    BY <2>1 DEF RetentionInv, KeysAreExclusive, RowsAreExclusive, VersionsInv,
                UpdateReplacesWhatWasSeen, KeysAppliedOnce
  <2>5. QED BY <2>1, <2>2, <2>3, <2>4, Zenon DEF RetentionInv
<1>2. ASSUME NEW c \in Attempts, Crash(c) PROVE RetentionInv'
  BY <1>2, AttemptEnds, Zenon DEF Crash
<1>3. QED
  BY <1>1, <1>2, MomentPassesStep, WantStep, SendRequestStep, LockStep, InsertPolicyStep,
     UpdatePolicyStep, CommitPolicyStep, SMTT(30) DEF RetentionNext

(* However requests overlap, are repeated or lose their connection, an     *)
(* update that is kept replaces the version its caller saw, or one written *)
(* at that same instant, and a key is applied once: for any number of      *)
(* policies, keys and requests in flight (update of                        *)
(* PostgresRetentionPolicyRepository).                                     *)
THEOREM UpdatesReplaceWhatWasSeen == RetentionSpec => []UpdateReplacesWhatWasSeen
<1>1. RetentionInv => UpdateReplacesWhatWasSeen
  BY DEF RetentionInv
<1>2. QED BY <1>1, RetentionInitHolds, RetentionNextKeeps, PTL DEF RetentionSpec
=============================================================================
