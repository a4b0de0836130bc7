-------------------------- MODULE CamSessionProofs --------------------------
(***************************************************************************)
(* Theorems about CamSession, for any number of connections, session       *)
(* numbers and failing writes: the session table and the lists of the      *)
(* applications agree, the lists hold one freed session for every          *)
(* OPEN_SESSION_RESPONSE that was lost, and as long as none is lost the    *)
(* host implements SessionService.                                         *)
(***************************************************************************)
EXTENDS CamSession, FiniteSetTheorems, SequenceTheorems, TLAPS

(* Lists *)

\* A list without its i-th entry.
LEMMA WithoutType ==
  ASSUME NEW S, NEW s \in Seq(S), NEW i \in 1..Len(s)
  PROVE  /\ Without(s, i) \in Seq(S) /\ Len(Without(s, i)) = Len(s) - 1
         /\ \A j \in 1..(Len(s) - 1) :
               Without(s, i)[j] = IF j < i THEN s[j] ELSE s[j + 1]
<1>1. Len(s) \in Nat /\ \A j \in 1..(Len(s) - 1) : j \in 1..Len(s) /\ j + 1 \in 1..Len(s)
  BY LenProperties
<1>2. \A j \in 1..(Len(s) - 1) : (IF j < i THEN s[j] ELSE s[j + 1]) \in S
  BY <1>1, ElementOfSeq
<1>3. Without(s, i) \in [1..(Len(s) - 1) -> S]
  BY <1>2 DEF Without
<1>4. Len(s) - 1 \in Nat
  BY <1>1
<1>5. QED
  BY <1>3, <1>4 DEF Without

\* Removing an entry other than m neither removes m nor duplicates it.
LEMMA WithoutKeeps ==
  ASSUME NEW S, NEW s \in Seq(S), NEW i \in 1..Len(s), NEW m, s[i] # m
  PROVE  /\ On(m, Without(s, i)) <=> On(m, s)
         /\ Once(m, s) => Once(m, Without(s, i))
<1> DEFINE w == Without(s, i)
<1>1. Len(s) \in Nat /\ Len(w) = Len(s) - 1
      /\ \A j \in 1..Len(w) : w[j] = IF j < i THEN s[j] ELSE s[j + 1]
  BY WithoutType, LenProperties
<1> HIDE DEF w
<1>2. ASSUME NEW j \in 1..Len(w), w[j] = m PROVE \E k \in 1..Len(s) : s[k] = m
  BY <1>1, <1>2
<1>3. ASSUME NEW k \in 1..Len(s), s[k] = m PROVE \E j \in 1..Len(w) : w[j] = m
  <2>1. CASE k < i
    BY <1>1, <1>3, <2>1
  <2>2. CASE k > i
    <3>1. k - 1 \in 1..Len(w) /\ w[k - 1] = s[k]
      BY <1>1, <2>2
    <3>2. QED
      BY <1>3, <3>1
  <2>3. QED
    BY <1>1, <1>3, <2>1, <2>2
<1>4. ASSUME \A j, k \in 1..Len(s) : s[j] = m /\ s[k] = m => j = k,
             NEW j \in 1..Len(w), NEW k \in 1..Len(w), w[j] = m, w[k] = m
      PROVE  j = k
  <2> DEFINE old(x) == IF x < i THEN x ELSE x + 1
  <2>1. old(j) \in 1..Len(s) /\ old(k) \in 1..Len(s) /\ s[old(j)] = m /\ s[old(k)] = m
    BY <1>1, <1>4
  <2>2. old(j) = old(k)
    BY <1>4, <2>1
  <2>3. QED
    BY <1>1, <2>2
<1>5. QED
  BY <1>2, <1>3, <1>4 DEF w, On, Once
-----------------------------------------------------------------------------
\* A larger bound on session numbers keeps a list well typed.
LEMMA ListGrows ==
  ASSUME NEW m \in Nat, NEW s \in Seq(1..m)
  PROVE  s \in Seq(1..(m + 1)) /\ Append(s, m + 1) \in Seq(1..(m + 1))
<1>1. Len(s) \in Nat /\ s \in [1..Len(s) -> 1..m]
  BY LenProperties
<1>2. s \in [1..Len(s) -> 1..(m + 1)]
  BY <1>1
<1>3. s \in Seq(1..(m + 1))
  BY <1>1, <1>2, SeqDef
<1>4. QED
  BY <1>3, AppendProperties

\* What accepting a session does to the lists.
LEMMA LinkedType ==
  ASSUME TypeOK, HasNumber, NEW a \in Application, Linked(a, session_ids + 1)
  PROVE  /\ sessions' \in [Application -> Seq(1..(session_ids + 1))]
         /\ \A b \in Application \ {a} : sessions'[b] = sessions[b]
         /\ Len(sessions'[a]) = Len(sessions[a]) + 1
         /\ sessions'[a][Len(sessions[a]) + 1] = session_ids + 1
         /\ \A i \in 1..Len(sessions[a]) : sessions'[a][i] = sessions[a][i]
<1>1. session_ids \in Nat /\ \A b \in Application : sessions[b] \in Seq(1..session_ids)
  BY DEF TypeOK
<1>2. sessions'[a] = Append(sessions[a], session_ids + 1)
      /\ \A b \in Application \ {a} : sessions'[b] = sessions[b]
  BY DEF Linked, TypeOK
<1>3. \A b \in Application : sessions'[b] \in Seq(1..(session_ids + 1))
  BY <1>1, <1>2, ListGrows
<1>4. sessions' \in [Application -> Seq(1..(session_ids + 1))]
  BY <1>3 DEF Linked, TypeOK
<1>5. QED
  BY <1>1, <1>2, <1>4, AppendProperties

-----------------------------------------------------------------------------
(* The session layer closes a session *)

\* The link deleted is the session's own or, before it, a dangling one.
LEMMA ClosedLink ==
  ASSUME TypeOK, ListsMatchTable, NEW n \in table, Closed(n)
  PROVE  /\ session[n].app \in Application /\ table' = table \ {n}
         /\ \E i \in 1..Len(sessions[session[n].app]) :
              /\ sessions' = [sessions EXCEPT ![session[n].app] = Without(@, i)]
              /\ \/ sessions[session[n].app][i] = n
                 \/ i \in Dangling(session[n].app)
<1> DEFINE a == session[n].app
           own == CHOOSE i \in 1..Len(sessions[a]) : sessions[a][i] = n
<1>1. a \in Application
  BY DEF ListsMatchTable
<1>2. own \in 1..Len(sessions[a]) /\ sessions[a][own] = n
  BY <1>1 DEF ListsMatchTable, On
<1>3. PICK i \in {own} \cup {d \in Dangling(a) : d < own} :
        sessions' = [sessions EXCEPT ![a] = Without(@, i)]
  BY DEF Closed
<1>4. table' = table \ {n}
  BY DEF Closed
<1>5. QED
  BY <1>1, <1>2, <1>3, <1>4 DEF Dangling

\* The lists stay well typed when a session is closed.
LEMMA ClosedType ==
  ASSUME TypeOK, ListsMatchTable, NEW n \in table, Closed(n)
  PROVE  sessions' \in [Application -> Seq(1..session_ids)] /\ table' \subseteq table
<1>1. PICK i \in 1..Len(sessions[session[n].app]) :
         sessions' = [sessions EXCEPT ![session[n].app] = Without(@, i)]
  BY ClosedLink
<1>2. session[n].app \in Application /\ table' = table \ {n}
  BY ClosedLink
<1>3. Without(sessions[session[n].app], i) \in Seq(1..session_ids)
  BY <1>2, WithoutType DEF TypeOK
<1>4. QED
  BY <1>1, <1>2, <1>3 DEF TypeOK

\* The lists still match when a session is closed.
LEMMA ClosedMatches ==
  ASSUME TypeOK, ListsMatchTable, NEW n \in table, Closed(n), session' = session
  PROVE  ListsMatchTable'
<1> DEFINE a == session[n].app
<1>1. PICK i \in 1..Len(sessions[a]) :
        /\ sessions' = [sessions EXCEPT ![a] = Without(@, i)]
        /\ sessions[a][i] = n \/ i \in Dangling(a)
  BY ClosedLink
<1>2. a \in Application /\ table' = table \ {n}
  BY ClosedLink
<1>3. sessions'[a] = Without(sessions[a], i) /\ sessions[a] \in Seq(1..session_ids)
      /\ \A b \in Application \ {a} : sessions'[b] = sessions[b]
  BY <1>1, <1>2 DEF TypeOK
<1>4. ASSUME NEW m \in table' PROVE sessions[a][i] # m
  BY <1>1, <1>2 DEF Dangling
<1>5. i \in 1..Len(sessions[a])
  OBVIOUS
<1> HIDE DEF a
<1>6. ASSUME NEW m \in table', NEW b \in Application
      PROVE  (On(m, sessions'[b]) <=> b = session[m].app) /\ Once(m, sessions'[b])
  <2>1. m \in table
    BY <1>2
  <2>2. CASE b # a
    BY <1>3, <2>1, <2>2 DEF ListsMatchTable
  <2>3. CASE b = a
    <3>1. (On(m, sessions[a]) <=> a = session[m].app) /\ Once(m, sessions[a])
      BY <1>2, <2>1 DEF ListsMatchTable
    <3>2. QED
      BY <1>3, <1>4, <1>5, <2>3, <3>1, WithoutKeeps
  <2>4. QED
    BY <2>2, <2>3
<1>7. QED
  BY <1>2, <1>6 DEF ListsMatchTable

-----------------------------------------------------------------------------
(* Types *)

\* What every accepted request has: one of the three applications, and a fresh number.
LEMMA AcceptedRequest ==
  ASSUME TypeOK, NEW c \in Connections, NEW r \in Resource, NewSession(c, r)
  PROVE  /\ session_ids' = session_ids + 1 /\ session_ids' \in Numbers
         /\ session_ids' \notin table
         /\ session' \in [Numbers -> Session]
         /\ session'[session_ids'].app = r.app
         /\ \A n \in Numbers \ {session_ids'} : session'[n] = session[n]
         /\ Status(r) = "OPEN" => r.app \in Application
<1>1. session_ids' = session_ids + 1 /\ session_ids' \in Numbers /\ session_ids' \notin table
  BY SessionAssumption DEF NewSession, HasNumber, TypeOK, Numbers
<1>2. [app |-> r.app, connection |-> c] \in Session
  BY DEF Session, Resource
<1>3. Status(r) = "OPEN" => r.app \in Application
  BY DEF Status, Installed
<1>4. QED
  BY <1>1, <1>2, <1>3 DEF NewSession, TypeOK

\* A session number handed out fits whatever was typed by a smaller bound.
LEMMA GrownTypes ==
  ASSUME TypeOK, session_ids < MaxSessionIds, session_ids' = session_ids + 1
  PROVE  /\ session_ids' \in 0..MaxSessionIds /\ table \subseteq 1..session_ids'
         /\ sessions \in [Application -> Seq(1..session_ids')]
<1>1. session_ids \in Nat /\ \A a \in Application : sessions[a] \in Seq(1..(session_ids + 1))
  BY ListGrows DEF TypeOK
<1>2. QED
  BY <1>1, SessionAssumption DEF TypeOK

\* Every step keeps the types.
LEMMA TypeStep == TypeOK /\ ListsMatchTable /\ [Next]_vars => TypeOK'
<1> SUFFICES ASSUME TypeOK, ListsMatchTable, [Next]_vars PROVE TypeOK'
  OBVIOUS
<1>0. table \subseteq Numbers
  BY SessionAssumption DEF TypeOK, Numbers
<1>1. ASSUME NEW c \in Connections, NEW r \in Resource, OpenSessionRequest(c, r) PROVE TypeOK'
  <2>1. NewSession(c, r)
    BY <1>1 DEF OpenSessionRequest, RefuseSession, RefuseSessionSilently, OpenSession, LoseSession
  <2>2. /\ session_ids' = session_ids + 1 /\ session_ids' \in Numbers
        /\ session' \in [Numbers -> Session] /\ session_ids < MaxSessionIds
    BY <2>1, AcceptedRequest DEF NewSession, HasNumber
  <2>3. /\ session_ids' \in 0..MaxSessionIds /\ table \subseteq 1..session_ids'
        /\ sessions \in [Application -> Seq(1..session_ids')]
    BY <2>2, GrownTypes
  <2>4. CASE RefuseSession(c, r) \/ RefuseSessionSilently(c, r)
    <3>1. faults' \in Nat /\ told' \in [Numbers -> {"nothing", "open", "refused", "closed"}]
      BY <2>2, <2>4 DEF RefuseSession, RefuseSessionSilently, Tell, TypeOK
    <3>2. apdus' = {} /\ UNCHANGED <<alive, table, sessions, ready, over, lost>>
      BY <2>4 DEF RefuseSession, RefuseSessionSilently
    <3>3. QED
      BY <2>2, <2>3, <3>1, <3>2 DEF TypeOK
  <2>5. CASE OpenSession(c, r) \/ LoseSession(c, r)
    <3>1. r.app \in Application /\ Linked(r.app, session_ids + 1)
      BY <2>1, <2>2, <2>5, AcceptedRequest DEF OpenSession, LoseSession
    <3>2. sessions' \in [Application -> Seq(1..session_ids')]
      BY <2>1, <2>2, <3>1, LinkedType DEF NewSession
    <3>3. faults' \in Nat /\ told' \in [Numbers -> {"nothing", "open", "refused", "closed"}]
      BY <2>2, <2>5 DEF OpenSession, LoseSession, Tell, TypeOK
    <3>4. /\ table' \subseteq table \cup {session_ids'} /\ apdus' \subseteq {session_ids'}
          /\ lost' \in Nat /\ UNCHANGED <<alive, ready, over>>
      BY <2>5 DEF OpenSession, LoseSession, TypeOK
    <3>5. session_ids' \in 1..session_ids'
      BY <2>2 DEF Numbers
    <3>6. QED
      BY <2>2, <2>3, <3>2, <3>3, <3>4, <3>5 DEF TypeOK
  <2>6. QED
    BY <1>1, <2>4, <2>5 DEF OpenSessionRequest
<1>2. ASSUME NEW n \in Numbers, CreateSessionResponse(n) \/ ProfileData(n) PROVE TypeOK'
  <2>1. faults' \in Nat /\ apdus' \subseteq Numbers
    BY <1>2 DEF CreateSessionResponse, ProfileData, Apdu, WriteFails, TypeOK
  <2>2. UNCHANGED <<alive, session_ids, table, session, sessions, ready, told, over, lost>>
    BY <1>2 DEF CreateSessionResponse, ProfileData
  <2>3. QED
    BY <2>1, <2>2 DEF TypeOK
<1>3. ASSUME NEW n \in Numbers, CloseSessionRequest(n) \/ CloseSessionResponse(n) PROVE TypeOK'
  <2>1. n \in table /\ Closed(n)
    BY <1>3 DEF CloseSessionRequest, CloseSessionResponse, Received
  <2>2. sessions' \in [Application -> Seq(1..session_ids)] /\ table' \subseteq table
    BY <2>1, ClosedType
  <2>3. told' \in [Numbers -> {"nothing", "open", "refused", "closed"}] /\ over' \subseteq Numbers
    BY <1>3 DEF CloseSessionRequest, CloseSessionResponse, Tell, CloseResponse, TypeOK
  <2>4. QED
    BY <1>3, <2>2, <2>3 DEF CloseSessionRequest, CloseSessionResponse, TypeOK
<1>4. ASSUME NEW n \in Numbers, CloseSessionRequestFails(n) \/ InfoReply(n) PROVE TypeOK'
  <2>1. faults' \in Nat
    BY <1>4 DEF CloseSessionRequestFails, InfoReply, WriteFails, TypeOK
  <2>2. apdus' = {} /\ ready' \in BOOLEAN
    BY <1>4 DEF CloseSessionRequestFails, InfoReply, TypeOK
  <2>3. UNCHANGED <<alive, session_ids, table, session, sessions, told, over, lost>>
    BY <1>4 DEF CloseSessionRequestFails, InfoReply
  <2>4. QED
    BY <2>1, <2>3, <2>2 DEF TypeOK
<1>5. CASE SetPmt
  <2>1. Usable \subseteq Numbers /\ Stray \subseteq Numbers
    <3>1. sessions["cas"] \in Seq(1..session_ids)
      BY DEF TypeOK, Application
    <3>2. Entries(sessions["cas"]) \subseteq Numbers
      BY <3>1, ElementOfSeq, SessionAssumption DEF Entries, Numbers, TypeOK
    <3>3. QED
      BY <1>0, <3>2 DEF Usable, Stray
  <2>2. apdus' \subseteq Numbers /\ faults' \in Nat
    BY <1>5, <2>1 DEF SetPmt, TypeOK
  <2>3. QED
    BY <1>5, <2>2 DEF SetPmt, TypeOK
<1>6. ASSUME NEW c \in Connections, DeleteConnection(c) PROVE TypeOK'
  BY <1>6 DEF DeleteConnection, TypeOK
<1>7. CASE Restart
  <2>1. session' \in [Numbers -> Session]
    BY <1>7, SessionAssumption DEF Restart, NoSession, Session
  <2>2. sessions' \in [Application -> Seq(1..session_ids')]
    BY <1>7, EmptySeq DEF Restart
  <2>3. told' \in [Numbers -> {"nothing", "open", "refused", "closed"}] /\ faults' \in Nat
    BY <1>7 DEF Restart, TypeOK
  <2>4. /\ alive' = Connections /\ session_ids' = 0 /\ table' = {} /\ ready' = FALSE
        /\ apdus' = {} /\ over' = {} /\ lost' = 0
    BY <1>7 DEF Restart
  <2>5. session_ids' \in 0..MaxSessionIds /\ lost' \in Nat
    BY <2>4, SessionAssumption
  <2>6. QED
    BY <2>1, <2>2, <2>3, <2>4, <2>5 DEF TypeOK
<1>8. CASE UNCHANGED vars
  BY <1>8 DEF vars, TypeOK
<1>9. QED
  BY <1>1, <1>2, <1>3, <1>4, <1>5, <1>6, <1>7, <1>8 DEF Next, Spdu
-----------------------------------------------------------------------------
(* The table and the lists *)

\* A newly linked number is on its list once, and changes nothing for the others.
LEMMA LinkedMatches ==
  ASSUME TypeOK, HasNumber, NEW a \in Application, Linked(a, session_ids + 1)
  PROVE  /\ \A b \in Application : On(session_ids + 1, sessions'[b]) <=> b = a
         /\ \A b \in Application : Once(session_ids + 1, sessions'[b])
         /\ \A b \in Application, m \in 1..session_ids :
               /\ On(m, sessions'[b]) <=> On(m, sessions[b])
               /\ Once(m, sessions[b]) => Once(m, sessions'[b])
<1>1. /\ \A b \in Application \ {a} : sessions'[b] = sessions[b]
      /\ Len(sessions'[a]) = Len(sessions[a]) + 1
      /\ sessions'[a][Len(sessions[a]) + 1] = session_ids + 1
      /\ \A i \in 1..Len(sessions[a]) : sessions'[a][i] = sessions[a][i]
  BY LinkedType
<1>2. session_ids \in Nat
  BY DEF TypeOK
<1>3. ASSUME NEW b \in Application
      PROVE  Len(sessions[b]) \in Nat /\ \A i \in 1..Len(sessions[b]) : sessions[b][i] \in 1..session_ids
  <2>1. sessions[b] \in Seq(1..session_ids)
    BY DEF TypeOK
  <2>2. QED
    BY <2>1, LenProperties, ElementOfSeq
<1>4. \A b \in Application : On(session_ids + 1, sessions'[b]) <=> b = a
  BY <1>1, <1>2, <1>3 DEF On
<1>5. \A b \in Application : Once(session_ids + 1, sessions'[b])
  <2>1. ASSUME NEW i \in 1..Len(sessions'[a]), sessions'[a][i] = session_ids + 1
        PROVE  i = Len(sessions[a]) + 1
    BY <1>1, <1>2, <1>3, <2>1
  <2>2. ASSUME NEW b \in Application \ {a}, NEW i \in 1..Len(sessions'[b])
        PROVE  sessions'[b][i] # session_ids + 1
    BY <1>1, <1>2, <1>3
  <2>3. Once(session_ids + 1, sessions'[a])
    BY <2>1 DEF Once
  <2>4. \A b \in Application \ {a} : Once(session_ids + 1, sessions'[b])
    BY <2>2 DEF Once
  <2>5. QED
    BY <2>3, <2>4
<1>6. ASSUME NEW m \in 1..session_ids
      PROVE  (On(m, sessions'[a]) <=> On(m, sessions[a]))
             /\ (Once(m, sessions[a]) => Once(m, sessions'[a]))
  <2>1. m # session_ids + 1
    BY <1>2
  <2>2. \A i \in 1..Len(sessions'[a]) : i \in 1..Len(sessions[a]) \/ i = Len(sessions[a]) + 1
    BY <1>1, <1>3
  <2>3. \A i \in 1..Len(sessions[a]) : i \in 1..Len(sessions'[a])
    BY <1>1, <1>3
  <2>4. QED
    BY <1>1, <2>1, <2>2, <2>3 DEF On, Once
<1>7. QED
  BY <1>1, <1>4, <1>5, <1>6

\* Every step keeps the table and the lists in agreement.
LEMMA MatchStep == TypeOK /\ ListsMatchTable /\ [Next]_vars => ListsMatchTable'
<1> SUFFICES ASSUME TypeOK, ListsMatchTable, [Next]_vars PROVE ListsMatchTable'
  OBVIOUS
<1>0. session_ids \in Nat /\ table \subseteq 1..session_ids /\ table \subseteq Numbers
  BY SessionAssumption DEF TypeOK, Numbers
<1>1. ASSUME UNCHANGED <<table, session, sessions>> PROVE ListsMatchTable'
  BY <1>1 DEF ListsMatchTable
<1>2. ASSUME NEW c \in Connections, NEW r \in Resource, OpenSessionRequest(c, r)
      PROVE  ListsMatchTable'
  <2>1. NewSession(c, r)
    BY <1>2 DEF OpenSessionRequest, RefuseSession, RefuseSessionSilently, OpenSession, LoseSession
  <2>2. /\ session_ids' = session_ids + 1 /\ HasNumber
        /\ session'[session_ids'].app = r.app /\ session_ids' \notin table
        /\ \A n \in table : session'[n] = session[n]
    BY <1>0, <2>1, AcceptedRequest DEF NewSession
  <2>3. CASE RefuseSession(c, r) \/ RefuseSessionSilently(c, r)
    BY <2>2, <2>3 DEF RefuseSession, RefuseSessionSilently, ListsMatchTable
  <2>4. CASE OpenSession(c, r) \/ LoseSession(c, r)
    <3>1. r.app \in Application /\ Linked(r.app, session_ids + 1)
      BY <2>1, <2>2, <2>4, AcceptedRequest DEF OpenSession, LoseSession
    <3>2. ASSUME NEW n \in table
          PROVE  /\ session'[n].app \in Application
                 /\ \A a \in Application : /\ On(n, sessions'[a]) <=> a = session'[n].app
                                          /\ Once(n, sessions'[a])
      BY <1>0, <2>2, <3>1, LinkedMatches DEF ListsMatchTable
    <3>3. \A a \in Application :
             (On(session_ids', sessions'[a]) <=> a = r.app) /\ Once(session_ids', sessions'[a])
      BY <2>2, <3>1, LinkedMatches
    <3>4. table' \subseteq table \cup {session_ids'}
      BY <2>4 DEF OpenSession, LoseSession
    <3>5. QED
      BY <2>2, <3>1, <3>2, <3>3, <3>4 DEF ListsMatchTable
  <2>5. QED
    BY <1>2, <2>3, <2>4 DEF OpenSessionRequest
<1>3. ASSUME NEW n \in Numbers, CloseSessionRequest(n) \/ CloseSessionResponse(n)
      PROVE  ListsMatchTable'
  BY <1>3, ClosedMatches DEF CloseSessionRequest, CloseSessionResponse, Received
<1>4. ASSUME NEW n \in Numbers,
             \/ CreateSessionResponse(n) \/ ProfileData(n)
             \/ CloseSessionRequestFails(n) \/ InfoReply(n)
      PROVE  ListsMatchTable'
  BY <1>1, <1>4 DEF CreateSessionResponse, ProfileData, CloseSessionRequestFails, InfoReply
<1>5. ASSUME NEW c \in Connections, DeleteConnection(c) PROVE ListsMatchTable'
  BY <1>1, <1>5 DEF DeleteConnection
<1>6. CASE SetPmt
  BY <1>1, <1>6 DEF SetPmt
<1>7. CASE Restart
  BY <1>7 DEF Restart, ListsMatchTable
<1>8. CASE UNCHANGED vars
  BY <1>1, <1>8 DEF vars
<1>9. QED
  BY <1>2, <1>3, <1>4, <1>5, <1>6, <1>7, <1>8 DEF Next, Spdu

\* The device starts with no session.
LEMMA SessionInit == Init => TypeOK /\ ListsMatchTable
<1> SUFFICES ASSUME Init PROVE TypeOK /\ ListsMatchTable
  OBVIOUS
<1>1. session \in [Numbers -> Session]
  BY SessionAssumption DEF Init, NoSession, Session
<1>2. sessions \in [Application -> Seq(1..session_ids)]
  BY EmptySeq DEF Init
<1>3. told \in [Numbers -> {"nothing", "open", "refused", "closed"}]
  BY DEF Init
<1>4. /\ alive = Connections /\ session_ids = 0 /\ table = {} /\ ready = FALSE
      /\ apdus = {} /\ over = {} /\ lost = 0 /\ faults = MaxFaults
  BY DEF Init
<1>5. session_ids \in 0..MaxSessionIds /\ lost \in Nat /\ faults \in Nat
  BY <1>4, SessionAssumption
<1>6. QED
  BY <1>1, <1>2, <1>3, <1>4, <1>5 DEF TypeOK, ListsMatchTable

\* The session table and the lists of the applications agree, for any number of
\* connections and sessions and any failing writes.  Types and agreement are inductive
\* only together: a session can be unlinked because it is on the list.
THEOREM ListsMatch == Spec => [](TypeOK /\ ListsMatchTable)
<1>1. (TypeOK /\ ListsMatchTable) /\ [Next]_vars => (TypeOK /\ ListsMatchTable)'
  BY TypeStep, MatchStep
<1>2. QED
  BY SessionInit, <1>1, PTL DEF Spec

\* Session numbers stay within the width of the counter and every list, table and history
\* variable within its type.
THEOREM SessionTypes == Spec => []TypeOK
BY ListsMatch, PTL
-----------------------------------------------------------------------------
(* The promises of SessionService *)

\* The table holds the sessions the module was told are open and that are not over, unused
\* numbers were never told, and without a lost response no application holds a dangling
\* session.
PromisesInv ==
  /\ \A n \in Numbers : told[n] = "open" /\ n \notin over <=> n \in table
  /\ \A n \in Numbers : n > session_ids => told[n] = "nothing" /\ n \notin over
  /\ lost = 0 => \A a \in Application : Dangling(a) = {}

\* A list with no dangling entry holds only sessions of the table.
LEMMA NoDangling ==
  ASSUME NEW a \in Application, Dangling(a) = {}
  PROVE  \A i \in 1..Len(sessions[a]) : sessions[a][i] \in table
BY DEF Dangling

\* Closing a session leaves no dangling entry where there was none.
LEMMA ClosedCleanly ==
  ASSUME TypeOK, ListsMatchTable, NEW n \in table, Closed(n),
         \A a \in Application : Dangling(a) = {}
  PROVE  \A a \in Application : Dangling(a)' = {}
<1>1. PICK c \in Application : c = session[n].app
  BY ClosedLink
<1>2. /\ table' = table \ {n}
      /\ \E i \in 1..Len(sessions[c]) :
            /\ sessions' = [sessions EXCEPT ![c] = Without(@, i)]
            /\ sessions[c][i] = n \/ i \in Dangling(c)
  BY <1>1, ClosedLink
<1>3. PICK i \in 1..Len(sessions[c]) :
        /\ sessions' = [sessions EXCEPT ![c] = Without(@, i)]
        /\ sessions[c][i] = n \/ i \in Dangling(c)
  BY <1>2
<1>4. sessions[c][i] = n /\ Once(n, sessions[c]) /\ sessions[c] \in Seq(1..session_ids)
  BY <1>1, <1>3 DEF ListsMatchTable, TypeOK
<1>5. /\ sessions'[c] = Without(sessions[c], i)
      /\ \A b \in Application \ {c} : sessions'[b] = sessions[b]
  BY <1>3 DEF TypeOK
<1>6. \A b \in Application \ {c} : ~On(n, sessions[b])
  BY <1>1 DEF ListsMatchTable
<1>7. ASSUME NEW b \in Application, b # c PROVE Dangling(b)' = {}
  <2>1. \A j \in 1..Len(sessions[b]) : sessions[b][j] \in table /\ sessions[b][j] # n
    BY <1>6, <1>7, NoDangling DEF On
  <2>2. QED
    BY <1>2, <1>5, <1>7, <2>1 DEF Dangling
<1>8. Dangling(c)' = {}
  <2>1. Len(sessions[c]) \in Nat /\ Len(sessions'[c]) = Len(sessions[c]) - 1
        /\ \A j \in 1..Len(sessions'[c]) :
              sessions'[c][j] = IF j < i THEN sessions[c][j] ELSE sessions[c][j + 1]
    <3>1. PICK s \in Seq(1..session_ids) : s = sessions[c]
      BY <1>4
    <3>2. i \in 1..Len(s) /\ Len(s) \in Nat
      BY <3>1, LenProperties
    <3>3. /\ Len(Without(s, i)) = Len(s) - 1
          /\ \A j \in 1..(Len(s) - 1) : Without(s, i)[j] = IF j < i THEN s[j] ELSE s[j + 1]
      BY <3>2, WithoutType
    <3>4. QED
      BY <1>5, <3>1, <3>2, <3>3
  <2>2. \A j \in 1..Len(sessions[c]) : j # i => sessions[c][j] \in table /\ sessions[c][j] # n
    BY <1>2, <1>4, NoDangling DEF Once
  <2>3. ASSUME NEW j \in 1..Len(sessions'[c]) PROVE sessions'[c][j] \in table'
    <3>1. CASE j < i
      BY <1>2, <2>1, <2>2, <3>1
    <3>2. CASE j >= i
      <4>1. j + 1 \in 1..Len(sessions[c]) /\ j + 1 # i /\ sessions'[c][j] = sessions[c][j + 1]
        BY <2>1, <3>2
      <4>2. QED
        BY <1>2, <2>2, <4>1
    <3>3. QED
      BY <2>1, <3>1, <3>2
  <2>4. QED
    BY <2>3 DEF Dangling
<1>9. QED
  BY <1>7, <1>8

\* Every step keeps the promises and their invariant.
LEMMA PromiseStep ==
  TypeOK /\ ListsMatchTable /\ PromisesInv /\ [Next]_vars
    => PromisesInv' /\ [lost' = 0 => Service!Next]_(Service!vars)
<1> SUFFICES ASSUME TypeOK, ListsMatchTable, PromisesInv, [Next]_vars
             PROVE  PromisesInv' /\ [lost' = 0 => Service!Next]_(Service!vars)
  OBVIOUS
<1> USE DEF Service!Next, Service!vars
<1>0. /\ session_ids \in Nat /\ table \subseteq Numbers /\ lost \in Nat
      /\ told \in [Numbers -> {"nothing", "open", "refused", "closed"}]
      /\ \A n \in Numbers : n \in Nat
  BY SessionAssumption DEF TypeOK, Numbers
<1>1. ASSUME UNCHANGED <<table, session_ids, told, over, sessions, lost>> PROVE PromisesInv'
  BY <1>1 DEF PromisesInv, Dangling
<1>2. ASSUME UNCHANGED <<told, over>>, apdus' \subseteq table PROVE Service!Next
  BY <1>0, <1>2 DEF Service!Send, Service!OpenNow, PromisesInv
<1>3. ASSUME NEW c \in Connections, NEW r \in Resource, OpenSessionRequest(c, r)
      PROVE  PromisesInv' /\ [lost' = 0 => Service!Next]_(Service!vars)
  <2>1. NewSession(c, r)
    BY <1>3 DEF OpenSessionRequest, RefuseSession, RefuseSessionSilently, OpenSession, LoseSession
  <2>2. /\ session_ids' = session_ids + 1 /\ session_ids' \in Numbers /\ session_ids' \notin table
        /\ HasNumber /\ told[session_ids'] = "nothing" /\ session_ids' \notin over
    <3>1. session_ids' = session_ids + 1 /\ session_ids' \in Numbers /\ session_ids' \notin table
      BY <2>1, AcceptedRequest
    <3>2. session_ids + 1 > session_ids
      BY <1>0
    <3>3. QED
      BY <2>1, <3>1, <3>2 DEF PromisesInv, NewSession
  <2>3. CASE RefuseSession(c, r)
    <3>1. /\ told' = [told EXCEPT ![session_ids'] = "refused"] /\ apdus' = {}
          /\ UNCHANGED <<table, sessions, over, lost>>
      BY <2>3 DEF RefuseSession, Tell
    <3>2. PromisesInv'
      BY <1>0, <2>2, <3>1 DEF PromisesInv, Dangling
    <3>3. Service!Refuse(session_ids')
      BY <2>2, <3>1 DEF Service!Refuse, Service!Tell
    <3>4. QED
      BY <2>2, <3>2, <3>3
  <2>4. CASE RefuseSessionSilently(c, r)
    <3>1. apdus' = {} /\ UNCHANGED <<told, over, table, sessions, lost>>
      BY <2>4 DEF RefuseSessionSilently
    <3>2. PromisesInv'
      BY <1>0, <2>2, <3>1 DEF PromisesInv, Dangling
    <3>3. QED
      BY <1>2, <3>1, <3>2
  <2>5. CASE OpenSession(c, r)
    <3>1. /\ told' = [told EXCEPT ![session_ids'] = "open"] /\ apdus' \subseteq {session_ids'}
          /\ table' = table \cup {session_ids'} /\ UNCHANGED <<over, lost>>
      BY <2>5 DEF OpenSession, Tell
    <3>2. r.app \in Application /\ Linked(r.app, session_ids + 1)
      BY <2>1, <2>2, <2>5, AcceptedRequest DEF OpenSession
    <3>3. ASSUME lost = 0, NEW a \in Application PROVE Dangling(a)' = {}
      <4>1. \A i \in 1..Len(sessions[a]) : sessions[a][i] \in table
        BY <3>3, NoDangling DEF PromisesInv
      <4>2. Len(sessions[a]) \in Nat
        BY LenProperties DEF TypeOK
      <4>3. \A i \in 1..Len(sessions'[a]) : sessions'[a][i] \in table \cup {session_ids'}
        <5>1. /\ \A b \in Application \ {r.app} : sessions'[b] = sessions[b]
              /\ Len(sessions'[r.app]) = Len(sessions[r.app]) + 1
              /\ sessions'[r.app][Len(sessions[r.app]) + 1] = session_ids + 1
              /\ \A i \in 1..Len(sessions[r.app]) : sessions'[r.app][i] = sessions[r.app][i]
          BY <2>2, <3>2, LinkedType
        <5>2. CASE a # r.app
          BY <4>1, <5>1, <5>2
        <5>3. CASE a = r.app
          <6>1. \A i \in 1..Len(sessions'[a]) :
                   i \in 1..Len(sessions[a]) \/ i = Len(sessions[a]) + 1
            BY <4>2, <5>1, <5>3
          <6>2. QED
            BY <2>2, <4>1, <5>1, <5>3, <6>1
        <5>4. QED
          BY <5>2, <5>3
      <4>4. QED
        BY <3>1, <4>3 DEF Dangling
    <3>4. PromisesInv'
      BY <1>0, <2>2, <3>1, <3>3 DEF PromisesInv
    <3>5. Service!Open(session_ids')
      BY <2>2, <3>1 DEF Service!Open, Service!Tell
    <3>6. QED
      BY <2>2, <3>4, <3>5
  <2>6. CASE LoseSession(c, r)
    <3>1. lost' = lost + 1 /\ UNCHANGED <<told, over, table>>
      BY <2>6 DEF LoseSession
    <3>2. QED
      BY <1>0, <2>2, <3>1 DEF PromisesInv
  <2>7. QED
    BY <1>3, <2>3, <2>4, <2>5, <2>6 DEF OpenSessionRequest
<1>4. ASSUME NEW n \in Numbers, CloseSessionRequest(n) \/ CloseSessionResponse(n)
      PROVE  PromisesInv' /\ Service!Next
  <2>1. /\ n \in table /\ Closed(n) /\ over' = over \cup {n} /\ apdus' = {}
        /\ told' \in {told, [told EXCEPT ![n] = "open"]}
        /\ UNCHANGED <<session_ids, session, lost>>
    BY <1>4 DEF CloseSessionRequest, CloseSessionResponse, CloseResponse, Received, Tell
  <2>2. told[n] = "open" /\ n \notin over /\ n <= session_ids
    BY <1>0, <2>1 DEF PromisesInv, TypeOK
  <2>3. table' = table \ {n}
    BY <2>1 DEF Closed
  <2>4. lost = 0 => \A a \in Application : Dangling(a)' = {}
    BY <2>1, ClosedCleanly DEF PromisesInv
  <2>5. PromisesInv'
    BY <1>0, <2>1, <2>2, <2>3, <2>4 DEF PromisesInv
  <2>6. Service!Close(n)
    <3>1. told' = [told EXCEPT ![n] = "open"]
      BY <1>0, <2>1, <2>2
    <3>2. QED
      BY <2>1, <2>2, <3>1 DEF Service!Close, Service!OpenNow, Service!Told
  <2>7. QED
    BY <2>5, <2>6
<1>5. ASSUME NEW n \in Numbers,
             \/ CreateSessionResponse(n) \/ ProfileData(n)
             \/ CloseSessionRequestFails(n) \/ InfoReply(n)
      PROVE  PromisesInv' /\ Service!Next
  <2>1. apdus' \subseteq {n} /\ n \in table
        /\ UNCHANGED <<table, session_ids, told, over, sessions, lost>>
    BY <1>5 DEF CreateSessionResponse, ProfileData, CloseSessionRequestFails, InfoReply, Apdu,
                Received
  <2>2. QED
    BY <1>1, <1>2, <2>1
<1>6. ASSUME NEW c \in Connections, DeleteConnection(c) PROVE PromisesInv' /\ Service!Next
  BY <1>1, <1>2, <1>6 DEF DeleteConnection
<1>7. CASE SetPmt
  <2>1. PromisesInv'
    BY <1>1, <1>7 DEF SetPmt
  <2>2. ASSUME lost' = 0 PROVE Service!Next
    <3>1. Dangling("cas") = {}
      BY <1>7, <2>2 DEF SetPmt, PromisesInv, Application
    <3>2. Entries(sessions["cas"]) \subseteq table
      BY <3>1, NoDangling DEF Entries, Application
    <3>3. apdus' \subseteq table /\ UNCHANGED <<told, over>>
      BY <1>7, <3>1, <3>2 DEF SetPmt, Stray, Usable
    <3>4. QED
      BY <1>2, <3>3
  <2>3. QED
    BY <2>1, <2>2
<1>8. CASE Restart
  <2>1. /\ told' = [n \in Numbers |-> "nothing"] /\ table' = {} /\ apdus' = {}
        /\ sessions' = [a \in Application |-> <<>>] /\ over' = {}
    BY <1>8 DEF Restart
  <2>2. \A a \in Application : Dangling(a)' = {}
    BY <2>1 DEF Dangling
  <2>3. QED
    BY <2>1, <2>2 DEF PromisesInv, Service!Restart
<1>9. CASE UNCHANGED vars
  BY <1>1, <1>9 DEF vars
<1>10. QED
  BY <1>3, <1>4, <1>5, <1>6, <1>7, <1>8, <1>9 DEF Next, Spdu

\* As long as no OPEN_SESSION_RESPONSE is lost the host implements SessionService: no
\* session number is used twice and nothing is sent on a session that the module has not
\* been told is open or that is over, for any number of connections, sessions and failing
\* writes.  What the module is told when a session ends is not part of it.
THEOREM PromisesKept == Spec => KeepsPromises
<1>1. Init => PromisesInv /\ Service!Init
  BY DEF Init, PromisesInv, Dangling, Service!Init
<1>2. QED
  BY <1>1, ListsMatch, PromiseStep, PTL DEF Spec, KeepsPromises
-----------------------------------------------------------------------------
(* The dangling pointers are counted *)

\* The places where lists ss hold sessions that are not in tab.
Danglings(ss, tab) ==
  {e \in Application \X Nat : e[2] \in 1..Len(ss[e[1]]) /\ ss[e[1]][e[2]] \notin tab}

\* No list is longer than the session numbers handed out: every link has its own.
ShortLists == \A a \in Application : Len(sessions[a]) <= session_ids

\* Those places as pairs, finitely many.
LEMMA DanglingsAre ==
  ASSUME NEW n \in Nat, NEW tab, NEW ss \in [Application -> Seq(1..n)],
         \A a \in Application : Len(ss[a]) <= n
  PROVE  /\ \A b, j : <<b, j>> \in Danglings(ss, tab) <=>
                       b \in Application /\ j \in 1..Len(ss[b]) /\ ss[b][j] \notin tab
         /\ \A e \in Danglings(ss, tab) :
              e[1] \in Application /\ e[2] \in Nat /\ e = <<e[1], e[2]>>
         /\ IsFiniteSet(Danglings(ss, tab))
         /\ Danglings(ss, tab) =
              {e \in Application \X (1..n) :
                 e[2] \in {i \in 1..Len(ss[e[1]]) : ss[e[1]][i] \notin tab}}
<1>1. \A b \in Application : Len(ss[b]) \in Nat /\ 1..Len(ss[b]) \subseteq 1..n
  BY LenProperties
<1>2. \A b, j : <<b, j>> \in Danglings(ss, tab) <=>
                 b \in Application /\ j \in 1..Len(ss[b]) /\ ss[b][j] \notin tab
  BY <1>1 DEF Danglings
<1>3. \A e \in Danglings(ss, tab) :
        e[1] \in Application /\ e[2] \in Nat /\ e = <<e[1], e[2]>>
  BY DEF Danglings
<1>4. Danglings(ss, tab) =
        {e \in Application \X (1..n) :
           e[2] \in {i \in 1..Len(ss[e[1]]) : ss[e[1]][i] \notin tab}}
  BY <1>1 DEF Danglings
<1>5. IsFiniteSet(Application)
  <2>1. IsFiniteSet({"mgr"}) /\ IsFiniteSet({"mgr"} \cup {"info"})
        /\ IsFiniteSet({"mgr"} \cup {"info"} \cup {"cas"})
    BY FS_Singleton, FS_AddElement
  <2>2. Application = {"mgr"} \cup {"info"} \cup {"cas"}
    BY DEF Application
  <2>3. QED
    BY <2>1, <2>2
<1>6. IsFiniteSet(1..n)
  <2>1. 1 \in Int /\ n \in Int
    OBVIOUS
  <2>2. QED
    BY <2>1, FS_Interval, Zenon
<1>7. IsFiniteSet(Application \X (1..n))
  BY <1>5, <1>6, FS_Product
<1>8. IsFiniteSet(Danglings(ss, tab))
  <2>1. Danglings(ss, tab) \in SUBSET (Application \X (1..n))
    BY <1>4
  <2>2. QED
    BY <1>7, <2>1, FS_Subset
<1>9. QED
  BY <1>2, <1>3, <1>4, <1>8

\* Deleting link i of list a moves the links behind it, and leaves as many freed sessions
\* linked as there were, the deleted link not counted.
LEMMA DeletedLink ==
  ASSUME NEW D, NEW E, NEW a, NEW i \in Nat, IsFiniteSet(E), <<a, i>> \in E,
         \A e \in D \cup E : e[2] \in Nat /\ e = <<e[1], e[2]>>,
         \A b, j : b # a => (<<b, j>> \in D <=> <<b, j>> \in E),
         \A j \in Nat : j < i => (<<a, j>> \in D <=> <<a, j>> \in E),
         \A j \in Nat : j >= i => (<<a, j>> \in D <=> <<a, j + 1>> \in E)
  PROVE  IsFiniteSet(D) /\ Cardinality(D) = Cardinality(E) - 1
<1> DEFINE T == E \ {<<a, i>>}
           F == [e \in T |-> IF e[1] = a /\ e[2] > i THEN <<a, e[2] - 1>> ELSE e]
<1>1. ASSUME NEW e \in T
      PROVE  /\ e[2] \in Nat /\ e = <<e[1], e[2]>> /\ (e[1] = a => e[2] # i)
             /\ F[e] \in D
             /\ e[1] = a /\ e[2] > i => F[e] = <<a, e[2] - 1>>
             /\ ~(e[1] = a /\ e[2] > i) => F[e] = e
  <2>1. e[2] \in Nat /\ e = <<e[1], e[2]>> /\ (e[1] = a => e[2] # i)
    OBVIOUS
  <2>2. CASE e[1] # a
    BY <2>1, <2>2
  <2>3. CASE e[1] = a /\ e[2] < i
    BY <2>1, <2>3
  <2>4. CASE e[1] = a /\ e[2] > i
    <3>1. e[2] - 1 \in Nat /\ e[2] - 1 >= i /\ (e[2] - 1) + 1 = e[2] /\ e = <<a, e[2]>>
      BY <2>1, <2>4
    <3>2. <<a, e[2] - 1>> \in D
      BY <3>1
    <3>3. QED
      BY <2>1, <2>4, <3>2
  <2>5. QED
    BY <2>1, <2>2, <2>3, <2>4
<1>2. F \in [T -> D]
  BY <1>1
<1>3. ASSUME NEW e \in T, NEW f \in T, F[e] = F[f] PROVE e = f
  <2> HIDE DEF F
  <2>1. CASE e[1] = a /\ e[2] > i /\ f[1] = a /\ f[2] > i
    <3>1. <<a, e[2] - 1>> = <<a, f[2] - 1>>
      BY <1>1, <1>3, <2>1
    <3>2. e[2] = f[2]
      BY <1>1, <3>1
    <3>3. QED
      BY <1>1, <2>1, <3>2
  <2>2. CASE e[1] = a /\ e[2] > i /\ ~(f[1] = a /\ f[2] > i)
    <3>1. <<a, e[2] - 1>> = <<f[1], f[2]>>
      BY <1>1, <1>3, <2>2
    <3>2. QED
      BY <1>1, <2>2, <3>1
  <2>3. CASE ~(e[1] = a /\ e[2] > i) /\ f[1] = a /\ f[2] > i
    <3>1. <<e[1], e[2]>> = <<a, f[2] - 1>>
      BY <1>1, <1>3, <2>3
    <3>2. QED
      BY <1>1, <2>3, <3>1
  <2>4. CASE ~(e[1] = a /\ e[2] > i) /\ ~(f[1] = a /\ f[2] > i)
    BY <1>1, <1>3, <2>4
  <2>5. QED
    BY <2>1, <2>2, <2>3, <2>4
<1>4. ASSUME NEW d \in D PROVE \E e \in T : F[e] = d
  <2>1. d[2] \in Nat /\ d = <<d[1], d[2]>>
    OBVIOUS
  <2>2. CASE d[1] = a /\ d[2] >= i
    <3>1. <<a, d[2] + 1>> \in E /\ d[2] + 1 > i /\ d[2] + 1 \in Nat
      BY <2>1, <2>2
    <3>2. <<a, d[2] + 1>> # <<a, i>>
      BY <3>1
    <3> DEFINE e == <<a, d[2] + 1>>
    <3>3. e \in T /\ e[1] = a /\ e[2] = d[2] + 1
      BY <3>1, <3>2
    <3>4. F[e] = <<a, (d[2] + 1) - 1>>
      BY <1>1, <3>1, <3>3
    <3>5. (d[2] + 1) - 1 = d[2]
      BY <2>1
    <3>6. F[e] = d
      BY <2>1, <2>2, <3>4, <3>5
    <3>7. QED
      BY <3>3, <3>6
  <2>3. CASE d[1] = a /\ d[2] < i
    <3>1. d \in T
      BY <2>1, <2>3
    <3>2. F[d] = d
      BY <1>1, <2>3, <3>1
    <3>3. QED
      BY <3>1, <3>2
  <2>4. CASE d[1] # a
    <3>1. d \in T
      BY <2>1, <2>4
    <3>2. F[d] = d
      BY <1>1, <2>4, <3>1
    <3>3. QED
      BY <3>1, <3>2
  <2>5. QED
    BY <2>1, <2>2, <2>3, <2>4
<1>5. ExistsBijection(T, D)
  <2> HIDE DEF F, T
  <2>1. F \in Bijection(T, D)
    BY <1>2, <1>3, <1>4 DEF Bijection, Injection, IsInjective, Surjection
  <2>2. QED
    BY <2>1 DEF ExistsBijection
<1>6. IsFiniteSet(T) /\ Cardinality(T) = Cardinality(E) - 1
  BY FS_RemoveElement
<1>7. QED
  BY <1>5, <1>6, FS_Bijection

\* What is to be counted, before and after a step.
LEMMA CountedAre ==
  /\ TypeOK /\ ShortLists => (DanglingCounted <=> Cardinality(Danglings(sessions, table)) = lost)
  /\ TypeOK' /\ ShortLists' =>
       (DanglingCounted' <=> Cardinality(Danglings(sessions', table')) = lost')
<1>1. ASSUME TypeOK, ShortLists
      PROVE  Danglings(sessions, table) =
               {e \in Application \X (1..session_ids) : e[2] \in Dangling(e[1])}
  <2>1. /\ session_ids \in Nat /\ sessions \in [Application -> Seq(1..session_ids)]
        /\ \A a \in Application : Len(sessions[a]) <= session_ids
    BY <1>1 DEF TypeOK, ShortLists
  <2>2. QED
    BY <2>1, DanglingsAre DEF Dangling
<1>2. ASSUME TypeOK', ShortLists'
      PROVE  Danglings(sessions', table') =
               {e \in Application \X (1..session_ids') : e[2] \in Dangling(e[1])'}
  <2>1. /\ session_ids' \in Nat /\ sessions' \in [Application -> Seq(1..session_ids')]
        /\ \A a \in Application : Len(sessions'[a]) <= session_ids'
    BY <1>2 DEF TypeOK, ShortLists
  <2>2. QED
    BY <2>1, DanglingsAre DEF Dangling
<1>3. QED
  BY <1>1, <1>2 DEF DanglingCounted

\* Closing session n frees it and deletes one link: its own, or a dangling one in its place.
LEMMA ClosedCounted ==
  ASSUME TypeOK, ListsMatchTable, ShortLists, NEW n \in table, Closed(n),
         UNCHANGED session_ids
  PROVE  /\ ShortLists'
         /\ Cardinality(Danglings(sessions', table')) = Cardinality(Danglings(sessions, table))
<1> DEFINE a == session[n].app
           tab == table \ {n}
<1>1. PICK i \in 1..Len(sessions[a]) :
        /\ sessions' = [sessions EXCEPT ![a] = Without(@, i)]
        /\ sessions[a][i] = n \/ i \in Dangling(a)
  BY ClosedLink
<1>2. a \in Application /\ table' = tab
  BY ClosedLink
<1>3. \A b \in Application : On(n, sessions[b]) <=> b = a
  BY DEF ListsMatchTable
<1>4. Once(n, sessions[a])
  BY <1>2 DEF ListsMatchTable
<1> HIDE DEF a
<1>5. PICK s : s = sessions[a] /\ s \in Seq(1..session_ids)
  BY <1>2 DEF TypeOK
<1>6. /\ sessions'[a] = Without(s, i)
      /\ \A b \in Application \ {a} : sessions'[b] = sessions[b]
  BY <1>1, <1>2, <1>5 DEF TypeOK
<1>7. /\ Len(s) \in Nat /\ i \in 1..Len(s)
      /\ Without(s, i) \in Seq(1..session_ids) /\ Len(Without(s, i)) = Len(s) - 1
      /\ \A j \in 1..(Len(s) - 1) : Without(s, i)[j] = IF j < i THEN s[j] ELSE s[j + 1]
  BY <1>5, LenProperties, WithoutType
<1>8. /\ session_ids \in Nat /\ sessions' \in [Application -> Seq(1..session_ids)]
      /\ sessions \in [Application -> Seq(1..session_ids)]
  BY ClosedType DEF TypeOK
<1>9. /\ \A b \in Application : Len(sessions[b]) <= session_ids
      /\ \A b \in Application : Len(sessions'[b]) <= session_ids
  <2>1. \A b \in Application : Len(sessions[b]) <= session_ids
    BY DEF ShortLists
  <2>2. Len(s) <= session_ids /\ Len(sessions'[a]) = Len(s) - 1
    BY <1>2, <1>5, <1>6, <1>7, <2>1
  <2>3. Len(sessions'[a]) <= session_ids
    BY <1>7, <1>8, <2>2
  <2>4. QED
    BY <1>6, <2>1, <2>3
<1> DEFINE D == Danglings(sessions', tab)
           E == Danglings(sessions, tab)
           C == Danglings(sessions, table)
<1>10. /\ \A b, j : <<b, j>> \in D <=>
                       b \in Application /\ j \in 1..Len(sessions'[b]) /\ sessions'[b][j] \notin tab
       /\ \A e \in D : e[1] \in Application /\ e[2] \in Nat /\ e = <<e[1], e[2]>>
  <2>1. PICK ss : ss = sessions'
    OBVIOUS
  <2>2. /\ session_ids \in Nat /\ ss \in [Application -> Seq(1..session_ids)]
        /\ \A b \in Application : Len(ss[b]) <= session_ids
    BY <1>8, <1>9, <2>1
  <2> HIDE DEF tab
  <2>3. /\ \A b, j : <<b, j>> \in Danglings(ss, tab) <=>
                       b \in Application /\ j \in 1..Len(ss[b]) /\ ss[b][j] \notin tab
        /\ \A e \in Danglings(ss, tab) :
             e[1] \in Application /\ e[2] \in Nat /\ e = <<e[1], e[2]>>
    <3>1. \A b, j : <<b, j>> \in Danglings(ss, tab) <=>
                       b \in Application /\ j \in 1..Len(ss[b]) /\ ss[b][j] \notin tab
      BY <2>2, DanglingsAre
    <3>2. \A e \in Danglings(ss, tab) :
             e[1] \in Application /\ e[2] \in Nat /\ e = <<e[1], e[2]>>
      BY <2>2, DanglingsAre
    <3>3. QED
      BY <3>1, <3>2
  <2>4. QED
    BY <2>1, <2>3
<1>11. /\ \A b, j : <<b, j>> \in E <=>
                       b \in Application /\ j \in 1..Len(sessions[b]) /\ sessions[b][j] \notin tab
       /\ \A e \in E : e[1] \in Application /\ e[2] \in Nat /\ e = <<e[1], e[2]>>
       /\ IsFiniteSet(E)
  BY <1>8, <1>9, DanglingsAre
<1>12. /\ \A b, j : <<b, j>> \in C <=>
                       b \in Application /\ j \in 1..Len(sessions[b]) /\ sessions[b][j] \notin table
       /\ \A e \in C : e[1] \in Application /\ e[2] \in Nat /\ e = <<e[1], e[2]>>
       /\ IsFiniteSet(C)
  BY <1>8, <1>9, DanglingsAre
<1> HIDE DEF C, D, E
<1>13. Cardinality(D) = Cardinality(E) - 1
  <2>1. <<a, i>> \in E
    BY <1>1, <1>2, <1>5, <1>7, <1>11 DEF Dangling
  <2>2. \A b, j : b # a => (<<b, j>> \in D <=> <<b, j>> \in E)
    BY <1>6, <1>10, <1>11
  <2>3. ASSUME NEW j \in Nat, j < i PROVE <<a, j>> \in D <=> <<a, j>> \in E
    <3>1. j \in 1..Len(s) <=> j \in 1..(Len(s) - 1)
      BY <1>7, <2>3
    <3>2. QED
      BY <1>2, <1>5, <1>6, <1>7, <1>10, <1>11, <2>3, <3>1
  <2>4. ASSUME NEW j \in Nat, j >= i PROVE <<a, j>> \in D <=> <<a, j + 1>> \in E
    <3>1. j + 1 \in 1..Len(s) <=> j \in 1..(Len(s) - 1)
      BY <1>7, <2>4
    <3>2. QED
      BY <1>2, <1>5, <1>6, <1>7, <1>10, <1>11, <2>4, <3>1
  <2>5. i \in Nat /\ \A e \in D \cup E : e[2] \in Nat /\ e = <<e[1], e[2]>>
    BY <1>7, <1>10, <1>11
  <2>6. QED
    BY <1>11, <2>1, <2>2, <2>3, <2>4, <2>5, DeletedLink
<1>14. Cardinality(E) = Cardinality(C) + 1
  <2>1. PICK k \in 1..Len(s) : s[k] = n
    BY <1>2, <1>3, <1>5 DEF On
  <2>2. ASSUME NEW b, NEW j PROVE <<b, j>> \in E <=> <<b, j>> \in C \/ <<b, j>> = <<a, k>>
    <3>1. b \in Application /\ j \in 1..Len(sessions[b]) /\ sessions[b][j] = n <=> b = a /\ j = k
      BY <1>2, <1>3, <1>4, <1>5, <2>1 DEF On, Once
    <3>2. QED
      BY <1>2, <1>5, <1>11, <1>12, <2>1, <3>1
  <2>3. E = C \cup {<<a, k>>}
    <3>1. \A e \in E : e \in C \cup {<<a, k>>}
      BY <1>11, <2>2
    <3>2. \A e \in C : e \in E
      BY <1>12, <2>2
    <3>3. <<a, k>> \in E
      BY <2>2
    <3>4. QED
      BY <3>1, <3>2, <3>3
  <2>4. <<a, k>> \notin C
    BY <1>5, <1>12, <2>1
  <2>5. QED
    BY <1>12, <2>3, <2>4, FS_AddElement
<1>15. Cardinality(C) \in Nat
  BY <1>12, FS_CardinalityType
<1>16. QED
  BY <1>2, <1>9, <1>13, <1>14, <1>15 DEF C, D, ShortLists

\* Linking a new number to list a adds one place at its end, unless the number enters the
\* table.
LEMMA LinkedCounted ==
  ASSUME TypeOK, ShortLists, HasNumber, NEW a \in Application, Linked(a, session_ids + 1)
  PROVE  /\ \A b \in Application : Len(sessions'[b]) <= session_ids + 1
         /\ Danglings(sessions', table \cup {session_ids + 1}) = Danglings(sessions, table)
         /\ Cardinality(Danglings(sessions', table)) = Cardinality(Danglings(sessions, table)) + 1
<1> DEFINE n == session_ids + 1
<1>1. /\ session_ids \in Nat /\ n \in Nat /\ table \subseteq 1..session_ids
      /\ sessions \in [Application -> Seq(1..session_ids)]
      /\ \A b \in Application : Len(sessions[b]) \in Nat /\ Len(sessions[b]) <= session_ids
  BY LenProperties DEF TypeOK, ShortLists
<1>2. /\ sessions' \in [Application -> Seq(1..n)]
      /\ \A b \in Application \ {a} : sessions'[b] = sessions[b]
      /\ Len(sessions'[a]) = Len(sessions[a]) + 1
      /\ sessions'[a][Len(sessions[a]) + 1] = n
      /\ \A i \in 1..Len(sessions[a]) : sessions'[a][i] = sessions[a][i]
  BY LinkedType
<1>3. ASSUME NEW b \in Application, NEW i \in 1..Len(sessions[b]) PROVE sessions[b][i] # n
  <2>1. sessions[b] \in Seq(1..session_ids)
    BY <1>1
  <2>2. sessions[b][i] \in 1..session_ids
    BY <2>1, ElementOfSeq
  <2>3. QED
    BY <1>1, <2>2
<1>4. \A b \in Application : Len(sessions'[b]) <= n
  <2>1. ASSUME NEW b \in Application \ {a} PROVE Len(sessions'[b]) <= n
    BY <1>1, <1>2
  <2>2. Len(sessions'[a]) <= n
    BY <1>1, <1>2
  <2>3. QED
    BY <2>1, <2>2
<1>5. \A i : i \in 1..Len(sessions'[a]) <=> i \in 1..Len(sessions[a]) \/ i = Len(sessions[a]) + 1
  BY <1>1, <1>2
<1>6. n \notin table /\ Len(sessions[a]) + 1 \notin 1..Len(sessions[a])
  BY <1>1
<1> HIDE DEF n
<1>7. ASSUME NEW b \in Application, NEW i
      PROVE  /\ i \in 1..Len(sessions'[b]) /\ sessions'[b][i] \notin table \cup {n} <=>
                  i \in 1..Len(sessions[b]) /\ sessions[b][i] \notin table
             /\ i \in 1..Len(sessions'[b]) /\ sessions'[b][i] \notin table <=>
                  \/ i \in 1..Len(sessions[b]) /\ sessions[b][i] \notin table
                  \/ b = a /\ i = Len(sessions[a]) + 1
  <2>1. CASE b # a
    BY <1>2, <1>3, <2>1
  <2>2. CASE b = a /\ i \in 1..Len(sessions[a])
    BY <1>2, <1>3, <1>5, <1>6, <2>2
  <2>3. CASE b = a /\ i \notin 1..Len(sessions[a])
    BY <1>2, <1>5, <1>6, <2>3
  <2>4. QED
    BY <2>1, <2>2, <2>3
<1>8. Danglings(sessions', table \cup {n}) = Danglings(sessions, table)
  BY <1>7 DEF Danglings
<1>9. Danglings(sessions', table) = Danglings(sessions, table) \cup {<<a, Len(sessions[a]) + 1>>}
  BY <1>1, <1>7 DEF Danglings
<1>10. <<a, Len(sessions[a]) + 1>> \notin Danglings(sessions, table)
  BY <1>6 DEF Danglings
<1>11. IsFiniteSet(Danglings(sessions, table))
  <2>1. \A b \in Application : Len(sessions[b]) <= session_ids
    BY <1>1
  <2>2. session_ids \in Nat /\ sessions \in [Application -> Seq(1..session_ids)]
    BY <1>1
  <2>3. QED
    BY <2>1, <2>2, DanglingsAre
<1>12. Cardinality(Danglings(sessions', table)) = Cardinality(Danglings(sessions, table)) + 1
  BY <1>9, <1>10, <1>11, FS_AddElement
<1>13. QED
  BY <1>4, <1>8, <1>12 DEF n

\* Every step keeps the count.
LEMMA CountedStep ==
  TypeOK /\ ListsMatchTable /\ ShortLists /\ DanglingCounted /\ [Next]_vars
    => ShortLists' /\ DanglingCounted'
<1> SUFFICES ASSUME TypeOK, ListsMatchTable, ShortLists, DanglingCounted, [Next]_vars
             PROVE  ShortLists' /\ Cardinality(Danglings(sessions', table')) = lost'
  BY TypeStep, CountedAre
<1>0. /\ Cardinality(Danglings(sessions, table)) = lost
      /\ session_ids \in Nat /\ lost \in Nat
      /\ \A a \in Application : Len(sessions[a]) \in Nat /\ Len(sessions[a]) <= session_ids
  BY CountedAre, LenProperties DEF TypeOK, ShortLists
<1>1. ASSUME UNCHANGED <<table, sessions, lost>>, session_ids' \in {session_ids, session_ids + 1}
      PROVE  ShortLists' /\ Cardinality(Danglings(sessions', table')) = lost'
  BY <1>0, <1>1 DEF ShortLists
<1>2. ASSUME NEW c \in Connections, NEW r \in Resource, OpenSessionRequest(c, r)
      PROVE  ShortLists' /\ Cardinality(Danglings(sessions', table')) = lost'
  <2>1. NewSession(c, r)
    BY <1>2 DEF OpenSessionRequest, RefuseSession, RefuseSessionSilently, OpenSession, LoseSession
  <2>2. session_ids' = session_ids + 1 /\ HasNumber
    BY <2>1 DEF NewSession
  <2>3. CASE RefuseSession(c, r) \/ RefuseSessionSilently(c, r)
    BY <1>1, <2>2, <2>3 DEF RefuseSession, RefuseSessionSilently
  <2>4. CASE OpenSession(c, r)
    <3>1. r.app \in Application /\ Linked(r.app, session_ids + 1)
      BY <2>1, <2>2, <2>4, AcceptedRequest DEF OpenSession
    <3>2. /\ \A b \in Application : Len(sessions'[b]) <= session_ids + 1
          /\ Danglings(sessions', table \cup {session_ids + 1}) = Danglings(sessions, table)
      BY <2>2, <3>1, LinkedCounted
    <3>3. table' = table \cup {session_ids + 1} /\ lost' = lost
      BY <2>2, <2>4 DEF OpenSession
    <3>4. QED
      BY <1>0, <2>2, <3>2, <3>3 DEF ShortLists
  <2>5. CASE LoseSession(c, r)
    <3>1. r.app \in Application /\ Linked(r.app, session_ids + 1)
      BY <2>1, <2>2, <2>5, AcceptedRequest DEF LoseSession
    <3>2. /\ \A b \in Application : Len(sessions'[b]) <= session_ids + 1
          /\ Cardinality(Danglings(sessions', table)) = Cardinality(Danglings(sessions, table)) + 1
      BY <2>2, <3>1, LinkedCounted
    <3>3. table' = table /\ lost' = lost + 1
      BY <2>5 DEF LoseSession
    <3>4. QED
      BY <1>0, <2>2, <3>2, <3>3 DEF ShortLists
  <2>6. QED
    BY <1>2, <2>3, <2>4, <2>5 DEF OpenSessionRequest
<1>3. ASSUME NEW n \in Numbers, CloseSessionRequest(n) \/ CloseSessionResponse(n)
      PROVE  ShortLists' /\ Cardinality(Danglings(sessions', table')) = lost'
  <2>1. n \in table /\ Closed(n) /\ UNCHANGED <<session_ids, lost>>
    BY <1>3 DEF CloseSessionRequest, CloseSessionResponse, Received
  <2>2. QED
    BY <1>0, <2>1, ClosedCounted
<1>4. ASSUME NEW n \in Numbers,
             \/ CreateSessionResponse(n) \/ ProfileData(n)
             \/ CloseSessionRequestFails(n) \/ InfoReply(n)
      PROVE  UNCHANGED <<table, sessions, lost, session_ids>>
  BY <1>4 DEF CreateSessionResponse, ProfileData, CloseSessionRequestFails, InfoReply
<1>5. (\E c \in Connections : DeleteConnection(c)) \/ SetPmt \/ UNCHANGED vars
      => UNCHANGED <<table, sessions, lost, session_ids>>
  BY DEF DeleteConnection, SetPmt, vars
<1>6. CASE Restart
  <2>1. lost' = 0 /\ session_ids' = 0
    BY <1>6 DEF Restart
  <2>2. \A a \in Application : Len(sessions'[a]) = 0
    BY <1>6 DEF Restart
  <2>3. Danglings(sessions', table') = {}
    BY <2>2 DEF Danglings
  <2>4. Cardinality({}) = 0
    BY FS_EmptySet
  <2>5. ShortLists'
    BY <2>1, <2>2 DEF ShortLists
  <2>6. QED
    BY <2>1, <2>3, <2>4, <2>5
<1>7. QED
  BY <1>1, <1>2, <1>3, <1>4, <1>5, <1>6 DEF Next, Spdu

\* The dangling pointers on the applications' lists are exactly as many as there were
\* OPEN_SESSION_RESPONSEs that could not be written since the device was opened: nothing
\* else leaves one behind and nothing ever removes one, for any number of sessions, even
\* when session_closed_cb follows one of them and deletes the wrong link.
THEOREM DanglingOnes == Spec => []DanglingCounted
<1>1. Init => ShortLists /\ DanglingCounted
  <2> SUFFICES ASSUME Init PROVE ShortLists /\ DanglingCounted
    OBVIOUS
  <2>1. session_ids = 0 /\ lost = 0 /\ \A a \in Application : Len(sessions[a]) = 0
    BY DEF Init
  <2>2. Danglings(sessions, table) = {}
    BY <2>1 DEF Danglings
  <2>3. ShortLists
    BY <2>1 DEF ShortLists
  <2>4. DanglingCounted <=> Cardinality(Danglings(sessions, table)) = lost
    BY <2>3, SessionInit, CountedAre
  <2>5. Cardinality({}) = 0
    BY FS_EmptySet
  <2>6. QED
    BY <2>1, <2>2, <2>3, <2>4, <2>5
<1>2. QED
  BY <1>1, CountedStep, ListsMatch, PTL DEF Spec
=============================================================================
