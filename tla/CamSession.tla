----------------------------- MODULE CamSession -----------------------------
(***************************************************************************)
(* The session layer (camsession.c), the application layer on top of it    *)
(* (camapplication.c) and the three applications installed there: resource *)
(* manager, application information and conditional access.                *)
(*                                                                         *)
(* Everything runs on the CAM thread: a handler is one call, so one step.  *)
(* The module is the environment.  It may send any SPDU at any time; what  *)
(* a handler writes may fail.  SPDUs of a wrong length or an unknown tag,  *)
(* and APDUs of a wrong length, are refused and change nothing.            *)
(* cam_sl_create_session and cam_sl_session_close have no callers: every   *)
(* session is opened by the module, and none is ever CLOSING.              *)
(***************************************************************************)
EXTENDS Integers, Sequences, FiniteSets, Lists

CONSTANTS
  Connections,    \* the transport connections of the device
  MaxSessionIds,  \* G_MAXUINT16 in the code
  MaxFaults       \* bound: writes that fail

ASSUME SessionAssumption ==
  Connections # {} /\ MaxSessionIds \in Nat \ {0} /\ MaxFaults \in Nat

VARIABLES
  alive,        \* connections of the transport layer's table
  session_ids,  \* sl->session_ids
  table,        \* keys of sl->sessions
  session,      \* application and connection of every CamSLSession allocated so far
  sessions,     \* application->sessions: pointers, here the number of the session
  ready,        \* cas->ready
  told,         \* history: what the last session response the module got about each number says
  over,         \* history: sessions the module asked to close, or answered as closed
  apdus,        \* history: sessions the last call sent APDUs on
  lost,         \* history: accepted sessions whose OPEN_SESSION_RESPONSE was not written
  faults        \* writes that may still fail

vars == <<alive, session_ids, table, session, sessions, ready, told, over, apdus, lost, faults>>

Numbers == 1..MaxSessionIds

Application == {"mgr", "info", "cas"}

\* A resource id is a class and type, of which the host knows three, and a version.
Resource == [app : Application \cup {"other"}, version : 0..2]

\* The applications are installed at version 1 (CAM_AL_*_ID).
Installed(a) == [app |-> a, version |-> 1]

Session == [app : Application \cup {"other"}, connection : Connections]

Entries(s) == {s[i] : i \in 1..Len(s)}

\* Entries of an application's list whose session has been freed.
Dangling(a) == {i \in 1..Len(sessions[a]) : sessions[a][i] \notin table}

-----------------------------------------------------------------------------
(* Helpers *)

\* open_session_request_cb: the lookup hashes a resource id without its version and then
\* compares whole ids, so the version test after it never rejects anything.
Status(r) ==
  IF \A a \in Application : Installed(a) # r THEN "NOT_FOUND"
  ELSE IF Installed(r.app).version < r.version THEN "INVALID_VERSION"
  ELSE "OPEN"

\* mutant: one session too many
HasNumberOffByOne == session_ids <= MaxSessionIds

HasNumber == session_ids < MaxSessionIds

\* mutant: the numbers of closed sessions are given out again
NewSessionReusing(c, r) ==
  /\ HasNumber
  /\ session_ids' = Cardinality(table) + 1
  /\ session' = [session EXCEPT ![session_ids'] = [app |-> r.app, connection |-> c]]

\* cam_sl_session_new with the next session number, on connection c.
NewSession(c, r) ==
  /\ HasNumber
  /\ session_ids' = session_ids + 1
  /\ session' = [session EXCEPT ![session_ids'] = [app |-> r.app, connection |-> c]]

\* open_session_request_cb accepts the session and links it to its application.
Linked(a, n) == sessions' = [sessions EXCEPT ![a] = Append(@, n)]

\* mutant: the session layer keeps a closed session
ClosedStillInTable(n) ==
  LET a == session[n].app
  IN  /\ \E i \in 1..Len(sessions[a]) :
           /\ sessions[a][i] = n
           /\ sessions' = [sessions EXCEPT ![a] = Without(@, i)]
      /\ UNCHANGED table

\* mutant: the application keeps a closed session
ClosedStillLinked(n) == table' = table \ {n} /\ UNCHANGED sessions

\* session_closed_cb and the removal from sl->sessions.  The walk reads the number of every
\* entry before the session's own; that of a dangling one is whatever the freed memory
\* holds and may match, so that the wrong link is deleted.
Closed(n) ==
  LET a == session[n].app
      own == CHOOSE i \in 1..Len(sessions[a]) : sessions[a][i] = n
  IN  /\ \E i \in {own} \cup {d \in Dangling(a) : d < own} :
           sessions' = [sessions EXCEPT ![a] = Without(@, i)]
      /\ table' = table \ {n}

\* A write on session n fails.  On a connection that has been freed it may fail or not.
WriteFails(n) ==
  \/ session[n].connection \notin alive /\ UNCHANGED faults
  \/ faults > 0 /\ faults' = faults - 1

\* cam_al_application_write of one APDU on session n.
Apdu(n) ==
  \/ apdus' = {n} /\ UNCHANGED faults
  \/ apdus' = {} /\ WriteFails(n)

Tell(n, what) == told' = [told EXCEPT ![n] = what]

\* What send_close_session_response tells: the comment over it has the tag
\* TAG_CLOSE_SESSION_RESPONSE, the code writes TAG_OPEN_SESSION_RESPONSE.
CloseResponse == "open"

-----------------------------------------------------------------------------
(* handle_open_session_request *)

\* The application layer refuses, and the module is told.
RefuseSession(c, r) ==
  /\ c \in alive /\ Status(r) # "OPEN"
  /\ NewSession(c, r)
  /\ Tell(session_ids', "refused")
  /\ apdus' = {}
  /\ UNCHANGED <<alive, table, sessions, ready, over, lost, faults>>

\* The same, but the response cannot be written.
RefuseSessionSilently(c, r) ==
  /\ c \in alive /\ Status(r) # "OPEN" /\ faults > 0
  /\ NewSession(c, r)
  /\ apdus' = {} /\ faults' = faults - 1
  /\ UNCHANGED <<alive, table, sessions, ready, told, over, lost>>

\* Accepted, told, entered in the table and opened: each of the three applications writes
\* an enquiry.  A failing enquiry leaves everything else in place.
OpenSession(c, r) ==
  /\ c \in alive /\ Status(r) = "OPEN"
  /\ NewSession(c, r)
  /\ Linked(r.app, session_ids')
  /\ table' = table \cup {session_ids'}
  /\ Tell(session_ids', "open")
  /\ \/ apdus' = {session_ids'} /\ UNCHANGED faults
     \/ apdus' = {} /\ faults > 0 /\ faults' = faults - 1
  /\ UNCHANGED <<alive, ready, over, lost>>

\* Accepted and linked, but the response cannot be written: the session is freed and the
\* application keeps its pointer.
LoseSession(c, r) ==
  /\ c \in alive /\ Status(r) = "OPEN" /\ faults > 0
  /\ NewSession(c, r)
  /\ Linked(r.app, session_ids')
  /\ apdus' = {} /\ lost' = lost + 1 /\ faults' = faults - 1
  /\ UNCHANGED <<alive, table, ready, told, over>>

-----------------------------------------------------------------------------
(* The other SPDUs.  No handler compares the connection an SPDU came by with that of the *)
(* session it names; one for a session not in the table changes nothing.                 *)

Received(n) == alive # {} /\ n \in table

\* handle_create_session_response: the host never asked, yet the session is opened again.
CreateSessionResponse(n) ==
  /\ Received(n)
  /\ Apdu(n)
  /\ UNCHANGED <<alive, session_ids, table, session, sessions, ready, told, over, lost>>

\* handle_close_session_request; nothing is closed when the response cannot be written.
CloseSessionRequest(n) ==
  /\ Received(n)
  /\ Closed(n)
  /\ Tell(n, CloseResponse) /\ over' = over \cup {n}
  /\ apdus' = {}
  /\ UNCHANGED <<alive, session_ids, session, ready, lost, faults>>

CloseSessionRequestFails(n) ==
  /\ Received(n)
  /\ WriteFails(n)
  /\ apdus' = {}
  /\ UNCHANGED <<alive, session_ids, table, session, sessions, ready, told, over, lost>>

\* handle_close_session_response: accepted for any active session, asked for or not.  It
\* is the module that tells here; the host answers nothing.
CloseSessionResponse(n) ==
  /\ Received(n)
  /\ Closed(n)
  /\ over' = over \cup {n}
  /\ apdus' = {}
  /\ UNCHANGED <<alive, session_ids, session, ready, told, lost, faults>>

\* handle_session_data for the resource manager: each of the three APDUs it knows is
\* answered with one, and a failing write is ignored.
ProfileData(n) ==
  /\ Received(n) /\ session[n].app = "mgr"
  /\ Apdu(n)
  /\ UNCHANGED <<alive, session_ids, table, session, sessions, ready, told, over, lost>>

\* CONDITIONAL_ACCESS_INFO_REPLY, in a build with debugging compiled in (without it
\* ready stays FALSE for good).  The other replies, and those of the application
\* information session, are only logged.
InfoReply(n) ==
  /\ Received(n) /\ session[n].app = "cas"
  /\ ready' = TRUE
  /\ apdus' = {}
  /\ UNCHANGED <<alive, session_ids, table, session, sessions, told, over, lost, faults>>

-----------------------------------------------------------------------------
(* Calls from the device *)

\* The sessions a CA PMT goes to.
Usable == {n \in Entries(sessions["cas"]) \cap table : session[n].connection \in alive}

\* send_ca_pmt, called only when the CAM is ready: one write for every entry of the list.
\* At most one of the writes to usable sessions fails.  One over a freed connection may
\* go out or not, and one through a freed session carries any session number.
Stray ==
  IF Dangling("cas") = {} THEN Entries(sessions["cas"]) \ Usable ELSE Numbers

SetPmt ==
  /\ ready
  /\ \E stray \in SUBSET Stray :
       \/ apdus' = Usable \cup stray /\ UNCHANGED faults
       \/ \E n \in Usable :
            /\ faults > 0 /\ faults' = faults - 1
            /\ apdus' = (Usable \ {n}) \cup stray
  /\ UNCHANGED <<alive, session_ids, table, session, sessions, ready, told, over, lost>>

\* The module answers D_T_C_REPLY: the transport layer frees the connection.  It has no
\* connection_deleted callback, and the sessions on the connection stay.
DeleteConnection(c) ==
  /\ c \in alive
  /\ alive' = alive \ {c}
  /\ apdus' = {}
  /\ UNCHANGED <<session_ids, table, session, sessions, ready, told, over, lost, faults>>

\* g_new0: what the memory of a session not yet allocated is taken to hold.
NoSession == [n \in Numbers |-> [app |-> "other", connection |-> CHOOSE c \in Connections : TRUE]]

\* cam_device_close and cam_device_open: every layer is freed and created again.
Restart ==
  /\ alive' = Connections /\ session_ids' = 0 /\ table' = {} /\ session' = NoSession
  /\ sessions' = [a \in Application |-> <<>>] /\ ready' = FALSE
  /\ told' = [n \in Numbers |-> "nothing"] /\ over' = {} /\ apdus' = {} /\ lost' = 0
  /\ UNCHANGED faults

-----------------------------------------------------------------------------
Init ==
  /\ alive = Connections /\ session_ids = 0 /\ table = {} /\ session = NoSession
  /\ sessions = [a \in Application |-> <<>>] /\ ready = FALSE
  /\ told = [n \in Numbers |-> "nothing"] /\ over = {} /\ apdus = {} /\ lost = 0
  /\ faults = MaxFaults

OpenSessionRequest(c, r) ==
  RefuseSession(c, r) \/ RefuseSessionSilently(c, r) \/ OpenSession(c, r) \/ LoseSession(c, r)

Spdu(n) ==
  \/ CreateSessionResponse(n) \/ CloseSessionRequest(n) \/ CloseSessionRequestFails(n)
  \/ CloseSessionResponse(n) \/ ProfileData(n) \/ InfoReply(n)

Next ==
  \/ \E c \in Connections, r \in Resource : OpenSessionRequest(c, r)
  \/ \E n \in Numbers : Spdu(n)
  \/ SetPmt
  \/ \E c \in Connections : DeleteConnection(c)
  \/ Restart

Spec == Init /\ [][Next]_vars

-----------------------------------------------------------------------------
(* Properties *)

TypeOK ==
  /\ alive \subseteq Connections
  /\ session_ids \in 0..MaxSessionIds
  /\ table \subseteq 1..session_ids
  /\ session \in [Numbers -> Session]
  /\ sessions \in [Application -> Seq(1..session_ids)]
  /\ ready \in BOOLEAN
  /\ told \in [Numbers -> {"nothing", "open", "refused", "closed"}]
  /\ over \subseteq Numbers
  /\ apdus \subseteq Numbers
  /\ lost \in Nat /\ faults \in Nat

\* The two layers agree on what is open: a session of the table is on the list of its own
\* application exactly once, and on no other list, whatever was lost before.
ListsMatchTable ==
  \A n \in table :
    /\ session[n].app \in Application
    /\ \A a \in Application :
         /\ On(n, sessions[a]) <=> a = session[n].app
         /\ Once(n, sessions[a])

\* A dangling pointer on an application's list comes from an OPEN_SESSION_RESPONSE that
\* could not be written, one from each, and from nothing else.
DanglingCounted ==
  Cardinality({e \in Application \X (1..session_ids) : e[2] \in Dangling(e[1])}) = lost

Service == INSTANCE SessionService
             WITH Numbers <- Numbers, told <- told, over <- over, apdus <- apdus

\* As long as no OPEN_SESSION_RESPONSE was lost the host keeps its promises about sessions:
\* it sends nothing on a session that is over, although the module was told, instead of the
\* close, that the session is open.
KeepsPromises == Service!Init /\ [][lost' = 0 => Service!Next]_Service!vars

\* The same without the proviso ("if the session has been accepted add it",
\* camsession.c:354).
AlwaysKeepsPromises == Service!Spec

\* "TAG_CLOSE_SESSION_RESPONSE 1 byte" (camsession.c:278): a module that closes a session is
\* told that it is closed.  CloseResponse is all that it hangs on, and it is not so.
CloseAnswered == [][\A n \in Numbers : CloseSessionRequest(n) => told'[n] = "closed"]_vars
=============================================================================
