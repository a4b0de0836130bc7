---------------------------- MODULE CamTransport ----------------------------
(***************************************************************************)
(* The transport layer of the CAM stack (gst-dvb/camtransport.c) together  *)
(* with the part of camdevice.c that drives it: opening the device creates *)
(* one transport connection per slot, and from then on every call is a     *)
(* cam_tl_read_all, with polling (cam_device_poll) or after the upper      *)
(* layers wrote something (cam_device_set_pmt).                            *)
(*                                                                         *)
(* The host runs on one thread.  The module at the other end of the CA     *)
(* device is the environment: it takes the TPDUs the host wrote in order   *)
(* and answers each one, late, wrongly, or not at all.                     *)
(***************************************************************************)
EXTENDS Integers, Sequences

CONSTANTS
  SlotNum,           \* ca_caps.slot_num
  MaxConnectionIds,  \* 255 in the code
  MaxEmptyData,      \* 10 in the code
  MaxFaults,         \* bound: failing reads and writes, and TPDUs the module loses or answers
                     \* with garbage
  MaxData,           \* bound: answers of the module other than the expected ones
  MaxCallbackWrites, \* bound: TPDUs written by one connection_data callback
  MaxPmts            \* bound: calls of cam_device_set_pmt

ASSUME TransportAssumption ==
  /\ SlotNum \in Nat \ {0}
  /\ MaxConnectionIds \in Nat \ {0}
  /\ MaxEmptyData \in Nat
  /\ MaxFaults \in Nat /\ MaxData \in Nat /\ MaxCallbackWrites \in Nat /\ MaxPmts \in Nat

VARIABLES
  pc,             \* what the CAM thread is doing
  slot,           \* next slot cam_device_open connects to
  connection_ids, \* tl->connection_ids
  table,          \* keys of tl->connections
  conn,           \* the CamTLConnection of every id of table
  expected_tpdus, \* tl->expected_tpdus
  poll,           \* the argument of the running cam_tl_read_all
  todo,           \* connections the walk has still to visit
  done,           \* its local done flag
  requests,       \* TPDUs written and not yet taken by the module
  replies,        \* TPDUs of the module not yet read
  wasted,         \* history: requests that no counted reply will answer
  budget          \* faults and data TPDUs still allowed

devVars == <<slot, connection_ids>>
callVars == <<poll, todo, done>>
hostVars == <<pc, devVars, table, conn, expected_tpdus, callVars>>
linkVars == <<requests, replies, wasted>>
vars == <<hostVars, linkVars, budget>>

Ids == 1..MaxConnectionIds

\* CAM_TL_CONNECTION_STATE_IN_CREATION is never assigned, and IN_DELETION only by
\* cam_tl_connection_delete, which nothing calls.
ConnState == {"CLOSED", "OPEN"}

\* last_poll is NULL, a timer younger than POLL_INTERVAL, or an older one.
LastPoll == {"null", "running", "elapsed"}

Connection == [state : ConnState, slot : 0..(SlotNum - 1), forSlot : 0..(SlotNum - 1),
               has_data : BOOLEAN, empty_data : 0..MaxEmptyData, last_poll : LastPoll]

HostTag == {"CREATE_T_C", "RCV", "DATA_LAST"}
ModuleTag == {"C_T_C_REPLY", "D_T_C_REPLY", "DATA", "SB"}

Request == [id : Ids, tag : HostTag]

\* What read () returns.  A TPDU is bad when read_tpdu_next refuses it: too short, a
\* length_field beyond the buffer, no status byte.  body: it has a body.
Reply == [id : Ids, tag : ModuleTag, body : BOOLEAN, more : BOOLEAN, bad : BOOLEAN]

\* What happens to a connection k.
Heard(k, more) == [k EXCEPT !.has_data = more]
NotEmpty(k) == [k EXCEPT !.empty_data = 0]
AskedForData(k) == [k EXCEPT !.empty_data = @ + 1]
Opened(k) == [k EXCEPT !.state = "OPEN"]
Timer(k, t) == [k EXCEPT !.last_poll = t]
Polled(k) == Timer(k, "running")

Phase == {"closed", "open", "idle", "write", "read", "walk"}

Outstanding == Len(requests) + Len(replies)

\* The connections of the TPDUs on the link, oldest first.
LinkIds ==
  [i \in 1..Outstanding |->
     IF i <= Len(replies) THEN replies[i].id ELSE requests[i - Len(replies)].id]

Spend(what) == budget' = [budget EXCEPT ![what] = @ - 1]

-----------------------------------------------------------------------------
(* Writing *)

\* g_new0 and the assignments of cam_tl_connection_new: the slot argument of
\* cam_tl_create_connection is never stored.  forSlot, a history field, remembers it.
NewConnection(s) ==
  [state |-> "CLOSED", slot |-> 0, forSlot |-> s, has_data |-> FALSE, empty_data |-> 0,
   last_poll |-> "null"]

\* mutant: the answer to a connection request is not counted
WrittenUncounted(ts) ==
  /\ requests' = requests \o ts
  /\ expected_tpdus' = expected_tpdus
       + Len(SelectSeq(ts, LAMBDA t : t.tag # "CREATE_T_C"))

\* A successful write of the TPDUs ts: each one is sent and one more answer expected.
Written(ts) ==
  /\ requests' = requests \o ts
  /\ expected_tpdus' = expected_tpdus + Len(ts)

\* The upper layers write data TPDUs: k of them, on connection c.
DataTpdus(c, k) == [i \in 1..k |-> [id |-> c, tag |-> "DATA_LAST"]]

-----------------------------------------------------------------------------
(* camdevice.c: open and close *)

\* cam_device_open up to the loop over the slots.  cam_tl_new starts from zero.
DeviceOpen ==
  /\ pc = "closed"
  /\ pc' = "open"
  /\ UNCHANGED <<devVars, table, conn, expected_tpdus, callVars, linkVars, budget>>

\* cam_tl_create_connection for the next slot.  Up to ten failing writes are retried and
\* change nothing, so a call is one successful write or none.
CreateConnection ==
  /\ pc = "open" /\ slot < SlotNum
  /\ slot' = slot + 1
  /\ \/ /\ connection_ids < MaxConnectionIds
        /\ connection_ids' = connection_ids + 1
        /\ table' = table \cup {connection_ids'}
        /\ conn' = [conn EXCEPT ![connection_ids'] = NewConnection(slot)]
        /\ Written(<<[id |-> connection_ids', tag |-> "CREATE_T_C"]>>)
        /\ UNCHANGED budget
     \/ /\ connection_ids < MaxConnectionIds /\ budget.faults > 0
        /\ connection_ids' = connection_ids + 1
        /\ Spend("faults")
        /\ UNCHANGED <<table, conn, expected_tpdus, requests>>
     \/ /\ connection_ids = MaxConnectionIds
        /\ UNCHANGED <<connection_ids, table, conn, expected_tpdus, requests, budget>>
  /\ UNCHANGED <<pc, callVars, replies, wasted>>

\* reset_state: the transport layer is freed and the device closed; what is still on the
\* link is gone (the next open resets the CA).
ResetState ==
  /\ pc' = "closed" /\ slot' = 0 /\ connection_ids' = 0 /\ table' = {}
  /\ conn' = [c \in Ids |-> NewConnection(0)]
  /\ expected_tpdus' = 0 /\ poll' = FALSE /\ todo' = {} /\ done' = TRUE
  /\ requests' = <<>> /\ replies' = <<>> /\ wasted' = 0
  /\ UNCHANGED budget

\* cam_tl_read_all is entered.
EnterReadAll(p) == pc' = "read" /\ poll' = p /\ done' = FALSE /\ todo' = {}

\* The loop over the slots has ended.
DeviceOpened ==
  /\ pc = "open" /\ slot = SlotNum
  /\ IF table = {}
     THEN ResetState
     ELSE /\ EnterReadAll(TRUE)
          /\ UNCHANGED <<devVars, table, conn, expected_tpdus, linkVars, budget>>

DeviceClose == pc = "idle" /\ ResetState

DevicePoll ==
  /\ pc = "idle"
  /\ EnterReadAll(TRUE)
  /\ UNCHANGED <<devVars, table, conn, expected_tpdus, linkVars, budget>>

\* cam_device_set_pmt begins: send_ca_pmt goes over the open sessions (one a connection).
DeviceSetPmt ==
  /\ pc = "idle" /\ budget.pmts > 0
  /\ pc' = "write" /\ todo' = table
  /\ Spend("pmts")
  /\ UNCHANGED <<devVars, table, conn, expected_tpdus, poll, done, linkVars>>

\* One CA PMT is written.  A failing write changes nothing here and is ignored there.
SendCaPmt(c) ==
  /\ pc = "write" /\ c \in todo
  /\ todo' = todo \ {c}
  /\ Written(DataTpdus(c, 1))
  /\ UNCHANGED <<pc, devVars, table, conn, poll, done, replies, wasted, budget>>

\* cam_device_set_pmt ends with cam_tl_read_all (tl, FALSE).
CaPmtSent ==
  /\ pc = "write"
  /\ EnterReadAll(FALSE)
  /\ UNCHANGED <<devVars, table, conn, expected_tpdus, linkVars, budget>>

-----------------------------------------------------------------------------
(* cam_tl_read_all: the inner loop, while (tl->expected_tpdus) *)

ReadLoop == pc = "read" /\ expected_tpdus > 0

\* select returns 0, the module did not answer within two seconds; or read () fails.
ReadTimeout ==
  /\ ReadLoop
  /\ \/ replies = <<>> /\ UNCHANGED budget
     \/ replies # <<>> /\ budget.faults > 0 /\ Spend("faults")
  /\ pc' = "idle"
  /\ UNCHANGED <<devVars, table, conn, expected_tpdus, callVars, linkVars>>

\* A TPDU that read_tpdu_next refuses is consumed without being counted.
ReadRefused ==
  /\ ReadLoop /\ replies # <<>>
  /\ Head(replies).bad \/ Head(replies).id \notin table
  /\ pc' = "idle"
  /\ replies' = Tail(replies)
  /\ wasted' = wasted + 1
  /\ UNCHANGED <<devVars, table, conn, expected_tpdus, callVars, requests, budget>>

\* What every accepted TPDU does: has_data follows its status byte.
Accepted(tag) ==
  /\ ReadLoop /\ replies # <<>>
  /\ ~Head(replies).bad /\ Head(replies).id \in table /\ Head(replies).tag = tag
  /\ replies' = Tail(replies)

\* handle_control_tpdu, C_T_C_REPLY.  A body is an error, noticed after the counting.
ReadCreateReply ==
  /\ Accepted("C_T_C_REPLY")
  /\ LET r == Head(replies) IN
     /\ conn' = [conn EXCEPT ![r.id] =
                    LET k == NotEmpty(Heard(@, r.more)) IN IF r.body THEN k ELSE Opened(k)]
     /\ pc' = IF r.body THEN "idle" ELSE "read"
  /\ expected_tpdus' = expected_tpdus - 1
  /\ UNCHANGED <<devVars, table, callVars, requests, wasted, budget>>

\* handle_control_tpdu, D_T_C_REPLY: the connection leaves the table and is freed.
ReadDeleteReply ==
  /\ Accepted("D_T_C_REPLY")
  /\ LET r == Head(replies) IN
     IF r.body
     THEN /\ conn' = [conn EXCEPT ![r.id] = NotEmpty(Heard(@, r.more))]
          /\ pc' = "idle"
          /\ UNCHANGED table
     ELSE /\ conn' = [conn EXCEPT ![r.id] = NewConnection(0)]
          /\ table' = table \ {r.id}
          /\ UNCHANGED pc
  /\ expected_tpdus' = expected_tpdus - 1
  /\ UNCHANGED <<devVars, callVars, requests, wasted, budget>>

\* handle_data_tpdu: the connection_data callback of the session layer writes up to
\* MaxCallbackWrites TPDUs on the connection and reports success or an error; with an
\* empty body it is not called.
ReadData ==
  /\ Accepted("DATA")
  /\ LET r == Head(replies) IN
     /\ conn' = [conn EXCEPT ![r.id] = NotEmpty(Heard(@, r.more))]
     /\ \E k \in (IF r.body THEN 0..MaxCallbackWrites ELSE {0}) :
          /\ requests' = requests \o DataTpdus(r.id, k)
          /\ expected_tpdus' = expected_tpdus - 1 + k
     /\ pc' \in (IF r.body THEN {"read", "idle"} ELSE {"read"})
  /\ UNCHANGED <<devVars, table, callVars, wasted, budget>>


\* mutant: a status byte is not counted as the answer
ReadStatusUncounted ==
  /\ Accepted("SB")
  /\ conn' = [conn EXCEPT ![Head(replies).id] = Heard(@, Head(replies).more)]
  /\ UNCHANGED <<pc, devVars, table, expected_tpdus, callVars, requests, wasted, budget>>

\* A lone status byte: empty_data keeps its value.
ReadStatus ==
  /\ Accepted("SB")
  /\ conn' = [conn EXCEPT ![Head(replies).id] = Heard(@, Head(replies).more)]
  /\ expected_tpdus' = expected_tpdus - 1
  /\ UNCHANGED <<pc, devVars, table, callVars, requests, wasted, budget>>

-----------------------------------------------------------------------------
(* cam_tl_read_all: the walk over a snapshot of the connections *)

\* mutant: MAX_EMPTY_DATA is not enforced
WantsDataUnbounded(c) == conn[c].has_data

WantsData(c) == conn[c].has_data /\ conn[c].empty_data < MaxEmptyData

\* mutant: the inner loop gives up after one answer
StartWalkEarly ==
  /\ pc = "read"
  /\ pc' = "walk" /\ todo' = table /\ done' = TRUE
  /\ UNCHANGED <<devVars, table, conn, expected_tpdus, poll, linkVars, budget>>

\* Every expected answer has arrived.
StartWalk ==
  /\ pc = "read" /\ expected_tpdus = 0
  /\ pc' = "walk" /\ todo' = table /\ done' = TRUE
  /\ UNCHANGED <<devVars, table, conn, expected_tpdus, poll, linkVars, budget>>

\* The connection reported data: ask for it with TAG_RCV.
SendRcv(c) ==
  /\ pc = "walk" /\ c \in todo /\ WantsData(c)
  /\ todo' = todo \ {c}
  /\ conn' = [conn EXCEPT ![c] = AskedForData(@)]
  /\ done' = FALSE
  /\ Written(<<[id |-> c, tag |-> "RCV"]>>)
  /\ UNCHANGED <<pc, devVars, table, poll, replies, wasted, budget>>

\* cam_tl_connection_poll, when its timer is NULL or POLL_INTERVAL old.
SendPoll(c) ==
  /\ pc = "walk" /\ c \in todo /\ ~WantsData(c) /\ poll /\ conn[c].last_poll # "running"
  /\ todo' = todo \ {c}
  /\ conn' = [conn EXCEPT ![c] = Polled(@)]
  /\ done' = FALSE
  /\ Written(<<[id |-> c, tag |-> "DATA_LAST"]>>)
  /\ UNCHANGED <<pc, devVars, table, poll, replies, wasted, budget>>

\* CAM_RETURN_TRANSPORT_POLL, or a quiet connection of a call that does not poll.
SkipConnection(c) ==
  /\ pc = "walk" /\ c \in todo /\ ~WantsData(c) /\ (poll => conn[c].last_poll = "running")
  /\ todo' = todo \ {c}
  /\ UNCHANGED <<pc, devVars, table, conn, expected_tpdus, poll, done, linkVars, budget>>

\* The write of a RCV or of a poll fails and the walk is abandoned.  A first poll has
\* created its timer by then.
WalkWriteFails(c) ==
  /\ pc = "walk" /\ c \in todo /\ budget.faults > 0
  /\ \/ WantsData(c) /\ UNCHANGED conn
     \/ /\ ~WantsData(c) /\ poll /\ conn[c].last_poll # "running"
        /\ conn' = [conn EXCEPT ![c] = IF @.last_poll = "null" THEN Polled(@) ELSE @]
  /\ pc' = "idle" /\ todo' = {}
  /\ Spend("faults")
  /\ UNCHANGED <<devVars, table, expected_tpdus, poll, done, linkVars>>

EndWalk ==
  /\ pc = "walk" /\ todo = {}
  /\ pc' = IF done THEN "idle" ELSE "read"
  /\ UNCHANGED <<devVars, table, conn, expected_tpdus, callVars, linkVars, budget>>

-----------------------------------------------------------------------------
(* The environment: time, and the module at the other end of the link *)

\* The poll timer of c reaches POLL_INTERVAL, 0.3 s, whatever the host is doing: one read
\* may take 2 s, so this may happen any number of times within one cam_tl_read_all.
Tick(c) ==
  /\ c \in table /\ conn[c].last_poll = "running"
  /\ conn' = [conn EXCEPT ![c] = Timer(@, "elapsed")]
  /\ UNCHANGED <<pc, devVars, table, expected_tpdus, callVars, linkVars, budget>>

\* The answer to a request: a connection request is acknowledged, anything else is
\* answered with a status byte, or with data.
AnswerTo(r, tag, body, more) ==
  [id |-> r.id, tag |-> tag, body |-> body, more |-> more, bad |-> FALSE]

ModuleAnswers ==
  /\ requests # <<>>
  /\ requests' = Tail(requests)
  /\ \E tag \in (IF Head(requests).tag = "CREATE_T_C" THEN {"C_T_C_REPLY"} ELSE {"SB"}),
        more \in BOOLEAN :
       replies' = Append(replies, AnswerTo(Head(requests), tag, FALSE, more))
  /\ UNCHANGED <<hostVars, wasted, budget>>

\* Data, an acknowledgement with an unexpected body, or the end of the connection.
ModuleAnswersWith(tag, body) ==
  /\ requests # <<>> /\ budget.data > 0
  /\ Spend("data")
  /\ requests' = Tail(requests)
  /\ \E more \in BOOLEAN :
       replies' = Append(replies, AnswerTo(Head(requests), tag, body, more))
  /\ UNCHANGED <<hostVars, wasted>>

ModuleGarbles ==
  /\ requests # <<>> /\ budget.faults > 0
  /\ Spend("faults")
  /\ requests' = Tail(requests)
  /\ replies' = Append(replies,
       [id |-> Head(requests).id, tag |-> "SB", body |-> FALSE, more |-> FALSE, bad |-> TRUE])
  /\ UNCHANGED <<hostVars, wasted>>

ModuleLoses ==
  /\ requests # <<>> /\ budget.faults > 0
  /\ Spend("faults")
  /\ requests' = Tail(requests)
  /\ wasted' = wasted + 1
  /\ UNCHANGED <<hostVars, replies>>

-----------------------------------------------------------------------------
Init ==
  /\ pc = "closed" /\ slot = 0 /\ connection_ids = 0 /\ table = {}
  /\ conn = [c \in Ids |-> NewConnection(0)]
  /\ expected_tpdus = 0 /\ poll = FALSE /\ todo = {} /\ done = TRUE
  /\ requests = <<>> /\ replies = <<>> /\ wasted = 0
  /\ budget = [faults |-> MaxFaults, data |-> MaxData, pmts |-> MaxPmts]

Read ==
  \/ ReadTimeout \/ ReadRefused \/ ReadCreateReply \/ ReadDeleteReply \/ ReadData \/ ReadStatus

Walk ==
  \/ StartWalk
  \/ \E c \in Ids : SendRcv(c) \/ SendPoll(c) \/ SkipConnection(c) \/ WalkWriteFails(c)
  \/ EndWalk

ReadAll == Read \/ Walk

Device ==
  \/ DeviceOpen \/ CreateConnection \/ DeviceOpened \/ DeviceClose
  \/ DevicePoll \/ DeviceSetPmt \/ CaPmtSent
  \/ \E c \in Ids : SendCaPmt(c)

Module ==
  \/ ModuleAnswers
  \/ \E tag \in {"DATA", "C_T_C_REPLY", "D_T_C_REPLY"}, body \in BOOLEAN :
       ModuleAnswersWith(tag, body)
  \/ ModuleGarbles \/ ModuleLoses

Next == ReadAll \/ Device \/ Module \/ \E c \in Ids : Tick(c)

Spec == Init /\ [][Next]_vars

\* The CAM thread keeps running: it carries on with a read_all it began, and its loop
\* calls cam_device_poll every 250 ms (dvb_base_bin_task).  Timers expire, and a TPDU the
\* module took is answered or lost within finite time.
FairSpec ==
  /\ Spec
  /\ WF_vars(ReadAll) /\ WF_vars(CreateConnection \/ DeviceOpened \/ CaPmtSent)
  /\ SF_vars(DevicePoll)
  /\ WF_vars(Module)
  /\ \A c \in Ids : SF_vars(pc = "idle" /\ Tick(c))

-----------------------------------------------------------------------------
(* Properties *)

TypeOK ==
  /\ pc \in Phase /\ slot \in 0..SlotNum /\ connection_ids \in 0..MaxConnectionIds
  /\ table \subseteq 1..connection_ids
  /\ conn \in [Ids -> Connection]
  /\ expected_tpdus \in Nat /\ poll \in BOOLEAN /\ done \in BOOLEAN
  /\ todo \subseteq (IF pc \in {"write", "walk"} THEN table ELSE {})
  /\ requests \in Seq(Request) /\ replies \in Seq(Reply) /\ wasted \in Nat
  /\ budget \in [{"faults", "data", "pmts"} -> Nat]

\* expected_tpdus counts exactly the TPDUs on the link and those that no answer will ever
\* be counted for; it is unsigned in the code and must never go below zero.
CreditAccounting == expected_tpdus = Outstanding + wasted

\* A connection is polled or asked for data only when every TPDU written so far has been
\* answered: while cam_tl_read_all walks the connections, what is on the link was written
\* by this very walk, at most one TPDU per connection, and none was lost before.
HalfDuplex ==
  pc = "walk" =>
    /\ \A i, j \in 1..Outstanding : LinkIds[i] = LinkIds[j] => i = j
    /\ \A i \in 1..Outstanding : LinkIds[i] \notin todo

\* A connection is addressed to the slot it was opened for ("open a connection to each
\* slot", camdevice.c:161).
SlotAddressed == \A c \in table : conn[c].slot = conn[c].forSlot

\* A connection becomes due for a poll before the cam_tl_read_all that polled it has ended:
\* the module was slower than POLL_INTERVAL.
DueWhileReading == pc # "idle" /\ \E c \in Ids : Tick(c)


BeingPolled(c) == c \notin table \/ conn[c].last_poll = "running"

\* As long as the module answers every TPDU, however late, no connection stops being polled.
PollingGoesOn == [](wasted = 0) => \A c \in Ids : []<>BeingPolled(c)

\* The same without the proviso: a TPDU that is never answered delays polling, no more.
PollingSurvivesLoss == \A c \in Ids : []<>BeingPolled(c)
=============================================================================
