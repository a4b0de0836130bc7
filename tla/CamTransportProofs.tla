------------------------- MODULE CamTransportProofs -------------------------
(***************************************************************************)
(* Theorems about CamTransport, for any number of slots and connections    *)
(* and without any bound on faults: type correctness, the accounting of    *)
(* expected_tpdus, and from it that connections are polled half-duplex.    *)
(***************************************************************************)
EXTENDS CamTransport, SequenceTheorems, TLAPS

\* What cam_tl_connection_new returns is a connection.
LEMMA NewConnectionType ==
  ASSUME NEW s \in 0..(SlotNum - 1)
  PROVE  NewConnection(s) \in Connection
BY TransportAssumption DEF NewConnection, Connection, ConnState, LastPoll

\* Slot 0, the one every connection addresses, exists.
LEMMA ZeroSlot == 0 \in 0..(SlotNum - 1)
BY TransportAssumption

\* The handlers keep a connection well typed; only one below MAX_EMPTY_DATA is asked for data.
LEMMA ConnectionUpdates ==
  ASSUME NEW k \in Connection
  PROVE  /\ \A more \in BOOLEAN : Heard(k, more) \in Connection
         /\ NotEmpty(k) \in Connection
         /\ k.empty_data < MaxEmptyData => AskedForData(k) \in Connection
         /\ Opened(k) \in Connection
         /\ Polled(k) \in Connection
         /\ Timer(k, "elapsed") \in Connection
BY TransportAssumption
   DEF Connection, ConnState, LastPoll, Heard, NotEmpty, AskedForData, Opened, Polled, Timer

\* The k TPDUs a callback writes are k requests.
LEMMA DataTpdusType ==
  ASSUME NEW c \in Ids, NEW k \in Nat
  PROVE  DataTpdus(c, k) \in Seq(Request) /\ Len(DataTpdus(c, k)) = k
<1>1. \A i \in 1..k : [id |-> c, tag |-> "DATA_LAST"] \in Request
  BY DEF Request, HostTag
<1>2. DataTpdus(c, k) \in [1..k -> Request]
  BY <1>1 DEF DataTpdus
<1>3. QED
  BY <1>2 DEF DataTpdus

\* Every TPDU the host writes is a request.
LEMMA RequestType == \A c \in Ids, t \in HostTag : [id |-> c, tag |-> t] \in Request
BY DEF Request

\* Every answer of the module is a reply.
LEMMA AnswerType ==
  ASSUME NEW r \in Request, NEW tag \in ModuleTag, NEW body \in BOOLEAN, NEW more \in BOOLEAN
  PROVE  AnswerTo(r, tag, body, more) \in Reply
BY DEF AnswerTo, Reply, Request

\* What the type invariant says of the TPDU at the head of replies, and of a request.
LEMMA HeadReplyType ==
  ASSUME TypeOK, replies # <<>>
  PROVE  /\ Head(replies).id \in Ids /\ Head(replies).more \in BOOLEAN
         /\ Tail(replies) \in Seq(Reply) /\ Len(Tail(replies)) = Len(replies) - 1
<1>1. replies \in Seq(Reply)
  BY DEF TypeOK
<1>2. Head(replies) \in Reply /\ Tail(replies) \in Seq(Reply) /\ Len(Tail(replies)) = Len(replies) - 1
  BY <1>1, HeadTailProperties
<1>3. QED
  BY <1>2 DEF Reply

\* The same of the TPDU the module takes next.
LEMMA HeadRequestType ==
  ASSUME TypeOK, requests # <<>>
  PROVE  /\ Head(requests) \in Request /\ Head(requests).id \in Ids
         /\ Tail(requests) \in Seq(Request) /\ Len(Tail(requests)) = Len(requests) - 1
<1>1. requests \in Seq(Request)
  BY DEF TypeOK
<1>2. Head(requests) \in Request /\ Tail(requests) \in Seq(Request)
      /\ Len(Tail(requests)) = Len(requests) - 1
  BY <1>1, HeadTailProperties
<1>3. QED
  BY <1>2 DEF Request

\* Writing one TPDU.
LEMMA WrittenOne ==
  ASSUME TypeOK, NEW c \in Ids, NEW t \in HostTag, Written(<<[id |-> c, tag |-> t]>>)
  PROVE  /\ requests' \in Seq(Request) /\ Len(requests') = Len(requests) + 1
         /\ requests' = Append(requests, [id |-> c, tag |-> t])
         /\ expected_tpdus' = expected_tpdus + 1 /\ expected_tpdus' \in Nat
<1>1. [id |-> c, tag |-> t] \in Request
  BY RequestType
<1>2. requests' = requests \o <<[id |-> c, tag |-> t]>> /\ expected_tpdus' = expected_tpdus + 1
  BY DEF Written
<1>3. requests \in Seq(Request)
  BY DEF TypeOK
<1>4. requests' = Append(requests, [id |-> c, tag |-> t])
  BY <1>1, <1>2, <1>3, AppendIsConcat
<1>5. QED
  BY <1>1, <1>2, <1>3, <1>4, AppendProperties DEF TypeOK

\* One data TPDU.
LEMMA DataTpdusOne == \A c \in Ids : DataTpdus(c, 1) = <<[id |-> c, tag |-> "DATA_LAST"]>>
BY DEF DataTpdus

\* Every step preserves the type invariant.
LEMMA TypeStep == TypeOK /\ [Next]_vars => TypeOK'
<1> SUFFICES ASSUME TypeOK, [Next]_vars PROVE TypeOK'
  OBVIOUS
<1> USE TransportAssumption DEF TypeOK, Ids, hostVars, devVars, callVars, linkVars, Phase
<1>1. CASE DeviceOpen
  BY <1>1 DEF DeviceOpen
<1>2. CASE CreateConnection
  <2>1. ASSUME connection_ids < MaxConnectionIds,
               connection_ids' = connection_ids + 1,
               table' = table \cup {connection_ids'},
               conn' = [conn EXCEPT ![connection_ids'] = NewConnection(slot)],
               Written(<<[id |-> connection_ids', tag |-> "CREATE_T_C"]>>),
               UNCHANGED budget
        PROVE  TypeOK'
    <3>1. connection_ids' \in Ids /\ slot \in 0..(SlotNum - 1)
      BY <1>2, <2>1 DEF CreateConnection
    <3>2. conn' \in [Ids -> Connection]
      BY <2>1, <3>1, NewConnectionType
    <3>3. requests' \in Seq(Request) /\ expected_tpdus' \in Nat
      BY <2>1, <3>1, WrittenOne DEF HostTag
    <3>4. QED
      BY <1>2, <2>1, <3>1, <3>2, <3>3 DEF CreateConnection
  <2>2. CASE UNCHANGED <<table, conn, expected_tpdus, requests>>
    BY <1>2, <2>2 DEF CreateConnection, Spend
  <2>3. QED
    BY <1>2, <2>1, <2>2 DEF CreateConnection
<1>3. ASSUME ResetState PROVE TypeOK'
  <2>1. conn' \in [Ids -> Connection]
    BY <1>3, NewConnectionType, ZeroSlot DEF ResetState
  <2>2. requests' \in Seq(Request) /\ replies' \in Seq(Reply)
    BY <1>3 DEF ResetState
  <2>3. pc' \in Phase /\ slot' \in 0..SlotNum /\ connection_ids' \in 0..MaxConnectionIds
        /\ table' \subseteq 1..connection_ids' /\ todo' = {}
    BY <1>3 DEF ResetState
  <2>4. expected_tpdus' \in Nat /\ poll' \in BOOLEAN /\ done' \in BOOLEAN /\ wasted' \in Nat
        /\ budget' = budget
    BY <1>3 DEF ResetState
  <2>5. QED
    BY <2>1, <2>2, <2>3, <2>4
<1>4. CASE DeviceOpened
  BY <1>3, <1>4 DEF DeviceOpened, EnterReadAll
<1>5. CASE DeviceClose
  BY <1>3, <1>5 DEF DeviceClose
<1>6. CASE DevicePoll
  BY <1>6 DEF DevicePoll, EnterReadAll
<1>7. CASE DeviceSetPmt
  BY <1>7 DEF DeviceSetPmt, Spend
<1>8. ASSUME NEW c \in Ids, SendCaPmt(c) PROVE TypeOK'
  <2>1. requests' \in Seq(Request) /\ expected_tpdus' \in Nat
    BY <1>8, WrittenOne, DataTpdusOne DEF SendCaPmt, HostTag
  <2>2. QED
    BY <1>8, <2>1 DEF SendCaPmt
<1>9. CASE CaPmtSent
  BY <1>9 DEF CaPmtSent, EnterReadAll
<1>10. CASE ReadTimeout
  BY <1>10 DEF ReadTimeout, ReadLoop, Spend
<1>11. CASE ReadRefused
  BY <1>11, HeadReplyType DEF ReadRefused, ReadLoop
<1>12. ASSUME replies # <<>>
       PROVE  NotEmpty(Heard(conn[Head(replies).id], Head(replies).more)) \in Connection
  BY <1>12, HeadReplyType, ConnectionUpdates
<1>13. CASE ReadCreateReply
  <2>1. conn' \in [Ids -> Connection]
    BY <1>12, <1>13, HeadReplyType, ConnectionUpdates DEF ReadCreateReply, Accepted, ReadLoop
  <2>2. QED
    BY <1>13, <2>1, HeadReplyType DEF ReadCreateReply, Accepted, ReadLoop
<1>14. CASE ReadDeleteReply
  <2>1. conn' \in [Ids -> Connection]
    BY <1>12, <1>14, HeadReplyType, NewConnectionType, ZeroSlot
       DEF ReadDeleteReply, Accepted, ReadLoop
  <2>2. pc = "read" /\ todo = {} /\ todo' = {} /\ pc' \in {"read", "idle"}
    BY <1>14 DEF ReadDeleteReply, Accepted, ReadLoop
  <2>3. expected_tpdus' \in Nat /\ replies' \in Seq(Reply)
    BY <1>14, HeadReplyType DEF ReadDeleteReply, Accepted, ReadLoop
  <2>4. table' \subseteq 1..connection_ids'
    BY <1>14 DEF ReadDeleteReply
  <2>5. QED
    BY <1>14, <2>1, <2>2, <2>3, <2>4 DEF ReadDeleteReply
<1>15. CASE ReadData
  <2>1. conn' \in [Ids -> Connection]
    BY <1>12, <1>15, HeadReplyType DEF ReadData, Accepted, ReadLoop
  <2>2. PICK k \in Nat : /\ requests' = requests \o DataTpdus(Head(replies).id, k)
                         /\ expected_tpdus' = expected_tpdus - 1 + k
    <3>1. PICK k \in (IF Head(replies).body THEN 0..MaxCallbackWrites ELSE {0}) :
             /\ requests' = requests \o DataTpdus(Head(replies).id, k)
             /\ expected_tpdus' = expected_tpdus - 1 + k
      BY <1>15 DEF ReadData
    <3>2. k \in Nat
      OBVIOUS
    <3>3. QED
      BY <3>1, <3>2
  <2>3. DataTpdus(Head(replies).id, k) \in Seq(Request)
    BY <1>15, HeadReplyType, DataTpdusType DEF ReadData, Accepted
  <2>4. requests' \in Seq(Request)
    BY <2>2, <2>3, ConcatProperties
  <2>5. expected_tpdus' \in Nat
    BY <1>15, <2>2 DEF ReadData, Accepted, ReadLoop
  <2>6. QED
    BY <1>15, <2>1, <2>4, <2>5, HeadReplyType DEF ReadData, Accepted, ReadLoop
<1>16. CASE ReadStatus
  <2>1. conn' \in [Ids -> Connection]
    BY <1>16, HeadReplyType, ConnectionUpdates DEF ReadStatus, Accepted, ReadLoop
  <2>2. QED
    BY <1>16, <2>1, HeadReplyType DEF ReadStatus, Accepted, ReadLoop
<1>17. CASE StartWalk
  BY <1>17 DEF StartWalk
<1>18. ASSUME NEW c \in Ids, SendRcv(c) PROVE TypeOK'
  <2>1. conn[c] \in Connection /\ conn[c].empty_data < MaxEmptyData
    BY <1>18 DEF SendRcv, WantsData, Connection
  <2>2. conn' \in [Ids -> Connection]
    BY <1>18, <2>1, ConnectionUpdates DEF SendRcv
  <2>3. requests' \in Seq(Request) /\ expected_tpdus' \in Nat
    BY <1>18, WrittenOne DEF SendRcv, HostTag
  <2>4. QED
    BY <1>18, <2>2, <2>3 DEF SendRcv
<1>19. ASSUME NEW c \in Ids, SendPoll(c) PROVE TypeOK'
  <2>1. conn' \in [Ids -> Connection]
    BY <1>19, ConnectionUpdates DEF SendPoll
  <2>2. requests' \in Seq(Request) /\ expected_tpdus' \in Nat
    BY <1>19, WrittenOne DEF SendPoll, HostTag
  <2>3. QED
    BY <1>19, <2>1, <2>2 DEF SendPoll
<1>20. ASSUME NEW c \in Ids, SkipConnection(c) PROVE TypeOK'
  BY <1>20 DEF SkipConnection
<1>21. ASSUME NEW c \in Ids, WalkWriteFails(c) PROVE TypeOK'
  <2>1. CASE UNCHANGED conn
    BY <1>21, <2>1 DEF WalkWriteFails, Spend
  <2>2. ASSUME conn' = [conn EXCEPT ![c] = IF @.last_poll = "null" THEN Polled(@) ELSE @]
        PROVE  TypeOK'
    <3>1. conn[c] \in Connection /\ Polled(conn[c]) \in Connection
      BY ConnectionUpdates
    <3>2. conn' \in [Ids -> Connection]
      BY <2>2, <3>1
    <3>3. QED
      BY <1>21, <3>2 DEF WalkWriteFails, Spend
  <2>3. QED
    BY <1>21, <2>1, <2>2 DEF WalkWriteFails
<1>22. CASE EndWalk
  BY <1>22 DEF EndWalk
<1>23. ASSUME NEW c \in Ids, Tick(c) PROVE TypeOK'
  <2>1. conn' \in [Ids -> Connection]
    BY <1>23, ConnectionUpdates DEF Tick
  <2>2. QED
    BY <1>23, <2>1 DEF Tick
<1>24. CASE ModuleAnswers
  <2>1. PICK tag \in ModuleTag, more \in BOOLEAN :
           replies' = Append(replies, AnswerTo(Head(requests), tag, FALSE, more))
    BY <1>24 DEF ModuleAnswers, ModuleTag
  <2>2. AnswerTo(Head(requests), tag, FALSE, more) \in Reply
    BY <1>24, HeadRequestType, AnswerType DEF ModuleAnswers
  <2>3. requests' \in Seq(Request) /\ replies' \in Seq(Reply)
    BY <1>24, <2>1, <2>2, HeadRequestType, AppendProperties DEF ModuleAnswers
  <2>4. QED
    BY <1>24, <2>3 DEF ModuleAnswers
<1>25. ASSUME NEW tag \in {"DATA", "C_T_C_REPLY", "D_T_C_REPLY"}, NEW body \in BOOLEAN,
              ModuleAnswersWith(tag, body)
       PROVE  TypeOK'
  <2>1. requests' \in Seq(Request) /\ replies' \in Seq(Reply)
    BY <1>25, HeadRequestType, AnswerType, AppendProperties DEF ModuleAnswersWith, ModuleTag
  <2>2. QED
    BY <1>25, <2>1 DEF ModuleAnswersWith, Spend
<1>26. CASE ModuleGarbles
  <2>1. [id |-> Head(requests).id, tag |-> "SB", body |-> FALSE, more |-> FALSE, bad |-> TRUE]
          \in Reply
    BY <1>26, HeadRequestType DEF ModuleGarbles, Reply, ModuleTag
  <2>2. requests' \in Seq(Request) /\ replies' \in Seq(Reply)
    BY <1>26, <2>1, HeadRequestType, AppendProperties DEF ModuleGarbles
  <2>3. QED
    BY <1>26, <2>2 DEF ModuleGarbles, Spend
<1>27. CASE ModuleLoses
  <2>1. requests' \in Seq(Request) /\ wasted' \in Nat
    BY <1>27, HeadRequestType DEF ModuleLoses
  <2>2. QED
    BY <1>27, <2>1 DEF ModuleLoses, Spend
<1>28. CASE UNCHANGED vars
  BY <1>28 DEF vars
<1>29. QED
  BY <1>1, <1>2, <1>4, <1>5, <1>6, <1>7, <1>8, <1>9, <1>10, <1>11, <1>13, <1>14, <1>15, <1>16,
     <1>17, <1>18, <1>19, <1>20, <1>21, <1>22, <1>23, <1>24, <1>25, <1>26, <1>27, <1>28
     DEF Next, ReadAll, Read, Walk, Device, Module

\* NewConnection is well typed and the device starts closed.
LEMMA TypeInit == Init => TypeOK
<1> SUFFICES ASSUME Init PROVE TypeOK
  OBVIOUS
<1>1. conn \in [Ids -> Connection]
  BY NewConnectionType, ZeroSlot DEF Init
<1>2. requests \in Seq(Request) /\ replies \in Seq(Reply)
  BY EmptySeq DEF Init
<1>3. budget \in [{"faults", "data", "pmts"} -> Nat]
  BY TransportAssumption DEF Init
<1>4. /\ pc = "closed" /\ slot = 0 /\ connection_ids = 0 /\ table = {} /\ expected_tpdus = 0
      /\ poll \in BOOLEAN /\ done \in BOOLEAN /\ todo = {} /\ wasted = 0
  BY DEF Init
<1>5. QED
  BY <1>1, <1>2, <1>3, <1>4, TransportAssumption DEF TypeOK, Phase

\* Type correctness: among the rest, empty_data never exceeds MaxEmptyData and only
\* connections of the table are being walked.
THEOREM TypeCorrect == Spec => []TypeOK
<1>1. TypeOK /\ [Next]_vars => TypeOK'
  BY TypeStep
<1>2. QED
  BY TypeInit, <1>1, PTL DEF Spec

-----------------------------------------------------------------------------
(* expected_tpdus *)

\* Every step keeps the accounts: what is written is counted, what is accepted is counted off,
\* and what is neither answered nor accepted is wasted.
LEMMA CreditStep == TypeOK /\ CreditAccounting /\ [Next]_vars => CreditAccounting'
<1> SUFFICES ASSUME TypeOK, CreditAccounting, [Next]_vars PROVE CreditAccounting'
  OBVIOUS
<1> USE DEF CreditAccounting, Outstanding, hostVars, devVars, callVars, linkVars
<1>0. /\ requests \in Seq(Request) /\ replies \in Seq(Reply)
      /\ Len(requests) \in Nat /\ Len(replies) \in Nat
      /\ expected_tpdus \in Nat /\ wasted \in Nat
      /\ requests # <<>> => Len(Tail(requests)) = Len(requests) - 1
      /\ replies # <<>> => Len(Tail(replies)) = Len(replies) - 1
  BY HeadRequestType, HeadReplyType, LenProperties DEF TypeOK
<1>1. ASSUME NEW c \in Ids, NEW t \in HostTag, Written(<<[id |-> c, tag |-> t]>>),
             UNCHANGED <<replies, wasted>>
      PROVE  CreditAccounting'
  BY <1>0, <1>1, WrittenOne
<1>2. ASSUME ResetState PROVE CreditAccounting'
  BY <1>2, EmptySeq DEF ResetState
<1>3. CASE CreateConnection
  <2>1. ASSUME connection_ids < MaxConnectionIds, connection_ids' = connection_ids + 1,
               Written(<<[id |-> connection_ids', tag |-> "CREATE_T_C"]>>)
        PROVE  CreditAccounting'
    <3>1. connection_ids' \in Ids
      BY <2>1, TransportAssumption DEF TypeOK, Ids
    <3>2. QED
      BY <1>1, <1>3, <2>1, <3>1 DEF CreateConnection, HostTag
  <2>2. QED
    BY <1>3, <2>1 DEF CreateConnection
<1>4. CASE DeviceOpen \/ DevicePoll \/ DeviceSetPmt \/ CaPmtSent
  BY <1>4 DEF DeviceOpen, DevicePoll, DeviceSetPmt, CaPmtSent
<1>5. CASE DeviceOpened \/ DeviceClose
  BY <1>2, <1>5 DEF DeviceOpened, DeviceClose
<1>6. ASSUME NEW c \in Ids, SendCaPmt(c) PROVE CreditAccounting'
  BY <1>1, <1>6, DataTpdusOne DEF SendCaPmt, HostTag
<1>7. CASE ReadTimeout \/ StartWalk \/ EndWalk
  BY <1>7 DEF ReadTimeout, StartWalk, EndWalk
<1>8. CASE ReadRefused
  BY <1>0, <1>8 DEF ReadRefused
<1>9. CASE ReadCreateReply \/ ReadDeleteReply \/ ReadStatus
  BY <1>0, <1>9 DEF ReadCreateReply, ReadDeleteReply, ReadStatus, Accepted
<1>10. CASE ReadData
  <2>1. PICK k \in (IF Head(replies).body THEN 0..MaxCallbackWrites ELSE {0}) :
           /\ requests' = requests \o DataTpdus(Head(replies).id, k)
           /\ expected_tpdus' = expected_tpdus - 1 + k
    BY <1>10 DEF ReadData
  <2>2. k \in Nat
    BY TransportAssumption
  <2>3. DataTpdus(Head(replies).id, k) \in Seq(Request) /\ Len(DataTpdus(Head(replies).id, k)) = k
    BY <1>10, <2>2, HeadReplyType, DataTpdusType DEF ReadData, Accepted
  <2>4. Len(requests') = Len(requests) + k
    BY <1>0, <2>1, <2>3, ConcatProperties
  <2>5. /\ Len(replies') = Len(replies) - 1 /\ wasted' = wasted
        /\ expected_tpdus' = expected_tpdus - 1 + k
    BY <1>0, <1>10, <2>1 DEF ReadData, Accepted
  <2>6. QED
    BY <1>0, <2>2, <2>4, <2>5
<1>11. ASSUME NEW c \in Ids, SendRcv(c) \/ SendPoll(c) PROVE CreditAccounting'
  BY <1>1, <1>11 DEF SendRcv, SendPoll, HostTag
<1>12. ASSUME NEW c \in Ids, SkipConnection(c) \/ WalkWriteFails(c) \/ Tick(c)
       PROVE  CreditAccounting'
  BY <1>12 DEF SkipConnection, WalkWriteFails, Tick
<1>13. ASSUME requests # <<>>, requests' = Tail(requests), UNCHANGED <<hostVars, wasted>>,
              NEW a, replies' = Append(replies, a)
       PROVE  CreditAccounting'
  BY <1>0, <1>13
<1>14. CASE ModuleAnswers \/ ModuleGarbles
  BY <1>13, <1>14 DEF ModuleAnswers, ModuleGarbles
<1>15. ASSUME NEW tag, NEW body, ModuleAnswersWith(tag, body) PROVE CreditAccounting'
  BY <1>13, <1>15 DEF ModuleAnswersWith
<1>16. CASE ModuleLoses
  BY <1>0, <1>16 DEF ModuleLoses
<1>17. CASE UNCHANGED vars
  BY <1>17 DEF vars
<1>18. QED
  BY <1>3, <1>4, <1>5, <1>6, <1>7, <1>8, <1>9, <1>10, <1>11, <1>12, <1>14, <1>15, <1>16, <1>17
     DEF Next, ReadAll, Read, Walk, Device, Module

\* expected_tpdus is the number of TPDUs on the link plus those lost: the unsigned counter
\* never wraps, and it reaches zero only when nothing is outstanding.
THEOREM CreditCorrect == Spec => []CreditAccounting
<1>1. Init => CreditAccounting
  BY DEF Init, CreditAccounting, Outstanding
<1>2. QED
  BY <1>1, CreditStep, TypeCorrect, PTL DEF Spec

-----------------------------------------------------------------------------
(* The link while the connections are walked *)

\* Every step keeps the link half-duplex: a walk begins with an empty link, because the
\* accounts are then zero, and visits each connection once.
LEMMA HalfDuplexStep ==
  TypeOK /\ CreditAccounting /\ HalfDuplex /\ [Next]_vars => HalfDuplex'
<1> SUFFICES ASSUME TypeOK, CreditAccounting, HalfDuplex, [Next]_vars, pc' = "walk"
             PROVE  HalfDuplex'
  BY DEF HalfDuplex
<1> USE DEF HalfDuplex, hostVars, devVars, callVars, linkVars
<1>0. /\ requests \in Seq(Request) /\ replies \in Seq(Reply)
      /\ Len(requests) \in Nat /\ Len(replies) \in Nat
      /\ expected_tpdus \in Nat /\ wasted \in Nat /\ Outstanding \in Nat
  BY LenProperties DEF TypeOK, Outstanding
<1>1. CASE StartWalk
  <2>1. Outstanding' = 0
    BY <1>0, <1>1 DEF StartWalk, CreditAccounting, Outstanding
  <2>2. QED
    BY <2>1
<1>2. ASSUME NEW c \in Ids, SendRcv(c) \/ SendPoll(c) PROVE HalfDuplex'
  <2>1. PICK t \in HostTag : Written(<<[id |-> c, tag |-> t]>>)
    BY <1>2 DEF SendRcv, SendPoll, HostTag
  <2>2. /\ requests' = Append(requests, [id |-> c, tag |-> t]) /\ replies' = replies
        /\ pc = "walk" /\ c \in todo /\ todo' = todo \ {c}
    BY <1>2, <2>1, WrittenOne DEF SendRcv, SendPoll
  <2>3. /\ Len(requests') = Len(requests) + 1 /\ requests'[Len(requests) + 1].id = c
        /\ \A i \in 1..Len(requests) : requests'[i] = requests[i]
    BY <1>0, <2>2, RequestType, AppendProperties
  <2>4. /\ Outstanding' = Outstanding + 1 /\ LinkIds'[Outstanding + 1] = c
        /\ \A i \in 1..Outstanding : LinkIds'[i] = LinkIds[i]
    BY <1>0, <2>2, <2>3 DEF Outstanding, LinkIds
  <2>5. \A i \in 1..Outstanding' : i \in 1..Outstanding \/ i = Outstanding + 1
    BY <1>0, <2>4
  <2>6. QED
    BY <1>0, <2>2, <2>4, <2>5
<1>3. ASSUME NEW c \in Ids, SkipConnection(c) \/ Tick(c) PROVE HalfDuplex'
  BY <1>3 DEF SkipConnection, Tick, Outstanding, LinkIds
<1>4. ASSUME requests # <<>>, requests' = Tail(requests), UNCHANGED hostVars,
             NEW a \in Reply, a.id = Head(requests).id, replies' = Append(replies, a)
      PROVE  HalfDuplex'
  <2>1. /\ Len(requests') = Len(requests) - 1
        /\ \A i \in 1..Len(requests') : requests'[i] = requests[i + 1]
        /\ Head(requests) = requests[1]
    BY <1>0, <1>4, HeadTailProperties
  <2>2. /\ Len(replies') = Len(replies) + 1 /\ replies'[Len(replies) + 1] = a
        /\ \A i \in 1..Len(replies) : replies'[i] = replies[i]
    BY <1>0, <1>4, AppendProperties
  <2>3. Outstanding' = Outstanding /\ \A i \in 1..Outstanding : LinkIds'[i] = LinkIds[i]
    BY <1>0, <1>4, <2>1, <2>2 DEF Outstanding, LinkIds
  <2>4. QED
    BY <1>4, <2>3
<1>5. CASE ModuleAnswers
  <2>1. PICK tag \in ModuleTag, more \in BOOLEAN :
           replies' = Append(replies, AnswerTo(Head(requests), tag, FALSE, more))
    BY <1>5 DEF ModuleAnswers, ModuleTag
  <2>2. QED
    BY <1>4, <1>5, <2>1, HeadRequestType, AnswerType DEF ModuleAnswers, AnswerTo
<1>6. ASSUME NEW tag \in {"DATA", "C_T_C_REPLY", "D_T_C_REPLY"}, NEW body \in BOOLEAN,
             ModuleAnswersWith(tag, body)
      PROVE  HalfDuplex'
  <2>1. PICK more \in BOOLEAN :
           replies' = Append(replies, AnswerTo(Head(requests), tag, body, more))
    BY <1>6 DEF ModuleAnswersWith
  <2>2. AnswerTo(Head(requests), tag, body, more) \in Reply
    BY <1>6, HeadRequestType, AnswerType DEF ModuleAnswersWith, ModuleTag
  <2>3. QED
    BY <1>4, <1>6, <2>1, <2>2 DEF ModuleAnswersWith, AnswerTo
<1>7. CASE ModuleGarbles
  <2>1. [id |-> Head(requests).id, tag |-> "SB", body |-> FALSE, more |-> FALSE, bad |-> TRUE]
          \in Reply
    BY <1>7, HeadRequestType DEF ModuleGarbles, Reply, ModuleTag
  <2>2. QED
    BY <1>4, <1>7, <2>1 DEF ModuleGarbles
<1>8. CASE ModuleLoses
  <2>1. /\ Len(requests') = Len(requests) - 1 /\ replies' = replies /\ UNCHANGED hostVars
        /\ \A i \in 1..Len(requests') : requests'[i] = requests[i + 1]
    BY <1>0, <1>8, HeadTailProperties DEF ModuleLoses
  <2> DEFINE old(i) == IF i <= Len(replies) THEN i ELSE i + 1
  <2>2. /\ Outstanding' = Outstanding - 1
        /\ \A i \in 1..Outstanding' : old(i) \in 1..Outstanding /\ LinkIds'[i] = LinkIds[old(i)]
    <3>1. Outstanding' = Outstanding - 1 /\ Len(replies') = Len(replies)
      BY <1>0, <2>1 DEF Outstanding
    <3>2. ASSUME NEW i \in 1..Outstanding' PROVE old(i) \in 1..Outstanding
      BY <1>0, <3>1
    <3>3. ASSUME NEW i \in 1..Outstanding', i <= Len(replies) PROVE LinkIds'[i] = LinkIds[old(i)]
      BY <1>0, <2>1, <3>1, <3>2, <3>3 DEF LinkIds
    <3>4. ASSUME NEW i \in 1..Outstanding', i > Len(replies) PROVE LinkIds'[i] = LinkIds[old(i)]
      <4>1. i - Len(replies) \in 1..Len(requests')
        BY <1>0, <2>1, <3>1, <3>4 DEF Outstanding
      <4>2. requests'[i - Len(replies)] = requests[i - Len(replies) + 1]
        BY <2>1, <4>1
      <4>3. LinkIds'[i] = requests'[i - Len(replies)].id
        BY <1>0, <2>1, <3>1, <3>4 DEF LinkIds
      <4>4. LinkIds[i + 1] = requests[i + 1 - Len(replies)].id
        BY <1>0, <3>1, <3>4 DEF LinkIds
      <4>5. i + 1 - Len(replies) = i - Len(replies) + 1 /\ old(i) = i + 1
        BY <1>0, <3>1, <3>4
      <4>6. QED
        BY <4>2, <4>3, <4>4, <4>5
    <3>5. QED
      BY <1>0, <3>1, <3>2, <3>3, <3>4
  <2>3. \A i, j \in 1..Outstanding' : old(i) = old(j) => i = j
    BY <1>0, <2>1, <2>2
  <2> HIDE DEF old
  <2>4. QED
    BY <2>1, <2>2, <2>3
<1>9. CASE UNCHANGED vars
  BY <1>9 DEF vars, Outstanding, LinkIds
<1>10. ~Read /\ ~EndWalk /\ ~Device /\ \A c \in Ids : ~WalkWriteFails(c)
  <2>1. ~Read
    BY DEF Read, ReadTimeout, ReadRefused, ReadCreateReply, ReadDeleteReply, ReadData, ReadStatus,
           Accepted, ReadLoop
  <2>2. ~EndWalk /\ \A c \in Ids : ~WalkWriteFails(c)
    BY DEF EndWalk, WalkWriteFails
  <2>3. ~Device
    BY DEF Device, DeviceOpen, CreateConnection, DeviceOpened, DeviceClose, DevicePoll,
           DeviceSetPmt, CaPmtSent, SendCaPmt, ResetState, EnterReadAll
  <2>4. QED
    BY <2>1, <2>2, <2>3
<1>11. QED
  BY <1>1, <1>2, <1>3, <1>5, <1>6, <1>7, <1>8, <1>9, <1>10 DEF Next, ReadAll, Walk, Module

\* Every connection is polled or asked for data only when the module owes no answer, for
\* any number of connections and any faults.
THEOREM HalfDuplexCorrect == Spec => []HalfDuplex
<1>1. Init => HalfDuplex
  BY DEF Init, HalfDuplex
<1>2. QED
  BY <1>1, HalfDuplexStep, TypeCorrect, CreditCorrect, PTL DEF Spec

=============================================================================
