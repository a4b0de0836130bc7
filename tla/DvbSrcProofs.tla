---------------------------- MODULE DvbSrcProofs ----------------------------
(***************************************************************************)
(* Proofs about DvbSrc, for any callers, descriptors, requests and         *)
(* adapters: no filter or device is forgotten, but for the dvr of a start  *)
(* that failed (NothingLeft), the PIDs asked for last get through          *)
(* (Requested), and the guessed system fits (GuessFits).                   *)
(*                                                                         *)
(* The invariant follows one call through its loops: which label belongs   *)
(* to which call, what the slots behind and ahead of the loop hold, and    *)
(* that a slot whose descriptor is closed but not yet overwritten is the   *)
(* one the loop is at.  All of it holds until calls overlap (raced).       *)
(***************************************************************************)
EXTENDS DvbSrc, FiniteSetTheorems, WellFoundedInduction, TLAPS

Ops == {"none", "pause", "stop", "pids", "tune", "start"}

Ats == {"idle", "flush", "close", "set", "tune", "unset", "tuning", "dvr", "undo"}

Calls == [op : Ops, at : Ats, slot : Nat \ {0}, shut : BOOLEAN]

Types ==
  /\ state \in {"null", "ready", "paused", "playing"}
  /\ call \in [Callers -> Calls]
  /\ pids \in Seq(Nat) /\ Len(pids) <= MaxFilters
  /\ fd_filters \in [Slots -> Handles \cup {None}]
  /\ kernel \in [Handles -> Nat \cup {Free, Unbound}]
  /\ tuned \in BOOLEAN /\ raced \in BOOLEAN

Unsetting == {"unset", "undo", "close"}

\* A call is at a label of its own, and between a close and the assignment only in a loop.
Placed(k) ==
  /\ k.op = "none" => k.at = "idle"
  /\ k.op = "pause" => k.at = "flush"
  /\ k.op = "stop" => k.at = "close"
  /\ k.op = "pids" => k.at = "set"
  /\ k.op = "tune" => k.at \in {"tune", "unset", "tuning", "set"}
  /\ k.op = "start" => k.at \in {"tune", "unset", "tuning", "set", "dvr", "undo"}
  /\ k.shut => k.at \in Unsetting \cup {"set"} /\ k.slot \in Slots

Calling ==
  \A c \in Callers :
    /\ Placed(call[c])
    /\ call[c].op \in {"start", "stop", "pause"} => c = Changer

Busy(c) == call[c].op \in FilterCalls

OneCall == \A c, d \in Callers : Busy(c) /\ Busy(d) => c = d

Phases ==
  \A c \in Callers :
    /\ call[c].op \in {"tune", "pids", "stop"} => Above(state)
    /\ call[c].op = "start" => state = "ready"

\* Slot i names a descriptor that is closed already.
Stale(i) == \E c \in Callers : call[c].shut /\ call[c].slot = i

OneSlotEach == \A i, j \in Slots : fd_filters[i] = fd_filters[j] /\ i # j => fd_filters[i] = None

OpenUnlessStale == \A i \in Slots : fd_filters[i] # None => (kernel[fd_filters[i]] = Free <=> Stale(i))

OpenIsNamed == \A h \in Handles : kernel[h] # Free => \E i \in Slots : fd_filters[i] = h

LoopsAreBehind ==
  \A c \in Callers :
    /\ call[c].at \in Unsetting => \A i \in Slots : i < call[c].slot => fd_filters[i] = None
    /\ call[c].at = "set" /\ call[c].shut => call[c].slot <= Len(pids)

AtRest == ~Above(state) /\ Quiet

RestIsEmpty == AtRest => ~tuned /\ \A i \in Slots : fd_filters[i] = None

\* No loop has slot i still before it.
Claimed(i) == \A c \in Callers : call[c].at \notin Unsetting /\ (call[c].at = "set" => i < call[c].slot)

NotYetTuned ==
  \A c \in Callers : call[c].at = "tuning" \/ (call[c].at = "tune" /\ call[c].op = "start") => ~tuned

Through(i) == fd_filters[i] # None /\ kernel[fd_filters[i]] = pids[i]

ClaimedGetThrough == tuned => \A i \in 1 .. Len(pids) : Claimed(i) /\ i \notin refused => Through(i)

Filters == OneSlotEach /\ OpenUnlessStale /\ OpenIsNamed /\ LoopsAreBehind

Tuned == RestIsEmpty /\ NotYetTuned /\ ClaimedGetThrough

Safe == ~raced => OneCall /\ Phases /\ Filters /\ Tuned

SrcInv == Types /\ Calling /\ Safe
-----------------------------------------------------------------------------
(* The least of a set of numbers, and of the free descriptors. *)

LEMMA LeastExists ==
  ASSUME NEW S \in SUBSET Nat, S # {}
  PROVE  Min(S) \in S /\ \A n \in S : Min(S) <= n
<1>1. PICK m \in S : \A n \in S : ~ (<<n, m>> \in OpToRel(<, Nat))
  BY NatLessThanWellFounded, WFMin
<1>2. ASSUME NEW n \in S PROVE m <= n
  <2>1. <<n, m>> \in Nat \X Nat /\ <<n, m>>[1] = n /\ <<n, m>>[2] = m
    OBVIOUS
  <2>2. n < m => <<n, m>> \in OpToRel(<, Nat)
    BY <2>1 DEF OpToRel
  <2>3. <<n, m>> \notin OpToRel(<, Nat)
    BY <1>1, Zenon
  <2>4. ~ (n < m)
    BY <2>2, <2>3, Zenon
  <2>5. n \in Nat /\ m \in Nat
    OBVIOUS
  <2> QED BY <2>4, <2>5
<1> QED BY <1>2 DEF Min

LEMMA GreatestExists ==
  ASSUME NEW N \in Nat, NEW S \in SUBSET (1 .. N), S # {}
  PROVE  Max(S) \in S
<1> DEFINE T == {n \in Nat : N - n \in S}
<1>1. PICK s \in S : TRUE
  OBVIOUS
<1>2. N - s \in T
  <2>1. N - s \in Nat /\ N - (N - s) = s
    OBVIOUS
  <2> QED BY <2>1
<1>3. Min(T) \in T /\ \A n \in T : Min(T) <= n
  <2> HIDE DEF T
  <2>1. T \in SUBSET Nat /\ T # {}
    BY <1>2 DEF T
  <2> QED BY <2>1, LeastExists
<1>4. \A n \in S : N - Min(T) >= n
  <2> TAKE n \in S
  <2>1. N - n \in T
    <3>1. N - n \in Nat /\ N - (N - n) = n
      OBVIOUS
    <3> QED BY <3>1
  <2>2. Min(T) <= N - n /\ Min(T) \in Nat
    BY <1>3, <2>1
  <2> HIDE DEF T
  <2> QED BY <2>2
<1>5. N - Min(T) \in S
  BY <1>3
<1> QED BY <1>4, <1>5 DEF Max

LEMMA ParsedFits ==
  ASSUME NEW request \in Requests
  PROVE  Parsed(request) \in Seq(Nat) /\ Len(Parsed(request)) <= MaxFilters
<1> DEFINE all == Always \o ValidPids(request)
           n == Min({MaxFilters, Len(all)})
<1>1. WholeTS \in Seq(Nat) /\ Len(WholeTS) = 1 /\ MaxFilters \in Nat \ {0}
  BY DvbSrcAssumption DEF WholeTS
<1>2. all \in Seq(Nat)
  BY DvbSrcAssumption, RequestsAssumption
<1> HIDE DEF all
<1>3. Len(all) \in Nat /\ {MaxFilters, Len(all)} \in SUBSET Nat
  BY <1>1, <1>2
<1>4. n \in {MaxFilters, Len(all)} /\ n <= MaxFilters /\ n <= Len(all)
  BY <1>3, LeastExists
<1>5. SubSeq(all, 1, n) \in Seq(Nat) /\ Len(SubSeq(all, 1, n)) = n
  <2> HIDE DEF n
  <2>0. n \in Nat
    BY <1>1, <1>3, <1>4
  <2>1. n \in Nat /\ 1 .. n \subseteq 1 .. Len(all)
    BY <2>0, <1>3, <1>4
  <2>2. \A i \in 1 .. n : all[i] \in Nat
    BY <1>2, <2>1
  <2> QED BY <2>1, <2>2, <1>2
<1>6. Parsed(request) = IF request = WholeTS THEN WholeTS ELSE SubSeq(all, 1, n)
  BY DEF Parsed, all
<1> HIDE DEF n
<1>7. CASE request = WholeTS
  <2>1. Parsed(request) = WholeTS
    BY <1>6, <1>7, Zenon
  <2>2. 1 <= MaxFilters
    BY <1>1
  <2> QED BY <1>1, <2>1, <2>2
<1>8. CASE request # WholeTS
  <2>1. Parsed(request) = SubSeq(all, 1, n)
    BY <1>6, <1>8
  <2> QED BY <1>5, <2>1, <1>4
<1> QED BY <1>7, <1>8

LEMMA FreeIsFree ==
  ASSUME kernel \in [Handles -> Nat \cup {Free, Unbound}], FreeHandles # {}
  PROVE  Min(FreeHandles) \in Handles /\ kernel[Min(FreeHandles)] = Free
<1>1. FreeHandles \in SUBSET Nat
  BY DvbSrcAssumption DEF FreeHandles
<1>2. Min(FreeHandles) \in FreeHandles
  BY <1>1, LeastExists
<1> QED BY <1>2 DEF FreeHandles
-----------------------------------------------------------------------------
(* Where the calls are *)

LEMMA OneMoves ==
  ASSUME call \in [Callers -> Calls], Calling,
         NEW c \in Callers, NEW k \in Calls, Placed(k),
         k.op \in {"start", "stop", "pause"} => c = Changer,
         call' = [call EXCEPT ![c] = k]
  PROVE  call' \in [Callers -> Calls] /\ Calling'
<1>1. \A d \in Callers : call'[d] = IF d = c THEN k ELSE call[d]
  OBVIOUS
<1> QED BY <1>1 DEF Calling, Placed

LEMMA IdlePlaced == Idle \in Calls /\ Placed(Idle) /\ Idle.op = "none"
BY DEF Idle, Calls, Ops, Ats, Placed, Unsetting

LEMMA GoingFields ==
  ASSUME NEW r \in Calls, NEW a \in Ats
  PROVE  LET k == [r EXCEPT !.at = a, !.slot = 1, !.shut = FALSE]
         IN k \in Calls /\ k.op = r.op /\ k.at = a /\ k.slot = 1 /\ ~k.shut
<1>1. \A n \in Nat \ {0}, b \in BOOLEAN : [r EXCEPT !.at = a, !.slot = n, !.shut = b] \in Calls
  BY DEF Calls
<1>2. 1 \in Nat \ {0} /\ FALSE \in BOOLEAN
  OBVIOUS
<1>3. [r EXCEPT !.at = a, !.slot = 1, !.shut = FALSE] \in Calls
  BY <1>1, <1>2
<1> QED BY <1>3 DEF Calls

LEMMA BegunFields ==
  ASSUME NEW o \in Ops, NEW a \in Ats
  PROVE  LET k == [Idle EXCEPT !.op = o, !.at = a]
         IN k \in Calls /\ k.op = o /\ k.at = a /\ k.slot = 1 /\ ~k.shut
<1>1. \A r \in Calls : [r EXCEPT !.op = o, !.at = a] \in Calls
  BY DEF Calls
<1>2. [Idle EXCEPT !.op = o, !.at = a] \in Calls
  BY <1>1, IdlePlaced
<1> QED BY <1>2 DEF Idle

LEMMA Beginnings ==
  ASSUME NEW op \in Ops, NEW at \in Ats,
         <<op, at>> \in {<<"start", "tune">>, <<"pause", "flush">>, <<"stop", "close">>, <<"tune", "tune">>,
                         <<"pids", "set">>}
  PROVE  LET k == [Idle EXCEPT !.op = op, !.at = at]
         IN k \in Calls /\ Placed(k) /\ k.op = op /\ k.at = at /\ k.slot = 1 /\ ~k.shut
<1> DEFINE k == [Idle EXCEPT !.op = op, !.at = at]
<1>2. k \in Calls /\ k.op = op /\ k.at = at /\ k.slot = 1 /\ ~k.shut
  BY BegunFields
<1> HIDE DEF k
<1>3. \/ op = "start" /\ at = "tune"
      \/ op = "pause" /\ at = "flush"
      \/ op = "stop" /\ at = "close"
      \/ op = "tune" /\ at = "tune"
      \/ op = "pids" /\ at = "set"
  OBVIOUS
<1>4. Placed(k)
  BY <1>2, <1>3 DEF Placed
<1> QED BY <1>2, <1>4 DEF k

LEMMA Going ==
  ASSUME call \in [Callers -> Calls], NEW c \in Callers, NEW at \in Ats,
         call[c].op = "tune" => at \in {"unset", "tuning", "set"},
         call[c].op = "start" => at \in {"unset", "tuning", "set", "dvr", "undo"},
         call[c].op \in {"start", "tune"}
  PROVE  /\ Goto(c, at) \in Calls /\ Placed(Goto(c, at))
         /\ Goto(c, at).op = call[c].op /\ Goto(c, at).at = at /\ Goto(c, at).slot = 1 /\ ~Goto(c, at).shut
<1>1. call[c] \in Calls
  OBVIOUS
<1> DEFINE k == Goto(c, at)
<1>3. k \in Calls /\ k.op = call[c].op /\ k.at = at /\ k.slot = 1 /\ ~k.shut
  BY <1>1, GoingFields DEF Goto
<1> HIDE DEF k
<1>4. Placed(k)
  BY <1>3 DEF Placed
<1> QED BY <1>3, <1>4 DEF k

LEMMA Begins ==
  ASSUME call \in [Callers -> Calls], Calling, NEW c \in Callers,
         NEW op \in Ops, NEW at \in Ats,
         <<op, at>> \in {<<"start", "tune">>, <<"pause", "flush">>, <<"stop", "close">>, <<"tune", "tune">>,
                         <<"pids", "set">>},
         op \in {"start", "stop", "pause"} => c = Changer,
         call' = [call EXCEPT ![c] = [Idle EXCEPT !.op = op, !.at = at]]
  PROVE  call' \in [Callers -> Calls] /\ Calling'
<1> DEFINE k == [Idle EXCEPT !.op = op, !.at = at]
<1>1. k \in Calls /\ Placed(k) /\ k.op = op
  BY Beginnings
<1> HIDE DEF k
<1> QED BY <1>1, OneMoves DEF k

\* What a call that goes to a label, or returns, leaves of it.
Moved(c, k) == k \in Calls /\ Placed(k) /\ (k.op # "none" => k.op = call[c].op)

LEMMA MoverMoves ==
  ASSUME call \in [Callers -> Calls], Calling, NEW c \in Callers, NEW k, Moved(c, k),
         call' = [call EXCEPT ![c] = k]
  PROVE  call' \in [Callers -> Calls] /\ Calling'
<1>1. k.op \in {"start", "stop", "pause"} => c = Changer
  BY DEF Moved, Calling
<1> QED BY <1>1, OneMoves DEF Moved

LEMMA ReturnMoves == \A c \in Callers : Moved(c, Idle)
BY IdlePlaced DEF Moved

\* gst_dvbsrc_tune fails in a call that start or tune made.
Failed(c) == IF call[c].op = "start" THEN Goto(c, "undo") ELSE Idle

LEMMA FailureMoves ==
  ASSUME call \in [Callers -> Calls], NEW c \in Callers
  PROVE  Moved(c, Failed(c)) /\ (Fails(c) <=> call' = [call EXCEPT ![c] = Failed(c)])
<1>1. CASE call[c].op = "start"
  BY <1>1, Going DEF Moved, Failed, Fails, Ats
<1>2. CASE call[c].op # "start"
  BY <1>2, ReturnMoves DEF Failed, Fails
<1> QED BY <1>1, <1>2

\* A step of a loop, to a slot.
Stepped(c, n, b) == [call[c] EXCEPT !.slot = n, !.shut = b]

LEMMA StepMoves ==
  ASSUME call \in [Callers -> Calls], Calling, NEW c \in Callers,
         NEW n \in Nat \ {0}, NEW b \in BOOLEAN,
         call[c].at \in Unsetting \cup {"set"}, b => n \in Slots
  PROVE  /\ Moved(c, Stepped(c, n, b))
         /\ Stepped(c, n, b).op = call[c].op /\ Stepped(c, n, b).at = call[c].at
         /\ Stepped(c, n, b).slot = n /\ (Stepped(c, n, b).shut <=> b)
<1>1. call[c] \in Calls /\ Placed(call[c])
  BY DEF Calling
<1>2. /\ Stepped(c, n, b) \in Calls
      /\ Stepped(c, n, b).op = call[c].op /\ Stepped(c, n, b).at = call[c].at
      /\ Stepped(c, n, b).slot = n /\ (Stepped(c, n, b).shut <=> b)
  BY <1>1 DEF Calls, Stepped
<1>3. Placed(Stepped(c, n, b))
  BY <1>1, <1>2 DEF Placed
<1> QED BY <1>2, <1>3 DEF Moved

\* The variables of the invariant other than the calls.
driverVars == <<state, pids, fd_filters, kernel, tuned, raced>>

LEMMA StillTyped ==
  ASSUME Types, Calling, UNCHANGED driverVars, call' \in [Callers -> Calls] /\ Calling'
  PROVE  Types' /\ Calling'
BY DEF Types, Slots, driverVars

LEMMA CallTypes ==
  ASSUME Types, Calling, NEW c \in Callers, Call(c)
  PROVE  Types' /\ Calling'
<1> USE DEF Types
<1>0. CASE UNCHANGED call
  <2>1. Calling'
    BY <1>0 DEF Calling
  <2>2. CASE NullToReady(c) \/ ReadyToNull(c) \/ Play(c)
    BY <1>0, <2>1, <2>2 DEF NullToReady, ReadyToNull, Play, filterVars, Slots
  <2>3. CASE Start(c)
    BY <1>0, <2>1, <2>3, IdlePlaced DEF Start, Begin, filterVars, Slots
  <2>4. CASE \E request \in Requests : SetPids(c, request)
    BY <1>0, <2>1, <2>4, ParsedFits DEF SetPids, filterVars, Slots
  <2>5. CASE Unlock(c) \/ Stop(c) \/ Tune(c)
    BY <1>0, <2>1, <2>5 DEF Unlock, Stop, Tune, Begin, filterVars, Slots, FilterCalls
  <2> QED BY <2>2, <2>3, <2>4, <2>5 DEF Call
<1>1. ASSUME Start(c), Begin(c, "start", "tune") PROVE Types' /\ Calling'
  <2>1. call' \in [Callers -> Calls] /\ Calling'
    <3>1. call' = [call EXCEPT ![c] = [Idle EXCEPT !.op = "start", !.at = "tune"]] /\ c = Changer
      BY <1>1 DEF Start, Begin, CanChange
    <3>2. "start" \in Ops /\ "tune" \in Ats
      BY DEF Ops, Ats
    <3> QED BY <3>1, <3>2, Begins
  <2> QED BY <1>1, <2>1 DEF Start, Begin, filterVars, Slots, FilterCalls
<1>2. CASE Unlock(c)
  <2>1. call' \in [Callers -> Calls] /\ Calling'
    <3>1. call' = [call EXCEPT ![c] = [Idle EXCEPT !.op = "pause", !.at = "flush"]] /\ c = Changer
      BY <1>2 DEF Unlock, Begin, CanChange
    <3>2. "pause" \in Ops /\ "flush" \in Ats
      BY DEF Ops, Ats
    <3> QED BY <3>1, <3>2, Begins
  <2> QED BY <1>2, <2>1 DEF Unlock, Begin, filterVars, Slots, FilterCalls
<1>3. CASE Stop(c)
  <2>1. call' \in [Callers -> Calls] /\ Calling'
    <3>1. call' = [call EXCEPT ![c] = [Idle EXCEPT !.op = "stop", !.at = "close"]] /\ c = Changer
      BY <1>3 DEF Stop, Begin, CanChange
    <3>2. "stop" \in Ops /\ "close" \in Ats
      BY DEF Ops, Ats
    <3> QED BY <3>1, <3>2, Begins
  <2> QED BY <1>3, <2>1 DEF Stop, Begin, filterVars, Slots, FilterCalls
<1>4. CASE Tune(c)
  <2>1. call' \in [Callers -> Calls] /\ Calling'
    <3>1. call' = [call EXCEPT ![c] = [Idle EXCEPT !.op = "tune", !.at = "tune"]]
      BY <1>4 DEF Tune, Begin, CanChange
    <3>2. "tune" \in Ops /\ "tune" \in Ats /\ "tune" \notin {"start", "stop", "pause"}
      BY DEF Ops, Ats
    <3>3. <<"tune", "tune">> \in {<<"start", "tune">>, <<"pause", "flush">>, <<"stop", "close">>,
                                  <<"tune", "tune">>, <<"pids", "set">>}
      OBVIOUS
    <3> QED BY <3>1, <3>2, <3>3, Begins
  <2> QED BY <1>4, <2>1 DEF Tune, Begin, filterVars, Slots, FilterCalls
<1>5. ASSUME NEW request \in Requests, SetPids(c, request), Above(state) PROVE Types' /\ Calling'
  <2>1. call' \in [Callers -> Calls] /\ Calling'
    <3>1. call' = [call EXCEPT ![c] = [Idle EXCEPT !.op = "pids", !.at = "set"]]
      BY <1>5 DEF SetPids, CanChange
    <3>2. "pids" \in Ops /\ "set" \in Ats
      BY DEF Ops, Ats
    <3> QED BY <3>1, <3>2, Begins
  <2> QED BY <1>5, <2>1, ParsedFits DEF SetPids, filterVars, Slots
<1>6. ASSUME NEW request \in Requests, SetPids(c, request), ~Above(state) PROVE UNCHANGED call
  BY <1>6 DEF SetPids
<1>7. CASE NullToReady(c) \/ ReadyToNull(c) \/ Play(c)
  BY <1>0, <1>7 DEF NullToReady, ReadyToNull, Play
<1>8. CASE Start(c)
  BY <1>0, <1>1, <1>8 DEF Start
<1> QED BY <1>0, <1>2, <1>3, <1>4, <1>5, <1>6, <1>7, <1>8 DEF Call

LEMMA ProceedTypes ==
  ASSUME Types, Calling, NEW c \in Callers, Proceed(c) \/ TakesFrontend(c)
  PROVE  Types' /\ Calling'
<1> USE DEF Types
<1>0. call[c] \in Calls /\ Placed(call[c]) /\ Slots \subseteq Nat \ {0}
  BY DvbSrcAssumption DEF Calling, Slots
<1>a. ASSUME NEW k, Moved(c, k), call' = [call EXCEPT ![c] = k]
      PROVE  call' \in [Callers -> Calls] /\ Calling'
  BY <1>a, MoverMoves
<1>1. CASE OpenDvr(c)
  <2>1. call[c].op = "start"
    BY <1>0, <1>1 DEF OpenDvr, Placed, Calls, Ops
  <2>2. Moved(c, Idle) /\ Moved(c, Goto(c, "undo"))
    BY <2>1, ReturnMoves, Going DEF Moved, Ats
  <2>3. call' \in [Callers -> Calls] /\ Calling'
    BY <1>1, <1>a, <2>2 DEF OpenDvr, Return
  <2> QED BY <1>1, <2>3 DEF OpenDvr, filterVars, Slots
<1>2. CASE UnlockStop(c)
  <2>3. call' \in [Callers -> Calls] /\ Calling'
    BY <1>2, <1>a, ReturnMoves DEF UnlockStop, Return
  <2> QED BY <1>2, <2>3 DEF UnlockStop, filterVars, Slots
<1>3. CASE Check(c)
  <2>1. call[c].op \in {"start", "tune"}
    BY <1>0, <1>3 DEF Check, Placed, Calls, Ops
  <2>2. Moved(c, Goto(c, "unset")) /\ Moved(c, Failed(c))
    BY <2>1, FailureMoves, Going DEF Moved, Ats
  <2>3. call' \in [Callers -> Calls] /\ Calling'
    BY <1>3, <1>a, <2>2, FailureMoves DEF Check
  <2> QED BY <1>3, <2>3, StillTyped DEF Check, driverVars, filterVars
<1>4. CASE Unset(c)
  <2>1. CASE fd_filters[call[c].slot] # None /\ ~call[c].shut
    <3>1. Moved(c, Stepped(c, call[c].slot, TRUE))
      <4>1. call[c].at \in Unsetting \cup {"set"} /\ call[c].slot \in Slots
        BY <1>4 DEF Unset, Unsetting, UnsetSlots
      <4>2. call[c].slot \in Nat \ {0} /\ TRUE \in BOOLEAN
        BY <1>0, <4>1
      <4> QED BY <4>1, <4>2, StepMoves
    <3>2. [call EXCEPT ![c].shut = TRUE] = [call EXCEPT ![c] = Stepped(c, call[c].slot, TRUE)]
      BY <1>0 DEF Calls, Stepped
    <3>3. call' \in [Callers -> Calls] /\ Calling'
      BY <1>4, <1>a, <2>1, <3>1, <3>2 DEF Unset
    <3> QED BY <1>4, <2>1, <3>3 DEF Unset, Closed, Slots, UnsetSlots
  <2>2. CASE ~(fd_filters[call[c].slot] # None /\ ~call[c].shut)
    <3>1. Moved(c, Stepped(c, call[c].slot + 1, FALSE))
      <4>1. call[c].at \in Unsetting \cup {"set"} /\ call[c].slot \in Slots
        BY <1>4 DEF Unset, Unsetting, UnsetSlots
      <4>2. call[c].slot \in Nat \ {0}
        BY <1>0, <4>1
      <4>3. call[c].slot + 1 \in Nat \ {0}
        BY <4>2
      <4> QED BY <4>1, <4>3, StepMoves
    <3>3. call' \in [Callers -> Calls] /\ Calling'
      BY <1>4, <1>a, <2>2, <3>1 DEF Unset, Stepped
    <3> QED BY <1>4, <2>2, <3>3 DEF Unset, Slots, UnsetSlots
  <2> QED BY <2>1, <2>2
<1>5. CASE HasLock(c)
  <2>1. call[c].op \in {"start", "tune"}
    BY <1>0, <1>5 DEF HasLock, Placed, Calls, Ops
  <2>2. Moved(c, Goto(c, "set"))
    BY <2>1, Going DEF Moved, Ats
  <2>3. call' \in [Callers -> Calls] /\ Calling'
    BY <1>5, <1>a, <2>2 DEF HasLock
  <2> QED BY <1>5, <2>3 DEF HasLock, filterVars, Slots
<1>6. CASE NoLock(c)
  <2>3. call' \in [Callers -> Calls] /\ Calling'
    BY <1>6, <1>a, FailureMoves DEF NoLock
  <2> QED BY <1>6, <2>3, StillTyped DEF NoLock, driverVars, filterVars
<1>7. CASE CloseFilter(c)
  <2>1. call[c].slot \in Slots
    BY <1>0, <1>7, DvbSrcAssumption DEF CloseFilter, Slots, Calls
  <2>2. Moved(c, Stepped(c, call[c].slot, TRUE))
    BY <1>0, <1>7, <2>1, StepMoves DEF CloseFilter, Calls
  <2>3. [call EXCEPT ![c].shut = TRUE] = [call EXCEPT ![c] = Stepped(c, call[c].slot, TRUE)]
    BY <1>0 DEF Calls, Stepped
  <2>4. call' \in [Callers -> Calls] /\ Calling'
    BY <1>7, <1>a, <2>2, <2>3 DEF CloseFilter
  <2> QED BY <1>7, <2>1, <2>4 DEF CloseFilter, Closed, Slots
<1>8. CASE OpenFilter(c)
  <2>1. call[c].slot \in Slots /\ call[c].slot \in 1 .. Len(pids)
    BY <1>0, <1>8, DvbSrcAssumption DEF OpenFilter, Slots, Calls
  <2>2. Moved(c, Stepped(c, call[c].slot + 1, FALSE))
    <3>1. call[c].at \in Unsetting \cup {"set"} /\ call[c].slot \in Slots
      BY <1>8, <2>1 DEF OpenFilter, Unsetting, UnsetSlots
    <3>2. call[c].slot \in Nat \ {0}
      BY <1>0, <3>1
    <3>3. call[c].slot + 1 \in Nat \ {0}
      BY <3>2
    <3> QED BY <3>1, <3>3, StepMoves
  <2>4. call' \in [Callers -> Calls] /\ Calling'
    BY <1>8, <1>a, <2>2 DEF OpenFilter, Stepped
  <2>5. PICK h \in Handles : /\ fd_filters' = [fd_filters EXCEPT ![call[c].slot] = h]
                             /\ \E n \in {pids[call[c].slot], Unbound} : kernel' = [kernel EXCEPT ![h] = n]
    BY <1>8, FreeIsFree DEF OpenFilter
  <2> QED BY <1>8, <2>1, <2>4, <2>5 DEF OpenFilter, Slots
<1>9. CASE RefuseFilter(c)
  <2>1. call[c].slot \in Slots
    BY <1>0, <1>9, DvbSrcAssumption DEF RefuseFilter, Slots, Calls
  <2>2. Moved(c, Stepped(c, call[c].slot + 1, FALSE))
    <3>1. call[c].at \in Unsetting \cup {"set"} /\ call[c].slot \in Slots
      BY <1>9, <2>1 DEF RefuseFilter, Unsetting, UnsetSlots
    <3>2. call[c].slot \in Nat \ {0}
      BY <1>0, <3>1
    <3>3. call[c].slot + 1 \in Nat \ {0}
      BY <3>2
    <3> QED BY <3>1, <3>3, StepMoves
  <2>4. call' \in [Callers -> Calls] /\ Calling'
    BY <1>9, <1>a, <2>2 DEF RefuseFilter, NextFilter, Stepped
  <2> QED BY <1>9, <2>1, <2>4 DEF RefuseFilter, Slots
<1>10. CASE AllSet(c)
  <2>2. Moved(c, IF call[c].op = "start" THEN Goto(c, "dvr") ELSE Idle)
    <3>1. CASE call[c].op = "start"
      BY <3>1, Going DEF Moved, Ats
    <3>2. CASE call[c].op # "start"
      BY <3>2, ReturnMoves
    <3> QED BY <3>1, <3>2
  <2>3. call' \in [Callers -> Calls] /\ Calling'
    BY <1>10, <1>a, <2>2 DEF AllSet
  <2> QED BY <1>10, <2>3, StillTyped DEF AllSet, driverVars, filterVars
<1>11. CASE Undone(c)
  <2>3. call' \in [Callers -> Calls] /\ Calling'
    BY <1>11, <1>a, ReturnMoves DEF Undone, Return
  <2> QED BY <1>11, <2>3 DEF Undone, filterVars, Slots
<1>12. CASE Stopped(c)
  <2>3. call' \in [Callers -> Calls] /\ Calling'
    BY <1>12, <1>a, ReturnMoves DEF Stopped, Return
  <2> QED BY <1>12, <2>3 DEF Stopped, filterVars, Slots
<1>13. CASE TakesFrontend(c)
  <2>0. PICK s \in Channels : SetFrontend(c, s)
    BY <1>13 DEF TakesFrontend
  <2>1. call[c].op \in {"start", "tune"} \/ Fails(c)
    BY <1>0, <2>0 DEF SetFrontend, Placed, Calls, Ops
  <2>2. call[c].op \in {"start", "tune"} => Moved(c, Goto(c, "tuning"))
    BY <2>1, Going DEF Moved, Ats
  <2>3. Moved(c, Failed(c)) /\ (Fails(c) <=> call' = [call EXCEPT ![c] = Failed(c)])
    BY FailureMoves
  <2>4. call' \in [Callers -> Calls] /\ Calling'
    <3>1. CASE Fails(c)
      BY <1>a, <2>3, <3>1
    <3>2. CASE call' = [call EXCEPT ![c] = Goto(c, "tuning")] /\ call[c].op \in {"start", "tune"}
      BY <1>a, <2>2, <3>2
    <3> QED BY <2>0, <2>1, <3>1, <3>2 DEF SetFrontend
  <2> QED BY <2>0, <2>4 DEF SetFrontend, filterVars, Slots
<1> QED BY <1>1, <1>2, <1>3, <1>4, <1>5, <1>6, <1>7, <1>8, <1>9, <1>10, <1>11, <1>12, <1>13 DEF Proceed, Answer
-----------------------------------------------------------------------------
(* One call among callers that wait *)

LEMMA WaitingIsIdle ==
  ASSUME call \in [Callers -> Calls], Calling, NEW d \in Callers, ~Busy(d)
  PROVE  call[d].at \in {"idle", "flush"} /\ ~call[d].shut /\ call[d].op \in {"none", "pause"}
<1>1. call[d] \in Calls /\ Placed(call[d])
  BY DEF Calling
<1>2. call[d].op \in {"none", "pause"}
  BY <1>1 DEF Calls, Ops, Busy, FilterCalls
<1>3. call[d].at \in {"idle", "flush"}
  BY <1>1, <1>2 DEF Placed
<1>4. ~call[d].shut
  BY <1>1, <1>3 DEF Placed, Unsetting
<1> QED BY <1>2, <1>3, <1>4

LEMMA BusyIsCalled ==
  ASSUME call \in [Callers -> Calls], Calling, NEW c \in Callers, call[c].at \notin {"idle", "flush"}
  PROVE  Busy(c)
BY WaitingIsIdle

\* What the invariant says of a call that moves, when all others wait.
Alone(c, k) ==
  /\ \A d \in Callers : d # c => /\ call[d].at \in {"idle", "flush"} /\ ~call[d].shut
                                 /\ call[d].op \in {"none", "pause"}
  /\ Busy(c) /\ ~Quiet
  /\ \A i \in Nat : Stale(i) <=> (call[c].shut /\ call[c].slot = i)
  /\ \A i \in Nat : Claimed(i) <=> (call[c].at \notin Unsetting /\ (call[c].at = "set" => i < call[c].slot))
  /\ \A i \in Nat : Stale(i)' <=> (k.shut /\ k.slot = i)
  /\ \A i \in Nat : Claimed(i)' <=> (k.at \notin Unsetting /\ (k.at = "set" => i < k.slot))
  /\ Quiet' <=> k.op = "none"
  /\ OneCall'
  /\ \A d \in Callers : call'[d] = IF d = c THEN k ELSE call[d]

LEMMA AloneMoves ==
  ASSUME call \in [Callers -> Calls], Calling, OneCall, NEW c \in Callers, Busy(c),
         NEW k, Moved(c, k), call' = [call EXCEPT ![c] = k]
  PROVE  Alone(c, k)
<1>1. \A d \in Callers : d # c => /\ call[d].at \in {"idle", "flush"} /\ ~call[d].shut
                                  /\ call[d].op \in {"none", "pause"}
  <2> TAKE d \in Callers
  <2> HAVE d # c
  <2>1. ~Busy(d)
    BY DEF OneCall
  <2> QED BY <2>1, WaitingIsIdle
<1>2. \A d \in Callers : call'[d] = IF d = c THEN k ELSE call[d]
  OBVIOUS
<1>3. k.op = "none" \/ k.op \in FilterCalls
  BY DEF Moved, Busy
<1>4. \A i \in Nat : Stale(i) <=> (call[c].shut /\ call[c].slot = i)
  BY <1>1 DEF Stale
<1>5. \A i \in Nat : Stale(i)' <=> (k.shut /\ k.slot = i)
  BY <1>1, <1>2 DEF Stale
<1>6. \A i \in Nat : Claimed(i) <=> (call[c].at \notin Unsetting /\ (call[c].at = "set" => i < call[c].slot))
  BY <1>1 DEF Claimed, Unsetting
<1>7. \A i \in Nat : Claimed(i)' <=> (k.at \notin Unsetting /\ (k.at = "set" => i < k.slot))
  BY <1>1, <1>2 DEF Claimed, Unsetting
<1>8. Quiet' <=> k.op = "none"
  BY <1>1, <1>2, <1>3 DEF Quiet, FilterCalls
<1>9. OneCall'
  BY <1>1, <1>2 DEF OneCall, Busy, FilterCalls
<1>10. ~Quiet
  BY DEF Quiet, Busy
<1> QED BY <1>1, <1>2, <1>4, <1>5, <1>6, <1>7, <1>8, <1>9, <1>10 DEF Alone

\* The filters stay, and no loop is within a slot.
LEMMA FiltersStay ==
  ASSUME Types, Filters, NEW c \in Callers, NEW k, Moved(c, k), Alone(c, k),
         ~call[c].shut, ~k.shut, k.at \in Unsetting => k.slot = 1,
         UNCHANGED <<pids, fd_filters, kernel>>
  PROVE  Filters'
<1>1. Slots \subseteq Nat \ {0} /\ Slots' = Slots
  BY DEF Slots
<1>2. OneSlotEach'
  BY DEF Filters, OneSlotEach, Slots
<1>3. OpenUnlessStale'
  BY <1>1 DEF Filters, OpenUnlessStale, Alone
<1>4. OpenIsNamed'
  BY DEF Filters, OpenIsNamed, Slots
<1>5. LoopsAreBehind'
  <2> SUFFICES ASSUME NEW d \in Callers
               PROVE  /\ call'[d].at \in Unsetting => \A i \in Slots : i < call'[d].slot => fd_filters'[i] = None
                      /\ call'[d].at = "set" /\ call'[d].shut => call'[d].slot <= Len(pids')
    BY <1>1 DEF LoopsAreBehind
  <2>1. CASE d = c
    <3>1. call'[d] = k
      BY <2>1 DEF Alone
    <3>2. \A i \in Slots : ~(i < 1)
      BY <1>1
    <3> QED BY <3>1, <3>2
  <2>2. CASE d # c
    BY <2>2 DEF Alone, Unsetting
  <2> QED BY <2>1, <2>2
<1> QED BY <1>2, <1>3, <1>4, <1>5 DEF Filters

LEMMA SafeMoves ==
  ASSUME Types, Phases, NEW c \in Callers, NEW k, Moved(c, k), Alone(c, k), Filters',
         k.op = "none" \/ state' = state,
         k.op = "none" /\ ~Above(state') => ~tuned' /\ \A i \in Slots : fd_filters'[i] = None,
         k.at \in {"tuning", "tune"} => ~tuned',
         ClaimedGetThrough'
  PROVE  Safe'
<1>1. Phases'
  <2> SUFFICES ASSUME NEW d \in Callers
               PROVE  /\ call'[d].op \in {"tune", "pids", "stop"} => Above(state')
                      /\ call'[d].op = "start" => state' = "ready"
    BY DEF Phases, Above
  <2>1. CASE d = c
    BY <2>1 DEF Alone, Phases, Moved
  <2>2. CASE d # c
    BY <2>2 DEF Alone
  <2> QED BY <2>1, <2>2
<1>2. RestIsEmpty'
  BY DEF RestIsEmpty, AtRest, Alone, Above, Slots
<1>3. NotYetTuned'
  BY DEF NotYetTuned, Alone
<1>4. Tuned'
  BY <1>2, <1>3 DEF Tuned
<1>5. OneCall'
  BY DEF Alone
<1> QED BY <1>1, <1>4, <1>5 DEF Safe

\* The slots of a loop that is over.
LEMMA LoopIsOver ==
  ASSUME Types, Calling, LoopsAreBehind, NEW c \in Callers, AllUnset(c)
  PROVE  /\ ~call[c].shut
         /\ call[c].at \in Unsetting => \A i \in Slots : fd_filters[i] = None
<1>1. call[c] \in Calls /\ Placed(call[c]) /\ call[c].slot \notin Slots
  BY DEF Calling, AllUnset, UnsetSlots, Types
<1>2. ~call[c].shut
  BY <1>1 DEF Placed
<1>3. \A i \in Slots : i < call[c].slot
  BY <1>1, DvbSrcAssumption DEF Calls, Slots
<1> QED BY <1>2, <1>3 DEF LoopsAreBehind

\* The calls that do not change the filters.
LEMMA QuietCallIsSafe ==
  ASSUME SrcInv, NEW c \in Callers, Busy(c), ~raced, raced' = raced,
         UNCHANGED filterVars, UNCHANGED pids,
         OpenDvr(c) \/ Check(c) \/ HasLock(c) \/ NoLock(c) \/ AllSet(c) \/ Undone(c) \/ Stopped(c)
           \/ TakesFrontend(c)
  PROVE  Safe'
<1> USE DEF SrcInv
<1>0. /\ Types /\ Calling /\ OneCall /\ Phases /\ Filters /\ Tuned
      /\ call \in [Callers -> Calls] /\ call[c] \in Calls /\ Placed(call[c])
  BY DEF Safe, Types, Calling
<1>1. /\ OneSlotEach /\ OpenUnlessStale /\ OpenIsNamed /\ LoopsAreBehind
      /\ RestIsEmpty /\ NotYetTuned /\ ClaimedGetThrough
  BY <1>0 DEF Filters, Tuned
<1>2. ASSUME NEW k, Moved(c, k), call' = [call EXCEPT ![c] = k] PROVE Alone(c, k)
  BY <1>0, <1>2, AloneMoves
\* It is enough that tuned stays and the slots that are claimed were claimed before.
<1>3. ASSUME NEW k, Moved(c, k), Alone(c, k), ~call[c].shut, ~k.shut, k.at \in Unsetting => k.slot = 1,
             k.op = "none" \/ state' = state,
             k.op = "none" /\ ~Above(state') => ~tuned' /\ \A i \in Slots : fd_filters[i] = None,
             k.at \in {"tuning", "tune"} => ~tuned',
             tuned' => \/ k.at \in Unsetting \/ (k.at = "set" /\ k.slot = 1)
                       \/ tuned /\ \A i \in 1 .. Len(pids) : Claimed(i)
      PROVE  Safe'
  <2>1. Filters'
    BY <1>0, <1>3, FiltersStay DEF filterVars
  <2>2. ClaimedGetThrough'
    <3> SUFFICES ASSUME tuned', NEW i \in 1 .. Len(pids'), Claimed(i)', i \notin refused'
                 PROVE  Through(i)'
      BY DEF ClaimedGetThrough
    <3>1. i \in 1 .. Len(pids) /\ i \in Nat /\ ~(i < 1) /\ i \notin refused
      BY DEF filterVars
    <3>2. k.at \notin Unsetting /\ ~(k.at = "set" /\ k.slot = 1)
      BY <1>3, <3>1 DEF Alone
    <3>3. tuned /\ Claimed(i)
      BY <1>3, <3>1, <3>2
    <3>4. Through(i)
      BY <1>1, <3>1, <3>3 DEF ClaimedGetThrough
    <3> QED BY <3>4 DEF Through, filterVars
  <2>3. \A i \in Slots : fd_filters'[i] = fd_filters[i]
    BY DEF filterVars
  <2> QED BY <1>0, <1>3, <2>1, <2>2, <2>3, SafeMoves
\* Where a call goes that has not begun a loop.
<1>4. ~(call[c].at \in {"set"} \cup Unsetting) => ~call[c].shut
  BY <1>0 DEF Placed
<1>5. ASSUME Fails(c), call[c].op \in {"start", "tune"}, UNCHANGED state, ~call[c].shut,
             tuned' => tuned /\ call[c].at \notin Unsetting \cup {"set"}
      PROVE  Safe'
  <2>1. Moved(c, Failed(c)) /\ call' = [call EXCEPT ![c] = Failed(c)]
    BY <1>0, <1>5, FailureMoves
  <2>2. Alone(c, Failed(c))
    BY <1>2, <2>1
  <2>3. tuned' => tuned /\ \A i \in 1 .. Len(pids) : Claimed(i)
    BY <1>5, <2>2 DEF Alone
  <2>4. CASE call[c].op = "start"
    <3>1. /\ Failed(c).op = "start" /\ Failed(c).at = "undo" /\ Failed(c).slot = 1 /\ ~Failed(c).shut
      BY <1>0, <2>4, Going DEF Failed, Ats
    <3> QED BY <1>3, <1>5, <2>1, <2>2, <2>3, <3>1
  <2>5. CASE call[c].op = "tune"
    <3>1. Failed(c) = Idle /\ Idle.op = "none" /\ Idle.at = "idle" /\ ~Idle.shut
      BY <2>5 DEF Failed, Idle
    <3>2. Above(state')
      BY <1>0, <1>5, <2>5 DEF Phases, Above
    <3> QED BY <1>3, <1>5, <2>1, <2>2, <2>3, <3>1, <3>2 DEF Unsetting
  <2> QED BY <1>5, <2>4, <2>5
<1>6. ASSUME NEW at \in Ats, call[c].op \in {"start", "tune"}, call' = [call EXCEPT ![c] = Goto(c, at)],
             call[c].op = "tune" => at \in {"unset", "tuning", "set"},
             call[c].op = "start" => at \in {"unset", "tuning", "set", "dvr", "undo"},
             ~call[c].shut, UNCHANGED state,
             at = "tuning" => ~tuned',
             tuned' => at \in Unsetting \/ at = "set" \/ (tuned /\ \A i \in 1 .. Len(pids) : Claimed(i))
      PROVE  Safe'
  <2>1. /\ Goto(c, at) \in Calls /\ Placed(Goto(c, at))
        /\ Goto(c, at).op = call[c].op /\ Goto(c, at).at = at /\ Goto(c, at).slot = 1 /\ ~Goto(c, at).shut
    BY <1>0, <1>6, Going
  <2>2. Moved(c, Goto(c, at))
    BY <2>1 DEF Moved
  <2>3. Alone(c, Goto(c, at))
    BY <1>2, <1>6, <2>2
  <2> QED BY <1>3, <1>6, <2>1, <2>2, <2>3
<1>7. ASSUME Return(c), ~call[c].shut,
             ~Above(state') => ~tuned' /\ \A i \in Slots : fd_filters[i] = None,
             tuned' => tuned /\ \A i \in 1 .. Len(pids) : Claimed(i)
      PROVE  Safe'
  <2>1. Moved(c, Idle) /\ call' = [call EXCEPT ![c] = Idle]
    BY <1>7, ReturnMoves DEF Return
  <2>2. Alone(c, Idle)
    BY <1>2, <2>1
  <2>3. Idle.op = "none" /\ Idle.at = "idle" /\ ~Idle.shut
    BY DEF Idle
  <2> QED BY <1>3, <1>7, <2>1, <2>2, <2>3 DEF Unsetting
\* The slots that are claimed, by the label of the only call.
<1>8. call[c].at \in {"dvr", "tune"} \/ (call[c].at = "set" /\ call[c].slot > Len(pids))
        => \A i \in 1 .. Len(pids) : Claimed(i)
  <2>1. \A d \in Callers : d # c => call[d].at \in {"idle", "flush"}
    <3> TAKE d \in Callers
    <3> HAVE d # c
    <3>1. ~Busy(d)
      BY <1>0 DEF OneCall
    <3> QED BY <1>0, <3>1, WaitingIsIdle
  <2>2. call[c].slot \in Nat /\ Len(pids) \in Nat
    BY <1>0 DEF Types, Calls
  <2> QED BY <2>1, <2>2 DEF Claimed, Unsetting
<1>9. call[c].at \in {"tune", "unset", "tuning"} => call[c].op \in {"start", "tune"}
  BY <1>0 DEF Placed, Calls, Ops
<1>10. CASE OpenDvr(c)
  <2>1. call[c].op = "start" /\ call[c].at = "dvr" /\ ~call[c].shut
    BY <1>0, <1>10 DEF OpenDvr, Placed, Calls, Ops, Unsetting
  <2>2. CASE Return(c) /\ state' = "paused"
    BY <1>7, <1>8, <1>10, <2>1, <2>2 DEF OpenDvr, Above
  <2>3. CASE call' = [call EXCEPT ![c] = Goto(c, "undo")] /\ UNCHANGED state
    <3>1. "undo" \in Ats
      BY DEF Ats
    <3> QED BY <1>6, <2>1, <2>3, <3>1 DEF Unsetting
  <2> QED BY <1>10, <2>2, <2>3 DEF OpenDvr
<1>11. CASE Check(c)
  <2>1. call[c].op \in {"start", "tune"} /\ call[c].at = "tune" /\ ~call[c].shut /\ UNCHANGED <<state, tuned>>
    BY <1>4, <1>9, <1>11 DEF Check, Unsetting
  <2>2. CASE Fails(c)
    BY <1>5, <2>1, <2>2 DEF Unsetting
  <2>3. CASE call' = [call EXCEPT ![c] = Goto(c, "unset")]
    <3>1. "unset" \in Ats
      BY DEF Ats
    <3> QED BY <1>6, <2>1, <2>3, <3>1 DEF Unsetting
  <2> QED BY <1>11, <2>2, <2>3 DEF Check
<1>12. CASE HasLock(c)
  <2>1. call[c].op \in {"start", "tune"} /\ ~call[c].shut /\ UNCHANGED state
    BY <1>4, <1>9, <1>12 DEF HasLock, Unsetting
  <2>2. "set" \in Ats /\ call' = [call EXCEPT ![c] = Goto(c, "set")]
    BY <1>12 DEF HasLock, Ats
  <2> QED BY <1>6, <2>1, <2>2
<1>13. CASE NoLock(c)
  <2>1. call[c].op \in {"start", "tune"} /\ ~call[c].shut /\ UNCHANGED state
    BY <1>4, <1>9, <1>13 DEF NoLock, Unsetting
  <2>2. ~tuned'
    BY <1>1, <1>13 DEF NoLock, NotYetTuned
  <2> QED BY <1>5, <1>13, <2>1, <2>2 DEF NoLock
<1>14. CASE AllSet(c)
  <2>1. call[c].at = "set" /\ call[c].slot > Len(pids) /\ UNCHANGED <<state, tuned>>
    BY <1>14 DEF AllSet
  <2>2. ~call[c].shut
    BY <1>0, <1>1, <2>1 DEF LoopsAreBehind, Calls, Types
  <2>3. \A i \in 1 .. Len(pids) : Claimed(i)
    BY <1>8, <2>1
  <2>4. CASE call[c].op = "start"
    <3>1. "dvr" \in Ats /\ call' = [call EXCEPT ![c] = Goto(c, "dvr")]
      BY <1>14, <2>4 DEF AllSet, Ats
    <3> QED BY <1>6, <2>1, <2>2, <2>3, <2>4, <3>1
  <2>5. CASE call[c].op # "start"
    <3>1. call[c].op \in {"tune", "pids"}
      BY <1>0, <2>1, <2>5 DEF Placed, Calls, Ops
    <3>2. Above(state') /\ Return(c)
      BY <1>0, <1>14, <2>1, <2>5, <3>1 DEF Phases, Above, AllSet, Return
    <3> QED BY <1>7, <2>1, <2>2, <2>3, <3>2
  <2> QED BY <2>4, <2>5
<1>15. CASE Undone(c)
  <2>1. ~call[c].shut /\ \A i \in Slots : fd_filters[i] = None
    BY <1>0, <1>1, <1>15, LoopIsOver DEF Undone, Unsetting
  <2> QED BY <1>7, <1>15, <2>1 DEF Undone
<1>16. CASE Stopped(c)
  <2>1. ~call[c].shut /\ \A i \in Slots : fd_filters[i] = None
    BY <1>0, <1>1, <1>16, LoopIsOver DEF Stopped, Unsetting
  <2> QED BY <1>7, <1>16, <2>1 DEF Stopped
<1>17. CASE TakesFrontend(c)
  <2>1. PICK s \in Channels : SetFrontend(c, s)
    BY <1>17 DEF TakesFrontend
  <2>2. call[c].op \in {"start", "tune"} /\ ~call[c].shut /\ UNCHANGED state /\ ~tuned'
    BY <1>0, <1>1, <1>9, <2>1, LoopIsOver DEF SetFrontend
  <2>3. CASE Fails(c)
    BY <1>5, <2>2, <2>3
  <2>4. CASE call' = [call EXCEPT ![c] = Goto(c, "tuning")]
    <3>1. "tuning" \in Ats
      BY DEF Ats
    <3> QED BY <1>6, <2>2, <2>4, <3>1
  <2> QED BY <2>1, <2>3, <2>4 DEF SetFrontend
<1> QED BY <1>10, <1>11, <1>12, <1>13, <1>14, <1>15, <1>16, <1>17

\* A step of a loop, from slot i: the call and the state of the element stay as they are.
LoopStep(c, n, b) ==
  /\ call' = [call EXCEPT ![c] = Stepped(c, n, b)]
  /\ UNCHANGED <<state, pids, tuned>>
  /\ call[c].at \in Unsetting \cup {"set"}

LEMMA LoopStepIsSafe ==
  ASSUME SrcInv, NEW c \in Callers, Busy(c), ~raced,
         NEW n \in Nat \ {0}, NEW b \in BOOLEAN, b => n \in Slots,
         LoopStep(c, n, b)
  PROVE  \E k : /\ Alone(c, k) /\ k.at = call[c].at /\ k.slot = n /\ (k.shut <=> b)
                /\ Filters' /\ ClaimedGetThrough' => Safe'
<1> USE DEF SrcInv
<1>0. /\ Types /\ Calling /\ OneCall /\ Phases
      /\ call \in [Callers -> Calls] /\ call[c] \in Calls
  BY DEF Safe, Types
<1> DEFINE k == Stepped(c, n, b)
<1>1. Moved(c, k) /\ k.op = call[c].op /\ k.at = call[c].at /\ k.slot = n /\ (k.shut <=> b)
  <2>1. call[c].at \in Unsetting \cup {"set"}
    BY DEF LoopStep
  <2> QED BY <1>0, <2>1, StepMoves
<1>2. call' = [call EXCEPT ![c] = k] /\ state' = state /\ call[c].at \in Unsetting \cup {"set"}
  BY DEF LoopStep
<1> HIDE DEF k
<1>3. Alone(c, k)
  BY <1>0, <1>1, <1>2, AloneMoves
<1>4. k.op # "none" /\ k.at \notin {"tuning", "tune"}
  BY <1>1, <1>2 DEF Busy, FilterCalls, Unsetting
<1>5. Filters' /\ ClaimedGetThrough' => Safe'
  BY <1>0, <1>1, <1>2, <1>3, <1>4, SafeMoves
<1> QED BY <1>1, <1>3, <1>5

\* A slot before those of the loop, or after it.
LEMMA LoopsStayBehind ==
  ASSUME NEW c \in Callers, NEW k, Alone(c, k),
         k.at \in Unsetting => \A i \in Slots : i < k.slot => fd_filters'[i] = None,
         k.at = "set" /\ k.shut => k.slot <= Len(pids')
  PROVE  LoopsAreBehind'
<1> SUFFICES ASSUME NEW d \in Callers
             PROVE  /\ call'[d].at \in Unsetting => \A i \in Slots : i < call'[d].slot => fd_filters'[i] = None
                    /\ call'[d].at = "set" /\ call'[d].shut => call'[d].slot <= Len(pids')
  BY DEF LoopsAreBehind, Slots
<1>1. CASE d = c
  BY <1>1 DEF Alone
<1>2. CASE d # c
  BY <1>2 DEF Alone, Unsetting
<1> QED BY <1>1, <1>2

LEMMA UnsetIsSafe ==
  ASSUME SrcInv, NEW c \in Callers, Busy(c), ~raced, Unset(c)
  PROVE  Safe'
<1> USE DEF SrcInv
<1>0. /\ Types /\ Calling /\ Filters /\ call[c] \in Calls
      /\ OneSlotEach /\ OpenUnlessStale /\ OpenIsNamed /\ LoopsAreBehind
  BY DEF Safe, Types, Filters
<1> DEFINE i == call[c].slot
<1>1. i \in Slots /\ call[c].at \in Unsetting /\ Slots \subseteq Nat \ {0} /\ Slots' = Slots
  BY DEF Unset, UnsetSlots, Unsetting, Slots
<1>2. \A j \in Slots : j < i => fd_filters[j] = None
  BY <1>0, <1>1 DEF LoopsAreBehind
<1>3. CASE fd_filters[i] # None /\ ~call[c].shut
  <2>1. /\ kernel' = [kernel EXCEPT ![fd_filters[i]] = Free] /\ UNCHANGED fd_filters
        /\ call' = [call EXCEPT ![c].shut = TRUE]
    BY <1>3 DEF Unset, Closed
  <2>2. call' = [call EXCEPT ![c] = Stepped(c, i, TRUE)]
    BY <1>0, <2>1 DEF Calls, Stepped
  <2>3. LoopStep(c, i, TRUE)
    BY <1>1, <2>2 DEF LoopStep, Unset
  <2>4. PICK k : /\ Alone(c, k) /\ k.at = call[c].at /\ k.slot = i /\ k.shut
                 /\ Filters' /\ ClaimedGetThrough' => Safe'
    <3>1. i \in Nat \ {0} /\ TRUE \in BOOLEAN
      BY <1>1
    <3> HIDE DEF i
    <3> QED BY <1>1, <2>3, <3>1, LoopStepIsSafe
  <2>5. OneSlotEach'
    BY <1>0, <1>1, <2>1 DEF OneSlotEach
  <2>6. OpenUnlessStale'
    <3> SUFFICES ASSUME NEW j \in Slots, fd_filters[j] # None
                 PROVE  kernel'[fd_filters[j]] = Free <=> Stale(j)'
      BY <1>1, <2>1 DEF OpenUnlessStale
    <3>1. Stale(j)' <=> j = i
      BY <1>1, <2>4 DEF Alone
    <3>2. ~Stale(j)
      BY <1>1, <1>3, <2>4 DEF Alone
    <3>3. kernel[fd_filters[j]] # Free /\ fd_filters[j] \in Handles /\ fd_filters[i] \in Handles
      BY <1>0, <1>1, <1>3, <3>2 DEF OpenUnlessStale, Types
    <3>4. j # i => fd_filters[j] # fd_filters[i]
      BY <1>0, <1>1 DEF OneSlotEach
    <3> QED BY <1>0, <2>1, <3>1, <3>3, <3>4 DEF Types
  <2>7. OpenIsNamed'
    BY <1>0, <1>1, <1>3, <2>1 DEF OpenIsNamed, Types
  <2>8. LoopsAreBehind'
    BY <1>1, <1>2, <2>1, <2>4, LoopsStayBehind DEF Unsetting
  <2>9. ClaimedGetThrough'
    BY <1>1, <2>4, DvbSrcAssumption DEF ClaimedGetThrough, Alone
  <2> QED BY <2>4, <2>5, <2>6, <2>7, <2>8, <2>9 DEF Filters
<1>4. CASE ~(fd_filters[i] # None /\ ~call[c].shut)
  <2>1. /\ fd_filters' = [fd_filters EXCEPT ![i] = None] /\ UNCHANGED kernel
        /\ call' = [call EXCEPT ![c] = Stepped(c, i + 1, FALSE)]
    BY <1>4 DEF Unset, Stepped
  <2>3. LoopStep(c, i + 1, FALSE)
    BY <1>1, <2>1 DEF LoopStep, Unset
  <2>4. PICK k : /\ Alone(c, k) /\ k.at = call[c].at /\ k.slot = i + 1 /\ ~k.shut
                 /\ Filters' /\ ClaimedGetThrough' => Safe'
    <3>1. i \in Nat \ {0}
      BY <1>1
    <3>2. i + 1 \in Nat \ {0} /\ FALSE \in BOOLEAN
      BY <3>1
    <3> DEFINE n == i + 1
    <3> HIDE DEF n
    <3>3. n \in Nat \ {0} /\ LoopStep(c, n, FALSE)
      BY <2>3, <3>2 DEF n
    <3>4. \E k : /\ Alone(c, k) /\ k.at = call[c].at /\ k.slot = n /\ ~k.shut
                 /\ Filters' /\ ClaimedGetThrough' => Safe'
      BY <3>2, <3>3, LoopStepIsSafe
    <3> QED BY <3>4 DEF n
  <2>5. OneSlotEach'
    BY <1>0, <1>1, <2>1 DEF OneSlotEach, Types
  <2>6. OpenUnlessStale'
    <3> SUFFICES ASSUME NEW j \in Slots, fd_filters'[j] # None
                 PROVE  kernel'[fd_filters'[j]] = Free <=> Stale(j)'
      BY <1>1 DEF OpenUnlessStale
    <3>1. j # i /\ fd_filters'[j] = fd_filters[j]
      BY <1>0, <1>1, <2>1 DEF Types
    <3>2. ~Stale(j)' /\ ~Stale(j)
      BY <1>1, <2>4, <3>1 DEF Alone
    <3> QED BY <1>0, <2>1, <3>1, <3>2 DEF OpenUnlessStale
  <2>7. OpenIsNamed'
    <3> SUFFICES ASSUME NEW h \in Handles, kernel[h] # Free
                 PROVE  \E j \in Slots : fd_filters'[j] = h
      BY <1>1, <2>1 DEF OpenIsNamed
    <3>1. PICK j \in Slots : fd_filters[j] = h
      BY <1>0 DEF OpenIsNamed
    <3>2. j # i
      BY <1>0, <1>1, <1>4, <2>4, <3>1, DvbSrcAssumption DEF OpenUnlessStale, Alone
    <3>3. fd_filters'[j] = h
      BY <1>0, <2>1, <3>1, <3>2 DEF Types
    <3> QED BY <3>3
  <2>8. LoopsAreBehind'
    <3>1. ASSUME NEW j \in Slots, j < i + 1 PROVE fd_filters'[j] = None
      <4>1. fd_filters'[j] = IF j = i THEN None ELSE fd_filters[j]
        BY <1>0, <2>1 DEF Types
      <4>2. j < i \/ j = i
        <5>1. j \in Nat /\ i \in Nat
          BY <1>1
        <5> HIDE DEF i
        <5> QED BY <3>1, <5>1
      <4> QED BY <1>2, <4>1, <4>2
    <3> QED BY <1>1, <2>4, <3>1, LoopsStayBehind
  <2>9. ClaimedGetThrough'
    BY <1>1, <2>4, DvbSrcAssumption DEF ClaimedGetThrough, Alone
  <2> QED BY <2>4, <2>5, <2>6, <2>7, <2>8, <2>9 DEF Filters
<1> QED BY <1>3, <1>4

\* The loop of set_pes_filters is the only call, and at slot i.
AtSlot(c, i) == i = call[c].slot /\ call[c].at = "set" /\ i \in Slots /\ i \in 1 .. Len(pids)

LEMMA SettingIsInSlots ==
  ASSUME Types, NEW c \in Callers, call[c].at = "set", call[c].slot <= Len(pids)
  PROVE  AtSlot(c, call[c].slot)
<1>1. call[c].slot \in Nat \ {0}
  BY DEF Types, Calls
<1>2. Len(pids) \in Nat /\ Len(pids) <= MaxFilters /\ MaxFilters \in Nat
  BY DvbSrcAssumption DEF Types
<1> QED BY <1>1, <1>2 DEF AtSlot, Slots

LEMMA CloseIsSafe ==
  ASSUME SrcInv, NEW c \in Callers, Busy(c), ~raced, CloseFilter(c)
  PROVE  Safe'
<1> USE DEF SrcInv
<1>0. /\ Types /\ Calling /\ Filters /\ Tuned /\ call[c] \in Calls
      /\ OneSlotEach /\ OpenUnlessStale /\ OpenIsNamed /\ LoopsAreBehind /\ ClaimedGetThrough
  BY DEF Safe, Types, Filters, Tuned
<1> DEFINE i == call[c].slot
<1>1. AtSlot(c, i) /\ i \in Slots /\ i \in Nat \ {0} /\ i <= Len(pids) /\ Slots \subseteq Nat /\ Slots' = Slots
  BY <1>0, SettingIsInSlots DEF CloseFilter, AtSlot, Slots
<1>2. /\ kernel' = Closed(fd_filters[i]) /\ UNCHANGED <<fd_filters, refused, pids, tuned>>
      /\ call[c].at = "set" /\ ~call[c].shut
  BY DEF CloseFilter
<1>3. LoopStep(c, i, TRUE)
  <2>1. call' = [call EXCEPT ![c] = Stepped(c, i, TRUE)]
    BY <1>0 DEF CloseFilter, Calls, Stepped
  <2> QED BY <1>2, <2>1 DEF LoopStep, CloseFilter
<1>4. PICK k : /\ Alone(c, k) /\ k.at = "set" /\ k.slot = i /\ k.shut
               /\ Filters' /\ ClaimedGetThrough' => Safe'
  <2> HIDE DEF i
  <2>1. TRUE \in BOOLEAN
    OBVIOUS
  <2>2. \E k : /\ Alone(c, k) /\ k.at = call[c].at /\ k.slot = i /\ (k.shut <=> TRUE)
               /\ Filters' /\ ClaimedGetThrough' => Safe'
    BY <1>1, <1>3, <2>1, LoopStepIsSafe
  <2> QED BY <1>2, <2>2
<1>5. \A j \in Slots : /\ (Stale(j)' <=> j = i) /\ ~Stale(j)
                       /\ (Claimed(j) <=> j < i) /\ (Claimed(j)' <=> j < i)
  BY <1>1, <1>2, <1>4 DEF Alone, Unsetting
<1> HIDE DEF i
<1>6. \A h \in Handles : kernel'[h] = IF h = fd_filters[i] THEN Free ELSE kernel[h]
  BY <1>0, <1>2, DvbSrcAssumption DEF Closed, Types
<1>7. \A j \in Slots : /\ fd_filters[j] \in Handles \cup {None}
                       /\ fd_filters[j] # None /\ j # i => fd_filters[j] # fd_filters[i]
  BY <1>0, <1>1 DEF OneSlotEach, Types
<1>8. OneSlotEach'
  BY <1>0, <1>1, <1>2 DEF OneSlotEach
<1>9. OpenUnlessStale'
  <2> SUFFICES ASSUME NEW j \in Slots, fd_filters[j] # None
               PROVE  kernel'[fd_filters[j]] = Free <=> Stale(j)'
    BY <1>1, <1>2 DEF OpenUnlessStale
  <2>1. kernel[fd_filters[j]] # Free
    BY <1>0, <1>5 DEF OpenUnlessStale
  <2> QED BY <1>5, <1>6, <1>7, <2>1
<1>10. OpenIsNamed'
  BY <1>0, <1>1, <1>2, <1>6 DEF OpenIsNamed
<1>11. LoopsAreBehind'
  BY <1>1, <1>2, <1>4, LoopsStayBehind DEF Unsetting
<1>12. ClaimedGetThrough'
  <2> SUFFICES ASSUME tuned', NEW j \in 1 .. Len(pids'), Claimed(j)', j \notin refused'
               PROVE  Through(j)'
    BY DEF ClaimedGetThrough
  <2>1. j \in Slots /\ j \in 1 .. Len(pids)
    BY <1>0, <1>2, DvbSrcAssumption DEF Slots, Types
  <2>2. Claimed(j) /\ j # i
    BY <1>1, <1>5, <2>1
  <2>3. Through(j)
    BY <1>0, <1>2, <2>1, <2>2 DEF ClaimedGetThrough
  <2> QED BY <1>2, <1>6, <1>7, <2>1, <2>2, <2>3 DEF Through
<1> QED BY <1>4, <1>8, <1>9, <1>10, <1>11, <1>12 DEF Filters

\* Slot i gets a descriptor that was free, or none.
LEMMA FillIsSafe ==
  ASSUME SrcInv, NEW c \in Callers, Busy(c), ~raced, OpenFilter(c) \/ RefuseFilter(c)
  PROVE  Safe'
<1> USE DEF SrcInv
<1>0. /\ Types /\ Calling /\ Filters /\ Tuned /\ call[c] \in Calls
      /\ OneSlotEach /\ OpenUnlessStale /\ OpenIsNamed /\ LoopsAreBehind /\ ClaimedGetThrough
  BY DEF Safe, Types, Filters, Tuned
<1> DEFINE i == call[c].slot
<1>1. AtSlot(c, i) /\ i \in Slots /\ i \in Nat \ {0} /\ i <= Len(pids) /\ Slots \subseteq Nat /\ Slots' = Slots
  BY <1>0, SettingIsInSlots DEF OpenFilter, RefuseFilter, AtSlot, Slots
<1>2. call[c].at = "set" /\ call[c].shut /\ UNCHANGED <<state, pids, tuned>>
  BY DEF OpenFilter, RefuseFilter
<1>3. LoopStep(c, i + 1, FALSE)
  <2>1. call' = [call EXCEPT ![c] = Stepped(c, i + 1, FALSE)]
    BY <1>0 DEF OpenFilter, RefuseFilter, NextFilter, Calls, Stepped
  <2> QED BY <1>2, <2>1 DEF LoopStep
<1>4. PICK k : /\ Alone(c, k) /\ k.at = "set" /\ k.slot = i + 1 /\ ~k.shut
               /\ Filters' /\ ClaimedGetThrough' => Safe'
  <2> DEFINE n == i + 1
  <2>1. n \in Nat \ {0}
    BY <1>1
  <2> HIDE DEF n
  <2>2. \E k : /\ Alone(c, k) /\ k.at = call[c].at /\ k.slot = n /\ ~k.shut
               /\ Filters' /\ ClaimedGetThrough' => Safe'
    BY <1>2, <1>3, <2>1, LoopStepIsSafe DEF n
  <2> QED BY <1>2, <2>2 DEF n
<1>5. \A j \in Slots : /\ (Stale(j) <=> j = i) /\ ~Stale(j)' /\ (Claimed(j) <=> j < i)
                       /\ (Claimed(j)' <=> j < i + 1)
  BY <1>1, <1>2, <1>4 DEF Alone, Unsetting
<1> HIDE DEF i
<1>6. \A j \in Slots : /\ fd_filters[j] \in Handles \cup {None}
                       /\ fd_filters[j] # None => (kernel[fd_filters[j]] = Free <=> j = i)
  BY <1>0, <1>5 DEF OpenUnlessStale, Types
\* What the slot gets.
<1>7. PICK h \in Handles \cup {None} :
        /\ fd_filters' = [fd_filters EXCEPT ![i] = h]
        /\ h = None => kernel' = kernel /\ refused' = refused \cup {i}
        /\ h # None => /\ kernel[h] = Free
                       /\ \/ kernel' = [kernel EXCEPT ![h] = pids[i]] /\ refused' = refused \ {i}
                          \/ kernel' = [kernel EXCEPT ![h] = Unbound] /\ refused' = refused \cup {i}
  <2>1. CASE OpenFilter(c)
    <3>1. Min(FreeHandles) \in Handles /\ kernel[Min(FreeHandles)] = Free
      BY <1>0, <2>1, FreeIsFree DEF OpenFilter, Types
    <3>2. Min(FreeHandles) # None
      BY <3>1, DvbSrcAssumption
    <3> QED BY <2>1, <3>1, <3>2 DEF OpenFilter, i
  <2>2. CASE RefuseFilter(c)
    BY <2>2 DEF RefuseFilter, i
  <2> QED BY <2>1, <2>2
<1>8. \A j \in Slots : fd_filters'[j] = IF j = i THEN h ELSE fd_filters[j]
  BY <1>0, <1>7 DEF Types
<1>9. \A g \in Handles : g # h => kernel'[g] = kernel[g]
  BY <1>0, <1>7, DvbSrcAssumption DEF Types
<1>10. h # None => /\ h \in Handles /\ kernel'[h] # Free
                   /\ \A j \in Slots : j # i => fd_filters[j] # h
  <2> SUFFICES ASSUME h # None
               PROVE  /\ h \in Handles /\ kernel'[h] # Free
                      /\ \A j \in Slots : j # i => fd_filters[j] # h
    OBVIOUS
  <2>1. h \in Handles /\ kernel'[h] \in {pids[i], Unbound}
    BY <1>0, <1>7 DEF Types
  <2>2. pids[i] \in Nat
    BY <1>0, <1>1 DEF Types
  <2> QED BY <1>6, <1>7, <2>1, <2>2 DEF Free, Unbound
<1>11. OneSlotEach'
  BY <1>0, <1>1, <1>8, <1>10 DEF OneSlotEach
<1>12. OpenUnlessStale'
  <2> SUFFICES ASSUME NEW j \in Slots, fd_filters'[j] # None
               PROVE  kernel'[fd_filters'[j]] # Free
    BY <1>1, <1>5 DEF OpenUnlessStale
  <2>1. CASE j = i
    BY <1>8, <1>10, <2>1
  <2>2. CASE j # i
    BY <1>6, <1>8, <1>9, <1>10, <2>2
  <2> QED BY <2>1, <2>2
<1>13. OpenIsNamed'
  <2> SUFFICES ASSUME NEW g \in Handles, kernel'[g] # Free
               PROVE  \E j \in Slots : fd_filters'[j] = g
    BY <1>1 DEF OpenIsNamed
  <2>1. CASE g = h
    BY <1>1, <1>8, <2>1
  <2>2. CASE g # h
    <3>1. kernel[g] # Free
      BY <1>9, <2>2
    <3>2. PICK j \in Slots : fd_filters[j] = g
      BY <1>0, <3>1 DEF OpenIsNamed
    <3>3. j # i
      BY <1>6, <3>1, <3>2, DvbSrcAssumption
    <3> QED BY <1>8, <3>2, <3>3
  <2> QED BY <2>1, <2>2
<1>14. LoopsAreBehind'
  BY <1>1, <1>4, LoopsStayBehind DEF Unsetting
<1>15. ClaimedGetThrough'
  <2> SUFFICES ASSUME tuned', NEW j \in 1 .. Len(pids'), Claimed(j)', j \notin refused'
               PROVE  Through(j)'
    BY DEF ClaimedGetThrough
  <2>1. j \in Slots /\ j \in 1 .. Len(pids)
    BY <1>0, <1>2, DvbSrcAssumption DEF Slots, Types
  <2>2. CASE j = i
    <3>1. h # None /\ kernel' = [kernel EXCEPT ![h] = pids[i]]
      BY <1>7, <2>2
    <3>2. kernel'[h] = pids[i]
      BY <1>0, <1>10, <3>1 DEF Types
    <3> QED BY <1>2, <1>8, <2>1, <2>2, <3>1, <3>2 DEF Through
  <2>3. CASE j # i
    <3>1. Claimed(j) /\ j \notin refused
      BY <1>1, <1>5, <1>7, <2>1, <2>3
    <3>2. Through(j)
      BY <1>0, <1>2, <2>1, <3>1 DEF ClaimedGetThrough
    <3> QED BY <1>2, <1>6, <1>8, <1>9, <1>10, <2>1, <2>3, <3>2 DEF Through
  <2> QED BY <2>2, <2>3
<1> QED BY <1>4, <1>11, <1>12, <1>13, <1>14, <1>15 DEF Filters
-----------------------------------------------------------------------------
(* Calls begin, and steps that touch none of this *)

\* The changer, which is in no call to the filters, stays out of them.
LEMMA BystanderIsSafe ==
  ASSUME SrcInv, ~raced, NEW c \in Callers, c = Changer, ~Busy(c),
         NEW k \in Calls, k.at \in {"idle", "flush"}, k.op \in {"none", "pause"}, ~k.shut,
         call' = [call EXCEPT ![c] = k],
         Above(state) => Above(state'),
         UNCHANGED <<filterVars, pids, tuned>>
  PROVE  Safe'
<1> USE DEF SrcInv
<1>0. /\ Types /\ Calling /\ OneCall /\ Phases
      /\ OneSlotEach /\ OpenUnlessStale /\ OpenIsNamed /\ LoopsAreBehind
      /\ RestIsEmpty /\ NotYetTuned /\ ClaimedGetThrough
  BY DEF Safe, Filters, Tuned
<1>1. call[c].at \in {"idle", "flush"} /\ ~call[c].shut /\ call[c].op \in {"none", "pause"}
  BY <1>0, WaitingIsIdle DEF Types
<1>2. \A d \in Callers : call'[d] = IF d = c THEN k ELSE call[d]
  BY <1>0 DEF Types
<1>3. Slots \subseteq Nat \ {0} /\ Slots' = Slots
  BY DEF Slots
<1>4. \A i \in Slots : Stale(i)' <=> Stale(i)
  BY <1>1, <1>2 DEF Stale
<1>5. \A i \in Nat : Claimed(i)' <=> Claimed(i)
  BY <1>1, <1>2 DEF Claimed, Unsetting
<1>6. OneCall'
  BY <1>0, <1>1, <1>2 DEF OneCall, Busy, FilterCalls
<1>7. Phases'
  <2> SUFFICES ASSUME NEW d \in Callers
               PROVE  /\ call'[d].op \in {"tune", "pids", "stop"} => Above(state')
                      /\ call'[d].op = "start" => state' = "ready"
    BY DEF Phases, Above
  <2>1. call'[d].op # "start"
    BY <1>0, <1>2 DEF Calling, Busy, FilterCalls
  <2> QED BY <1>0, <1>2, <2>1 DEF Phases
<1>8. Filters'
  <2>1. OneSlotEach'
    BY <1>0, <1>3 DEF OneSlotEach, filterVars
  <2>2. OpenUnlessStale'
    BY <1>0, <1>3, <1>4 DEF OpenUnlessStale, filterVars
  <2>3. OpenIsNamed'
    BY <1>0, <1>3 DEF OpenIsNamed, filterVars
  <2>4. LoopsAreBehind'
    BY <1>0, <1>2, <1>3 DEF LoopsAreBehind, Unsetting, filterVars
  <2> QED BY <2>1, <2>2, <2>3, <2>4 DEF Filters
<1>9. RestIsEmpty'
  <2>1. Quiet' => Quiet
    BY <1>1, <1>2 DEF Quiet, FilterCalls
  <2>2. AtRest' => AtRest
    BY <2>1 DEF AtRest, Above
  <2> QED BY <1>0, <1>3, <2>2 DEF RestIsEmpty, filterVars
<1>10. NotYetTuned'
  BY <1>0, <1>2 DEF NotYetTuned
<1>11. ClaimedGetThrough'
  <2> SUFFICES ASSUME tuned', NEW j \in 1 .. Len(pids'), Claimed(j)', j \notin refused'
               PROVE  Through(j)'
    BY DEF ClaimedGetThrough
  <2>1. Claimed(j)
    BY <1>5
  <2>2. Through(j)
    BY <1>0, <2>1 DEF ClaimedGetThrough, filterVars
  <2> QED BY <2>2 DEF Through, filterVars
<1> QED BY <1>6, <1>7, <1>8, <1>9, <1>10, <1>11 DEF Safe, Tuned

\* Nothing else goes on: so a filter call of the waiter is the only one.
LEMMA FirstCall ==
  ASSUME SrcInv, NEW c \in Callers, IsIdle(c), ~Overlaps(c)
  PROVE  Quiet /\ (\A d \in Callers : call[d].at \in {"idle", "flush"} /\ ~call[d].shut
                                      /\ call[d].op \in {"none", "pause"})
<1> USE DEF SrcInv
<1>1. \A d \in Callers : ~Busy(d)
  <2> TAKE d \in Callers
  <2>1. CASE d = c
    <3>1. call[c] \in Calls /\ Placed(call[c]) /\ call[c].at = "idle"
      BY DEF Types, Calling, IsIdle
    <3>2. call[c].op = "none"
      BY <3>1 DEF Calls, Ops, Placed
    <3> QED BY <2>1, <3>2 DEF Busy, FilterCalls
  <2>2. CASE d # c
    BY <2>2 DEF Overlaps, Others, Busy
  <2> QED BY <2>1, <2>2
<1>2. Quiet
  BY <1>1 DEF Quiet, Busy
<1>3. \A d \in Callers : call[d].at \in {"idle", "flush"} /\ ~call[d].shut /\ call[d].op \in {"none", "pause"}
  BY <1>1, WaitingIsIdle DEF Types
<1> QED BY <1>2, <1>3

\* start, stop, tune or the PIDs, when no other such call goes on.
LEMMA FirstCallIsSafe ==
  ASSUME SrcInv, ~raced, NEW c \in Callers, IsIdle(c), ~Overlaps(c),
         NEW k \in Calls, k.op \in FilterCalls, ~k.shut, k.slot = 1,
         k.at \in {"tune", "close", "set"},
         call' = [call EXCEPT ![c] = k],
         k.op \in {"tune", "pids", "stop"} => Above(state),
         k.op = "start" => state = "ready",
         UNCHANGED <<state, filterVars, tuned>>,
         pids' = pids \/ k.at = "set"
  PROVE  Safe'
<1> USE DEF SrcInv
<1>0. /\ Types /\ Calling /\ Phases /\ Filters /\ Tuned
      /\ OneSlotEach /\ OpenUnlessStale /\ OpenIsNamed /\ LoopsAreBehind
      /\ RestIsEmpty /\ NotYetTuned /\ ClaimedGetThrough
  BY DEF Safe, Filters, Tuned
<1>1. Quiet /\ (\A d \in Callers : call[d].at \in {"idle", "flush"} /\ ~call[d].shut
                                   /\ call[d].op \in {"none", "pause"})
  BY FirstCall
<1>2. \A d \in Callers : call'[d] = IF d = c THEN k ELSE call[d]
  BY <1>0 DEF Types
<1>3. Slots \subseteq Nat \ {0} /\ Slots' = Slots
  BY DEF Slots
<1>4. OneCall'
  BY <1>1, <1>2 DEF OneCall, Busy, FilterCalls
<1>5. Phases'
  BY <1>1, <1>2 DEF Phases, Above
<1>6. Filters'
  <2>1. \A i \in Slots : ~Stale(i) /\ ~Stale(i)'
    BY <1>1, <1>2 DEF Stale
  <2>2. OneSlotEach'
    BY <1>0, <1>3 DEF OneSlotEach, filterVars
  <2>3. OpenUnlessStale'
    BY <1>0, <1>3, <2>1 DEF OpenUnlessStale, filterVars
  <2>4. OpenIsNamed'
    BY <1>0, <1>3 DEF OpenIsNamed, filterVars
  <2>5. LoopsAreBehind'
    <3>1. \A i \in Slots : ~(i < 1)
      BY <1>3
    <3> QED BY <1>1, <1>2, <1>3, <3>1 DEF LoopsAreBehind, Unsetting
  <2> QED BY <2>2, <2>3, <2>4, <2>5 DEF Filters
<1>7. RestIsEmpty'
  BY <1>2 DEF RestIsEmpty, AtRest, Quiet
<1>8. NotYetTuned'
  <2>1. k.op = "start" => ~tuned
    BY <1>0, <1>1 DEF RestIsEmpty, AtRest, Above
  <2> QED BY <1>1, <1>2, <2>1 DEF NotYetTuned
<1>9. ClaimedGetThrough'
  <2> SUFFICES ASSUME tuned', NEW j \in 1 .. Len(pids'), Claimed(j)', j \notin refused'
               PROVE  Through(j)'
    BY DEF ClaimedGetThrough
  <2>1. ~(j < 1)
    OBVIOUS
  <2>2. k.at = "tune" /\ pids' = pids
    BY <1>2, <2>1 DEF Claimed, Unsetting
  <2>3. Claimed(j)
    BY <1>1 DEF Claimed, Unsetting
  <2>4. Through(j)
    BY <1>0, <2>2, <2>3 DEF ClaimedGetThrough, filterVars
  <2> QED BY <2>2, <2>4 DEF Through, filterVars
<1> QED BY <1>4, <1>5, <1>6, <1>7, <1>8, <1>9 DEF Safe, Tuned

\* gst_dvbsrc_set_pids below PAUSED only stores the list.  A start that goes on has not come to the
\* filters yet, or takes them away again.
LEMMA StoringIsSafe ==
  ASSUME SrcInv, ~raced, NEW c \in Callers, NEW request \in Requests,
         SetPids(c, request), ~Above(state), ~raced'
  PROVE  Safe'
<1> USE DEF SrcInv
<1>0. /\ Types /\ Calling /\ OneCall /\ Phases
      /\ OneSlotEach /\ OpenUnlessStale /\ OpenIsNamed /\ LoopsAreBehind
      /\ RestIsEmpty /\ NotYetTuned /\ ClaimedGetThrough
  BY DEF Safe, Filters, Tuned
<1>1. UNCHANGED <<state, call, fd_filters, kernel, refused, tuned>>
  BY DEF SetPids, filterVars
<1>2. \A d \in Callers : call[d].at \notin {"set", "dvr"}
  <2>1. call[c].at = "idle"
    BY DEF SetPids, CanCall, IsIdle
  <2> QED BY <2>1 DEF SetPids, Others
<1>3. ~tuned \/ \E d \in Callers : call[d].at \in Unsetting
  <2>1. CASE Quiet
    BY <1>0, <2>1 DEF RestIsEmpty, AtRest
  <2>2. ASSUME NEW d \in Callers, Busy(d) PROVE ~tuned \/ call[d].at \in Unsetting
    <3>1. call[d] \in Calls /\ Placed(call[d])
      BY <1>0 DEF Types, Calling
    <3>2. call[d].op = "start"
      BY <1>0, <2>2 DEF Phases, Busy, FilterCalls
    <3>3. call[d].at \in {"tune", "unset", "tuning", "undo"}
      BY <1>2, <3>1, <3>2 DEF Placed
    <3> QED BY <1>0, <3>2, <3>3 DEF NotYetTuned, Unsetting
  <2> QED BY <2>1, <2>2 DEF Quiet, Busy
<1>4. ClaimedGetThrough'
  BY <1>1, <1>3 DEF ClaimedGetThrough, Claimed
<1>5. OneCall' /\ Phases'
  BY <1>0, <1>1 DEF OneCall, Busy, Phases, Above
<1>6. OneSlotEach' /\ OpenUnlessStale' /\ OpenIsNamed'
  BY <1>0, <1>1 DEF OneSlotEach, OpenUnlessStale, OpenIsNamed, Stale, Slots
<1>7. LoopsAreBehind'
  BY <1>0, <1>1, <1>2 DEF LoopsAreBehind, Slots
<1>8. RestIsEmpty' /\ NotYetTuned'
  BY <1>0, <1>1 DEF RestIsEmpty, AtRest, Quiet, Above, NotYetTuned, Slots
<1> QED BY <1>4, <1>5, <1>6, <1>7, <1>8 DEF Safe, Filters, Tuned

LEMMA CallIsSafe ==
  ASSUME SrcInv, ~raced, NEW c \in Callers, Call(c), ~raced'
  PROVE  Safe'
<1> USE DEF SrcInv
<1>0. call \in [Callers -> Calls] /\ Calling /\ call[c] \in Calls /\ Placed(call[c]) /\ IsIdle(c)
  BY DEF Types, Calling, Call, NullToReady, ReadyToNull, Start, Play, Unlock, Stop, Tune, SetPids, CanChange,
         CanCall
<1>1. ~Busy(c) /\ call[c].at = "idle" /\ call[c].op = "none" /\ ~call[c].shut
  BY <1>0 DEF IsIdle, Calls, Ops, Placed, Busy, FilterCalls, Unsetting
<1>2. ASSUME c = Changer, UNCHANGED <<call, filterVars, pids, tuned>>, Above(state) => Above(state')
      PROVE  Safe'
  <2>1. call' = [call EXCEPT ![c] = call[c]]
    BY <1>0, <1>2
  <2> QED BY <1>0, <1>1, <1>2, <2>1, BystanderIsSafe
<1>3. CASE NullToReady(c) \/ ReadyToNull(c) \/ Play(c)
  BY <1>2, <1>3 DEF NullToReady, ReadyToNull, Play, CanChange, Above
<1>4. CASE Start(c)
  <2>1. CASE UNCHANGED call
    BY <1>2, <1>4, <2>1 DEF Start, CanChange
  <2>2. CASE Begin(c, "start", "tune")
    <3>1. "start" \in Ops /\ "tune" \in Ats /\ "start" \in FilterCalls
      BY DEF Ops, Ats, FilterCalls
    <3> DEFINE k == [Idle EXCEPT !.op = "start", !.at = "tune"]
    <3>2. k \in Calls /\ k.op = "start" /\ k.at = "tune" /\ k.slot = 1 /\ ~k.shut
      BY <3>1, BegunFields
    <3>3. call' = [call EXCEPT ![c] = k] /\ ~Overlaps(c)
      BY <2>2, <3>1 DEF Begin
    <3> HIDE DEF k
    <3> QED BY <1>0, <1>4, <3>1, <3>2, <3>3, FirstCallIsSafe DEF Start
  <2> QED BY <1>4, <2>1, <2>2 DEF Start
<1>5. CASE Unlock(c)
  <2>1. "pause" \in Ops /\ "flush" \in Ats
    BY DEF Ops, Ats
  <2> DEFINE k == [Idle EXCEPT !.op = "pause", !.at = "flush"]
  <2>2. k \in Calls /\ k.op = "pause" /\ k.at = "flush" /\ k.slot = 1 /\ ~k.shut
    BY <2>1, BegunFields
  <2>3. call' = [call EXCEPT ![c] = k] /\ c = Changer /\ UNCHANGED <<filterVars, pids, tuned, state>>
    BY <1>5 DEF Unlock, Begin, CanChange
  <2> HIDE DEF k
  <2> QED BY <1>1, <2>2, <2>3, BystanderIsSafe
<1>6. CASE Stop(c)
  <2>1. "stop" \in Ops /\ "close" \in Ats /\ "stop" \in FilterCalls
    BY DEF Ops, Ats, FilterCalls
  <2> DEFINE k == [Idle EXCEPT !.op = "stop", !.at = "close"]
  <2>2. k \in Calls /\ k.op = "stop" /\ k.at = "close" /\ k.slot = 1 /\ ~k.shut
    BY <2>1, BegunFields
  <2>3. /\ call' = [call EXCEPT ![c] = k] /\ ~Overlaps(c) /\ Above(state)
        /\ UNCHANGED <<filterVars, pids, tuned, state>>
    BY <1>6, <2>1 DEF Stop, Begin, Above
  <2> HIDE DEF k
  <2> QED BY <1>0, <2>1, <2>2, <2>3, FirstCallIsSafe
<1>7. CASE Tune(c)
  <2>1. "tune" \in Ops /\ "tune" \in Ats /\ "tune" \in FilterCalls
    BY DEF Ops, Ats, FilterCalls
  <2> DEFINE k == [Idle EXCEPT !.op = "tune", !.at = "tune"]
  <2>2. k \in Calls /\ k.op = "tune" /\ k.at = "tune" /\ k.slot = 1 /\ ~k.shut
    BY <2>1, BegunFields
  <2>3. /\ call' = [call EXCEPT ![c] = k] /\ ~Overlaps(c) /\ Above(state)
        /\ UNCHANGED <<filterVars, pids, tuned, state>>
    BY <1>7, <2>1 DEF Tune, Begin
  <2> HIDE DEF k
  <2> QED BY <1>0, <2>1, <2>2, <2>3, FirstCallIsSafe
<1>8. ASSUME NEW request \in Requests, SetPids(c, request) PROVE Safe'
  <2>0. CASE ~Above(state)
    BY <1>8, <2>0, StoringIsSafe
  <2>4. CASE Above(state)
    <3>1. "pids" \in Ops /\ "set" \in Ats /\ "pids" \in FilterCalls
      BY DEF Ops, Ats, FilterCalls
    <3> DEFINE k == [Idle EXCEPT !.op = "pids", !.at = "set"]
    <3>2. k \in Calls /\ k.op = "pids" /\ k.at = "set" /\ k.slot = 1 /\ ~k.shut
      BY <3>1, BegunFields
    <3>3. /\ call' = [call EXCEPT ![c] = k] /\ ~Overlaps(c)
          /\ UNCHANGED <<filterVars, tuned, state>>
      BY <1>8, <2>4 DEF SetPids
    <3> HIDE DEF k
    <3> QED BY <1>0, <2>4, <3>1, <3>2, <3>3, FirstCallIsSafe
  <2> QED BY <2>0, <2>4
<1> QED BY <1>3, <1>4, <1>5, <1>6, <1>7, <1>8 DEF Call

LEMMA UnlockStopIsSafe ==
  ASSUME SrcInv, ~raced, NEW c \in Callers, UnlockStop(c)
  PROVE  Safe'
<1> USE DEF SrcInv
<1>1. call \in [Callers -> Calls] /\ Calling /\ call[c] \in Calls /\ Placed(call[c]) /\ call[c].at = "flush"
  BY DEF Types, Calling, UnlockStop
<1>2. call[c].op = "pause"
  BY <1>1 DEF Calls, Ops, Placed
<1>3. c = Changer /\ ~Busy(c)
  BY <1>1, <1>2 DEF Calling, Busy, FilterCalls
<1>4. Idle \in Calls /\ Idle.at = "idle" /\ Idle.op = "none" /\ ~Idle.shut
  BY IdlePlaced DEF Idle
<1>5. call' = [call EXCEPT ![c] = Idle] /\ UNCHANGED <<filterVars, pids, tuned>> /\ Above(state')
  BY DEF UnlockStop, Return, Above
<1> QED BY <1>3, <1>4, <1>5, BystanderIsSafe
-----------------------------------------------------------------------------
LEMMA SrcInit == Init => SrcInv
<1> SUFFICES ASSUME Init PROVE SrcInv
  OBVIOUS
<1>1. call \in [Callers -> Calls] /\ \A c \in Callers : call[c] = Idle
  BY IdlePlaced DEF Init
<1>2. Types
  <2>1. WholeTS \in Seq(Nat) /\ Len(WholeTS) = 1
    BY DEF WholeTS
  <2>2. 1 <= MaxFilters
    BY DvbSrcAssumption
  <2>3. pids \in Seq(Nat) /\ Len(pids) <= MaxFilters
    BY <2>1, <2>2 DEF Init
  <2> QED BY <1>1, <2>3 DEF Init, Types, Free, Unbound
<1>3. \A c \in Callers : /\ call[c].at = "idle" /\ call[c].op = "none" /\ ~call[c].shut /\ Placed(call[c])
  <2>1. Idle.at = "idle" /\ Idle.op = "none" /\ ~Idle.shut
    BY DEF Idle
  <2> QED BY <1>1, <2>1, IdlePlaced
<1>4. Calling
  BY <1>3 DEF Calling
<1>5. OneCall /\ Phases
  BY <1>3 DEF OneCall, Phases, Busy, FilterCalls
<1>6. Filters
  BY <1>3 DEF Init, Filters, OneSlotEach, OpenUnlessStale, OpenIsNamed, LoopsAreBehind, Unsetting
<1>7. Tuned
  BY <1>3 DEF Init, Tuned, RestIsEmpty, NotYetTuned, ClaimedGetThrough
<1> QED BY <1>2, <1>4, <1>5, <1>6, <1>7 DEF SrcInv, Safe

\* What the invariant speaks of stays as it is.
LEMMA SameIsSafe ==
  ASSUME SrcInv, UNCHANGED <<state, call, pids, filterVars, tuned, raced>>
  PROVE  SrcInv'
<1>1. Types' /\ Calling'
  BY DEF SrcInv, Types, Calling, Slots, filterVars
<1>2. (OneCall /\ Phases)' <=> (OneCall /\ Phases)
  BY DEF OneCall, Busy, Phases, Above
<1>3. Filters' <=> Filters
  BY DEF Filters, OneSlotEach, OpenUnlessStale, OpenIsNamed, LoopsAreBehind, Stale, Slots, filterVars
<1>4. Tuned' <=> Tuned
  BY DEF Tuned, RestIsEmpty, AtRest, Quiet, Above, NotYetTuned, ClaimedGetThrough, Claimed, Through, Slots,
         filterVars
<1> QED BY <1>1, <1>2, <1>3, <1>4 DEF SrcInv, Safe

LEMMA SrcStep == SrcInv /\ [Next]_vars => SrcInv'
<1> SUFFICES ASSUME SrcInv, [Next]_vars PROVE SrcInv'
  OBVIOUS
<1>1. CASE UNCHANGED vars
  BY <1>1, SameIsSafe DEF vars
<1>2. CASE Create \/ Streaming \/ ReadFails \/ SelectError \/ Feed
  <2>1. UNCHANGED <<state, call, pids, filterVars, tuned, raced>>
    BY <1>2 DEF Create, Streaming, Read, ReadFlushed, ReadFails, SelectError, Feed
  <2> QED BY <2>1, SameIsSafe
<1>3. ASSUME NEW c \in Callers, Call(c) PROVE SrcInv'
  <2>1. Types' /\ Calling'
    BY <1>3, CallTypes DEF SrcInv
  <2>2. ~raced' => ~raced
    BY <1>3 DEF Call, NullToReady, ReadyToNull, Start, Play, Unlock, Stop, Tune, SetPids, Begin
  <2>3. Safe'
    BY <1>3, <2>2, CallIsSafe DEF Safe
  <2> QED BY <2>1, <2>3 DEF SrcInv
<1>4. ASSUME NEW c \in Callers, Proceed(c) \/ TakesFrontend(c) PROVE SrcInv'
  <2>1. Types' /\ Calling'
    BY <1>4, ProceedTypes DEF SrcInv
  <2>2. raced' = raced
    BY <1>4 DEF Proceed, TakesFrontend, OpenDvr, UnlockStop, Check, Unset, Answer, HasLock, NoLock, CloseFilter,
                OpenFilter, RefuseFilter, AllSet, Undone, Stopped, SetFrontend
  <2>3. ASSUME ~raced PROVE Safe'
    <3>1. CASE UnlockStop(c)
      BY <2>3, <3>1, UnlockStopIsSafe
    <3>2. ~UnlockStop(c) => Busy(c)
      <4>1. ~UnlockStop(c) => call[c].at \notin {"idle", "flush"}
        BY <1>4 DEF Proceed, TakesFrontend, OpenDvr, Check, Unset, Answer, HasLock, NoLock, CloseFilter,
                    OpenFilter, RefuseFilter, AllSet, Undone, Stopped, SetFrontend
      <4> QED BY <4>1, BusyIsCalled DEF SrcInv, Types
    <3>3. CASE Busy(c) /\ Unset(c)
      BY <2>3, <3>3, UnsetIsSafe
    <3>4. CASE Busy(c) /\ CloseFilter(c)
      BY <2>3, <3>4, CloseIsSafe
    <3>5. CASE Busy(c) /\ (OpenFilter(c) \/ RefuseFilter(c))
      BY <2>3, <3>5, FillIsSafe
    <3>6. CASE Busy(c) /\ (\/ OpenDvr(c) \/ Check(c) \/ HasLock(c) \/ NoLock(c) \/ AllSet(c) \/ Undone(c)
                           \/ Stopped(c) \/ TakesFrontend(c))
      <4>1. UNCHANGED filterVars /\ UNCHANGED pids
        BY <3>6 DEF TakesFrontend, OpenDvr, Check, HasLock, NoLock, AllSet, Undone, Stopped, SetFrontend
      <4> QED BY <2>2, <2>3, <3>6, <4>1, QuietCallIsSafe
    <3> QED BY <1>4, <3>1, <3>2, <3>3, <3>4, <3>5, <3>6 DEF Proceed, Answer
  <2>4. raced => Safe'
    BY <2>2 DEF Safe
  <2> QED BY <2>1, <2>3, <2>4 DEF SrcInv
<1> QED BY <1>1, <1>2, <1>3, <1>4 DEF Next

\* The labels of the calls, and that filters and driver agree as long as calls do not overlap.
LEMMA SrcAlways == Spec => []SrcInv
BY SrcInit, SrcStep, PTL DEF Spec

-----------------------------------------------------------------------------
(* The devices *)

\* The dvr is open while the element is up, or from a start that failed; the frontend while the
\* element is up or comes up.
Devices ==
  /\ dvr \in BOOLEAN /\ stranded \in BOOLEAN
  /\ dvr <=> Above(state) \/ stranded
  /\ Above(state) => ~stranded /\ fd_dvr = "open"
  /\ fd_frontend = "open" => Above(state) \/ call[Changer].op = "start"
  /\ call[Changer].op = "pause" => Above(state)

DevicesHeld == ~raced => Devices

LEMMA OtherKeepsDevices ==
  ASSUME Devices, UNCHANGED <<state, deviceVars>>,
         call'[Changer].op = call[Changer].op \/ Above(state)
  PROVE  Devices'
BY DEF Devices, deviceVars, Above

LEMMA CallKeepsDevices ==
  ASSUME SrcInv, ~raced, Devices, NEW c \in Callers, Call(c)
  PROVE  Devices'
<1>0. call \in [Callers -> Calls] /\ Changer \in Callers
  BY DvbSrcAssumption DEF SrcInv, Types
<1>1. ASSUME c = Changer, IsIdle(c) PROVE call[Changer].op = "none"
  <2>1. call[c] \in Calls /\ Placed(call[c]) /\ call[c].at = "idle"
    BY <1>0, <1>1 DEF SrcInv, Calling, IsIdle
  <2> QED BY <1>1, <2>1 DEF Placed, Calls, Ops
<1>2. CASE NullToReady(c)
  BY <1>1, <1>2 DEF NullToReady, CanChange, CanCall, FrontendFails, Devices, Above
<1>3. CASE ReadyToNull(c)
  BY <1>1, <1>3 DEF ReadyToNull, CanChange, CanCall, Devices, deviceVars, Above
<1>4. CASE Start(c)
  <2>1. c = Changer /\ ~Above(state) /\ UNCHANGED <<state, fd_dvr, dvr, stranded>> /\ call[Changer].op = "none"
    BY <1>1, <1>4 DEF Start, CanChange, CanCall, Above
  <2>2. CASE Begin(c, "start", "tune")
    <3>1. "start" \in Ops /\ "tune" \in Ats
      BY DEF Ops, Ats
    <3>2. call'[Changer].op = "start"
      BY <1>0, <2>1, <2>2, <3>1, BegunFields DEF Begin
    <3> QED BY <2>1, <3>2 DEF Devices, Above
  <2>3. CASE fd_frontend' # "open" /\ UNCHANGED call
    BY <2>1, <2>3 DEF Devices, Above
  <2> QED BY <1>4, <2>2, <2>3 DEF Start, FrontendFails
<1>5. CASE Play(c)
  <2>1. /\ Above(state) /\ Above(state')
        /\ UNCHANGED <<fd_frontend, fd_dvr, dvr, stranded>>
    BY <1>5 DEF Play, deviceVars, Above
  <2> QED BY <2>1 DEF Devices
<1>6. CASE Unlock(c) \/ Stop(c) \/ Tune(c) \/ \E request \in Requests : SetPids(c, request)
  <2>1. UNCHANGED <<state, deviceVars>> /\ (Above(state) \/ UNCHANGED call)
    BY <1>6 DEF Unlock, Stop, Tune, SetPids, CanChange, CanCall, Above
  <2> QED BY <2>1, OtherKeepsDevices
<1> QED BY <1>2, <1>3, <1>4, <1>5, <1>6 DEF Call

LEMMA ProceedKeepsDevices ==
  ASSUME SrcInv, ~raced, Devices, NEW c \in Callers, Proceed(c) \/ TakesFrontend(c)
  PROVE  Devices'
<1>0. /\ call \in [Callers -> Calls] /\ Changer \in Callers /\ Phases
      /\ call[c] \in Calls /\ Placed(call[c])
      /\ call[c].op \in {"start", "stop", "pause"} => c = Changer
  BY DvbSrcAssumption DEF SrcInv, Types, Calling, Safe
<1>1. \A a : Goto(c, a).op = call[c].op
  BY <1>0 DEF Goto, Calls
<1>2. Idle.op = "none"
  BY DEF Idle
<1>3. CASE OpenDvr(c)
  <2>1. call[c].op = "start" /\ c = Changer /\ ~Above(state)
    BY <1>0, <1>3 DEF OpenDvr, Placed, Calls, Ops, Phases, Above
  <2>2. UNCHANGED fd_frontend
    BY <1>3 DEF OpenDvr
  <2>3. CASE state' = "paused" /\ Return(c)
    <3>1. ~dvr /\ dvr' = TRUE /\ fd_dvr' = "open" /\ UNCHANGED stranded
      BY <1>3, <2>1, <2>3 DEF OpenDvr, Above
    <3> QED BY <2>1, <2>3, <3>1 DEF Devices, Above
  <2>4. CASE UNCHANGED state /\ call' = [call EXCEPT ![c] = Goto(c, "undo")]
    <3>1. call'[Changer].op = "start"
      BY <1>0, <1>1, <2>1, <2>4
    <3>2. (UNCHANGED <<dvr, stranded>>) \/ (dvr' = TRUE /\ stranded' = TRUE)
      BY <1>3, <2>1, <2>4 DEF OpenDvr, Above
    <3>3. ~Above(state') /\ call'[Changer].op # "pause"
      BY <2>1, <2>4, <3>1 DEF Above
    <3>4. dvr' \in BOOLEAN /\ stranded' \in BOOLEAN /\ (dvr' <=> stranded')
      <4>1. dvr \in BOOLEAN /\ stranded \in BOOLEAN /\ (dvr <=> stranded)
        BY <2>1 DEF Devices
      <4>2. CASE UNCHANGED <<dvr, stranded>>
        BY <4>1, <4>2
      <4>3. CASE dvr' = TRUE /\ stranded' = TRUE
        BY <4>3
      <4> QED BY <3>2, <4>2, <4>3
    <3> QED BY <3>1, <3>3, <3>4 DEF Devices
  <2> QED BY <1>3, <2>3, <2>4 DEF OpenDvr
<1>4. CASE UnlockStop(c)
  <2>1. call[c].op = "pause" /\ c = Changer
    BY <1>0, <1>4 DEF UnlockStop, Placed, Calls, Ops
  <2>2. Above(state) /\ Above(state') /\ UNCHANGED <<fd_frontend, fd_dvr, dvr, stranded>>
    BY <1>4, <2>1 DEF UnlockStop, deviceVars, Devices, Above
  <2> QED BY <2>2 DEF Devices
<1>5. CASE Undone(c)
  <2>1. call[c].op = "start" /\ c = Changer /\ ~Above(state)
    BY <1>0, <1>5 DEF Undone, Placed, Calls, Ops, Phases, Above
  <2>2. call'[Changer].op = "none" /\ fd_frontend' = "stale" /\ UNCHANGED <<state, fd_dvr, dvr, stranded>>
    BY <1>0, <1>2, <1>5, <2>1 DEF Undone, Return
  <2> QED BY <2>1, <2>2 DEF Devices, Above
<1>6. CASE Stopped(c)
  <2>1. call[c].op = "stop" /\ c = Changer /\ Above(state)
    BY <1>0, <1>6 DEF Stopped, Placed, Calls, Ops, Phases, Above
  <2>2. /\ call'[Changer].op = "none" /\ fd_frontend' = "none" /\ state' = "ready"
        /\ dvr' = FALSE /\ UNCHANGED stranded
    BY <1>0, <1>2, <1>6, <2>1 DEF Stopped, Return, Devices
  <2> QED BY <2>1, <2>2 DEF Devices, Above
<1>7. CASE \/ Check(c) \/ Unset(c) \/ Answer(c) \/ CloseFilter(c) \/ OpenFilter(c) \/ RefuseFilter(c)
           \/ AllSet(c) \/ TakesFrontend(c)
  <2>1. UNCHANGED <<state, deviceVars>>
    BY <1>7 DEF Check, Unset, Answer, HasLock, NoLock, CloseFilter, OpenFilter, RefuseFilter, AllSet,
                TakesFrontend, SetFrontend
  <2>2. CASE c = Changer /\ call[c].op = "start"
    <3>1. call'[c].op = "start"
      <4>1. CASE Unset(c) \/ CloseFilter(c) \/ OpenFilter(c) \/ RefuseFilter(c)
        BY <1>0, <2>2, <4>1 DEF Unset, CloseFilter, OpenFilter, RefuseFilter, NextFilter, Calls
      <4>2. CASE Check(c) \/ Answer(c) \/ AllSet(c) \/ TakesFrontend(c)
        BY <1>0, <1>1, <2>2, <4>2 DEF Check, Answer, HasLock, NoLock, AllSet, TakesFrontend, SetFrontend, Fails
      <4> QED BY <1>7, <4>1, <4>2
    <3> QED BY <2>1, <2>2, <3>1, OtherKeepsDevices
  <2>3. CASE c = Changer /\ call[c].op # "start"
    <3>1. call[c].at \in {"tune", "unset", "undo", "close", "tuning", "set"}
      BY <1>7 DEF Check, Unset, Answer, HasLock, NoLock, CloseFilter, OpenFilter, RefuseFilter, AllSet,
                  TakesFrontend, SetFrontend
    <3>2. call[c].op \in {"stop", "pids", "tune"}
      BY <1>0, <2>3, <3>1 DEF Placed, Calls, Ops
    <3>3. Above(state)
      BY <1>0, <3>2 DEF Phases
    <3> QED BY <2>1, <3>3, OtherKeepsDevices
  <2>4. CASE c # Changer
    <3>1. call'[Changer] = call[Changer]
      BY <1>0, <1>7, <2>4 DEF Check, Unset, Answer, HasLock, NoLock, CloseFilter, OpenFilter, RefuseFilter,
           NextFilter, AllSet, TakesFrontend, SetFrontend, Fails
    <3> QED BY <2>1, <3>1, OtherKeepsDevices
  <2> QED BY <2>2, <2>3, <2>4
<1> QED BY <1>3, <1>4, <1>5, <1>6, <1>7 DEF Proceed

LEMMA DevicesAlways == Spec => []DevicesHeld
<1>1. Init => DevicesHeld
  <2> SUFFICES ASSUME Init PROVE Devices
    BY DEF DevicesHeld
  <2>1. call[Changer].op = "none"
    BY DvbSrcAssumption DEF Init, Idle
  <2>2. /\ ~Above(state) /\ fd_frontend = "none" /\ dvr \in BOOLEAN /\ stranded \in BOOLEAN
        /\ ~dvr /\ ~stranded
    BY DEF Init, Above
  <2> QED BY <2>1, <2>2 DEF Devices
<1>2. SrcInv /\ DevicesHeld /\ [Next]_vars => DevicesHeld'
  <2> SUFFICES ASSUME SrcInv, DevicesHeld, [Next]_vars, ~raced' PROVE Devices'
    BY DEF DevicesHeld
  <2>1. CASE UNCHANGED vars
    BY <2>1, OtherKeepsDevices DEF vars, DevicesHeld
  <2>2. CASE Create \/ Streaming \/ ReadFails \/ SelectError \/ Feed
    <3>1. UNCHANGED <<state, deviceVars, call, raced>>
      BY <2>2 DEF Create, Streaming, Read, ReadFlushed, ReadFails, SelectError, Feed
    <3> QED BY <3>1, OtherKeepsDevices DEF DevicesHeld
  <2>3. ASSUME NEW c \in Callers, Call(c) PROVE Devices'
    <3>1. ~raced
      BY <2>3 DEF Call, NullToReady, ReadyToNull, Start, Play, Unlock, Stop, Tune, SetPids, Begin
    <3> QED BY <2>3, <3>1, CallKeepsDevices DEF DevicesHeld
  <2>4. ASSUME NEW c \in Callers, Proceed(c) \/ TakesFrontend(c) PROVE Devices'
    <3>1. ~raced
      BY <2>4 DEF Proceed, TakesFrontend, OpenDvr, UnlockStop, Check, Unset, Answer, HasLock, NoLock, CloseFilter,
                  OpenFilter, RefuseFilter, AllSet, Undone, Stopped, SetFrontend
    <3> QED BY <2>4, <3>1, ProceedKeepsDevices DEF DevicesHeld
  <2> QED BY <2>1, <2>2, <2>3, <2>4 DEF Next
<1> QED BY <1>1, <1>2, SrcAlways, PTL DEF Spec

\* Nothing is forgotten, whatever is called in whatever order and fails wherever: when no call goes
\* on, the filters that the driver has open are those that fd_filters names, each in one slot, and
\* below PAUSED there is none, the frontend is closed, and the dvr open exactly if a start that had
\* opened it failed.
THEOREM NoFilterIsLeft == Spec => []NothingLeft
<1>1. SrcInv /\ DevicesHeld => NothingLeft
  <2> SUFFICES ASSUME SrcInv, DevicesHeld, ~raced, Quiet PROVE NothingLeft
    BY DEF NothingLeft
  <2>1. Types /\ Calling /\ OneSlotEach /\ OpenUnlessStale /\ OpenIsNamed /\ RestIsEmpty
    BY DEF SrcInv, Safe, Filters, Tuned
  <2>2. \A i \in Slots : ~Stale(i)
    BY <2>1, WaitingIsIdle DEF Stale, Quiet, Busy, Types
  <2>3. \A i \in Slots : fd_filters[i] # None => fd_filters[i] \in Open
    BY <2>1, <2>2 DEF OpenUnlessStale, Open, Types
  <2>4. \A h \in Open : h # None /\ \E i \in Slots : fd_filters[i] = h
    BY <2>1, DvbSrcAssumption DEF OpenIsNamed, Open
  <2>5. Open = {fd_filters[i] : i \in Slots} \ {None}
    BY <2>3, <2>4
  <2>6. ~Above(state) => Open = {}
    BY <2>1, <2>4 DEF RestIsEmpty, AtRest
  <2>7. ~Above(state) => fd_frontend # "open" /\ (dvr <=> stranded)
    BY DvbSrcAssumption DEF DevicesHeld, Devices, Quiet, FilterCalls
  <2> QED BY <2>1, <2>5, <2>6, <2>7 DEF NothingLeft, OneSlotEach
<1> QED BY <1>1, SrcAlways, DevicesAlways, PTL

\* After a tune that succeeded every PID of the list that the driver took gets through its filter.
THEOREM PidsGetThrough == Spec => []Requested
<1>1. SrcInv => Requested
  <2> SUFFICES ASSUME SrcInv, ~raced, Quiet, tuned, NEW i \in 1 .. Len(pids), i \notin refused
               PROVE  Through(i)
    BY DEF Requested, Through
  <2>1. Types /\ Calling /\ ClaimedGetThrough
    BY DEF SrcInv, Safe, Tuned
  <2>2. Claimed(i)
    BY <2>1, WaitingIsIdle DEF Claimed, Quiet, Busy, Types, Unsetting
  <2> QED BY <2>1, <2>2 DEF ClaimedGetThrough
<1> QED BY <1>1, SrcAlways, PTL
-----------------------------------------------------------------------------
(* The choice of the delivery system *)

LEMMA LastIsOne ==
  ASSUME NEW ds \in SUBSET Listed, ds # {}
  PROVE  LastListed(ds) \in ds
<1> DEFINE S == {i \in 1 .. Len(DelsysOrder) : DelsysOrder[i] \in ds}
<1>1. Len(DelsysOrder) \in Nat
  BY DEF DelsysOrder
<1>2. S \in SUBSET (1 .. Len(DelsysOrder)) /\ S # {}
  BY DEF Listed
<1>3. Max(S) \in S
  <2> HIDE DEF S
  <2> QED BY <1>1, <1>2, GreatestExists
<1> QED BY <1>3 DEF LastListed

LEMMA ListedIsFinite == IsFiniteSet(Listed)
<1> DEFINE f == [i \in 1 .. Len(DelsysOrder) |-> DelsysOrder[i]]
<1>1. Len(DelsysOrder) \in Nat
  BY DEF DelsysOrder
<1>2. IsFiniteSet(1 .. Len(DelsysOrder))
  BY <1>1, FS_Interval
<1>3. f \in Surjection(1 .. Len(DelsysOrder), Listed)
  BY DEF Surjection, Listed
<1> QED BY <1>2, <1>3, FS_Surjection

\* gst_dvbsrc_guess_delsys: a system of the list, and one that allows the settings if any does.
LEMMA GuessIsGood ==
  ASSUME NEW supported \in SUBSET Listed, supported # {}, NEW s
  PROVE  /\ Guess(supported, s) \in supported
         /\ (\E d \in supported : IsValid(d, s)) => IsValid(Guess(supported, s), s)
<1> DEFINE valid == {d \in supported : IsValid(d, s)}
<1>1. LastListed(supported) \in supported
  BY LastIsOne
<1>2. valid # {} => LastListed(valid) \in valid
  <2>1. valid \in SUBSET Listed
    OBVIOUS
  <2> HIDE DEF valid
  <2> QED BY <2>1, LastIsOne
<1>3. CASE valid = {}
  <2>1. Guess(supported, s) = LastListed(supported)
    BY <1>3 DEF Guess
  <2> QED BY <1>1, <1>3, <2>1
<1>4. CASE valid # {} /\ Cardinality(supported) = 1
  <2>1. IsFiniteSet(supported)
    BY ListedIsFinite, FS_Subset
  <2>2. PICK d : supported = {d}
    BY <1>4, <2>1, FS_Singleton
  <2>3. Guess(supported, s) = LastListed(supported)
    BY <1>4 DEF Guess
  <2>4. LastListed(supported) = d /\ IsValid(d, s)
    BY <1>1, <1>4, <2>2
  <2> QED BY <1>1, <2>3, <2>4
<1>5. CASE valid # {} /\ Cardinality(supported) # 1 /\ {"DVBT", "DVBT2"} \subseteq valid
  <2>1. Guess(supported, s) = "DVBT"
    BY <1>5 DEF Guess
  <2> QED BY <1>5, <2>1
<1>6. CASE valid # {} /\ Cardinality(supported) # 1 /\ ~({"DVBT", "DVBT2"} \subseteq valid)
  <2>1. Guess(supported, s) = LastListed(valid)
    BY <1>6 DEF Guess
  <2> QED BY <1>2, <1>6, <2>1
<1> QED BY <1>3, <1>4, <1>5, <1>6

\* What the list of systems can be: that of an adapter, or not there.
Supporting == supported_delsys \in Adapters \cup {{}}

LEMMA SupportingAlways == Spec => []Supporting
<1>1. Init => Supporting
  BY DEF Init, Supporting
<1>2. Supporting /\ [Next]_vars => Supporting'
  <2> SUFFICES ASSUME Supporting, [Next]_vars PROVE Supporting'
    OBVIOUS
  <2> USE DEF Supporting, deviceVars, FrontendOpens, FrontendFails
  <2>1. CASE UNCHANGED vars
    BY <2>1 DEF vars
  <2>2. CASE Create \/ Streaming \/ ReadFails \/ SelectError \/ Feed
    BY <2>2 DEF Create, Streaming, Read, ReadFlushed, ReadFails, SelectError, Feed
  <2>3. ASSUME NEW c \in Callers, Call(c) PROVE Supporting'
    BY <2>3 DEF Call, NullToReady, ReadyToNull, Start, Play, Unlock, Stop, Tune, SetPids
  <2>4. ASSUME NEW c \in Callers, Proceed(c) \/ TakesFrontend(c) PROVE Supporting'
    BY <2>4 DEF Proceed, TakesFrontend, OpenDvr, UnlockStop, Check, Unset, Answer, HasLock, NoLock, CloseFilter,
                OpenFilter, RefuseFilter, AllSet, Undone, Stopped, SetFrontend
  <2> QED BY <2>1, <2>2, <2>3, <2>4 DEF Next
<1> QED BY <1>1, <1>2, PTL DEF Spec

\* The system that is guessed is one of the adapter's, and one that allows the channel's settings if
\* any of them does, for any adapter and any settings.
THEOREM GuessAlwaysFits == Spec => GuessFits
<1> DEFINE Fits == delsys' # delsys =>
                     /\ delsys' \in supported_delsys
                     /\ (\E d \in supported_delsys : IsValid(d, guessed_for')) => IsValid(delsys', guessed_for')
<1>1. Supporting /\ [Next]_vars => [Fits]_vars
  <2> SUFFICES ASSUME Supporting, Next, delsys' # delsys PROVE Fits
    BY DEF vars, delsysVars
  <2>1. ASSUME NEW c \in Callers, NEW s \in Channels, SetFrontend(c, s) PROVE Fits
    <3>1. delsys = Undefined /\ delsys' = Guess(supported_delsys, s) /\ guessed_for' = s /\ supported_delsys # {}
      BY <2>1 DEF SetFrontend
    <3>2. supported_delsys \in SUBSET Listed
      BY <3>1, AdaptersAssumption DEF Supporting
    <3> QED BY <3>1, <3>2, GuessIsGood
  <2>2. ASSUME NEW c \in Callers, Call(c) \/ Proceed(c) PROVE delsys' = delsys
    BY <2>2 DEF delsysVars, Call, NullToReady, ReadyToNull, Start, Play, Unlock, Stop, Tune, SetPids, Proceed,
                OpenDvr, UnlockStop, Check, Unset, Answer, HasLock, NoLock, CloseFilter, OpenFilter,
                RefuseFilter, AllSet, Undone, Stopped
  <2>3. Create \/ Streaming \/ ReadFails \/ SelectError \/ Feed => delsys' = delsys
    BY DEF delsysVars, Create, Streaming, Read, ReadFlushed, ReadFails, SelectError, Feed
  <2> QED BY <2>1, <2>2, <2>3 DEF Next, TakesFrontend
<1> QED BY <1>1, SupportingAlways, PTL DEF Spec, GuessFits
=============================================================================
