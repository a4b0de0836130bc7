------------------------------- MODULE DvbSrc -------------------------------
(***************************************************************************)
(* dvbsrc (gst-dvb/gstdvbsrc.c): the descriptors of the frontend, the dvr  *)
(* and the demux filters, the tune mutex, and the threads that use them.   *)
(* A caller changes the state of the element, tunes it or sets its PIDs    *)
(* (the application, and the thread on which the base bin hears of a PMT); *)
(* state changes wait for each other, nothing else does.  The streaming    *)
(* thread holds the mutex while it reads.  A loop over the filters is two  *)
(* steps per filter, the close and the assignment after it.                *)
(*                                                                         *)
(* kernel is the driver's side of the filters.  raced is history: calls    *)
(* that touch the filters have overlapped, which nothing in the code       *)
(* prevents, and then filters get lost or are closed twice.  stranded is   *)
(* history too: a start that opened the dvr device and then failed does    *)
(* not close it, and as the device can be open only once, every later      *)
(* start fails, and writes over the only number by which it could be       *)
(* closed.                                                                 *)
(***************************************************************************)
EXTENDS Integers, Sequences, FiniteSets, FiniteSetsExt

CONSTANTS
  Callers,
  Changer,      \* the one that changes the state: the element lets one do so at a time
  Handles,      \* descriptors for demux filters; open takes the lowest
  MaxFilters,   \* MAX_FILTERS
  Always,       \* PAT and CAT
  Requests,     \* values of the property pids
  Adapters,     \* the delivery systems of each adapter
  Channels,     \* modulation, transmission mode and bandwidth
  ReadSize,     \* what a buffer holds, in reads
  Source, None, Undefined,
  MaxFaults     \* opens and ioctls that fail

WholeTS == <<8192>>

ASSUME DvbSrcAssumption ==
  /\ Changer \in Callers /\ Handles \subseteq Nat /\ MaxFilters \in Nat \ {0} /\ ReadSize \in Nat \ {0}
  /\ Always \in Seq(Nat) /\ Len(Always) <= MaxFilters
  /\ \A a \in Adapters : a # {} /\ Undefined \notin a
  /\ None \notin Handles \cup Callers \cup {Source} /\ Source \notin Callers

VARIABLES
  state,        \* of the element
  call,         \* what each caller is doing
  pids, fd_filters,
  fd_frontend,  \* "none", "open", or "stale": closed, but the number kept
  fd_dvr, dvr,  \* the element's descriptor, and whether the device is open
  stranded,     \* history: a start that failed has opened the dvr device
  delsys, supported_delsys,
  guessed_for,  \* history: the channel for which delsys was guessed
  tune_mutex,
  src,          \* the streaming thread: "off", "wait" for the mutex, "read"
  count, flushing,
  kernel, tuned, data, \* the driver: filters, lock of the frontend, packets to read
  refused,      \* filters that the driver did not take
  faults, raced

delsysVars == <<delsys, guessed_for>>
filterVars == <<fd_filters, kernel, refused>>
deviceVars == <<fd_frontend, fd_dvr, dvr, stranded, supported_delsys>>
srcVars == <<src, count, flushing, data>>
vars == <<state, call, pids, filterVars, deviceVars, delsysVars, tune_mutex, srcVars, tuned, faults, raced>>

Slots == 1 .. MaxFilters

Free == -1
Unbound == -2 \* open, but without a PID

Idle == [op |-> "none", at |-> "idle", slot |-> 1, shut |-> FALSE]
-----------------------------------------------------------------------------
(* The parameters of the frontend *)

OfModulation(d) ==
  CASE d = "ISDBT" -> {"AUTO", "QPSK", "QAM_16", "QAM_64", "DQPSK"}
    [] d = "ATSC" -> {"VSB_8", "VSB_16"}
    [] d = "DVBT" -> {"QPSK", "QAM_16", "QAM_64"}
    [] d = "DVBT2" -> {"QPSK", "QAM_16", "QAM_64", "QAM_256"}

IsValidModulation(d, s) == d \in {"ISDBT", "ATSC", "DVBT", "DVBT2"} => s.modulation \in OfModulation(d)

IsValidTransMode(d, s) ==
  /\ d = "DVBT" => s.mode \in {"AUTO", "2K", "8K"}
  /\ d = "DVBT2" => s.mode \in {"AUTO", "1K", "2K", "4K", "8K", "16K", "32K"}
  /\ d = "DTMB" => s.mode \in {"AUTO", "C1", "C3780"}

\* 0 means auto.  1172000 is what the code has for 1.712 MHz.
IsValidBandwidth(d, s) ==
  /\ d = "DVBT" => s.bandwidth \in {0, 6000000, 7000000, 8000000}
  /\ d = "DVBT2" => s.bandwidth \in {0, 1172000, 5000000, 6000000, 7000000, 8000000, 10000000}
  /\ d = "ISDBT" => s.bandwidth \in {0, 6000000}

IsValid(d, s) == IsValidModulation(d, s) /\ IsValidTransMode(d, s) /\ IsValidBandwidth(d, s)

\* The order in which open_frontend puts them into the list.
DelsysOrder ==
  <<"DVBC_A", "DVBC_B", "DVBT", "DSS", "DVBS", "DVBS2", "DVBH", "ISDBT", "ISDBS", "ISDBC",
    "ATSC", "ATSCMH", "DTMB", "CMMB", "DAB", "DVBT2", "TURBO", "DVBC_C">>

\* open_frontend puts no other system into the list.
Listed == {DelsysOrder[i] : i \in 1 .. Len(DelsysOrder)}

ASSUME AdaptersAssumption == \A a \in Adapters : a \subseteq Listed

LastListed(ds) == DelsysOrder[Max({i \in 1 .. Len(DelsysOrder) : DelsysOrder[i] \in ds})]

\* mutant: the parameters are not looked at
GuessLast(supported, s) == LastListed(supported)

\* gst_dvbsrc_guess_delsys
Guess(supported, s) ==
  LET valid == {d \in supported : IsValid(d, s)}
  IN CASE Cardinality(supported) = 1 \/ valid = {} -> LastListed(supported)
       [] Cardinality(supported) # 1 /\ {"DVBT", "DVBT2"} \subseteq valid -> "DVBT"
       [] OTHER -> LastListed(valid)

\* The systems of the switch in set_fe_params; for others it fails.
Handled == {"DVBS", "DVBS2", "TURBO", "DVBT", "DVBT2", "DVBC_A", "DVBC_B", "DVBC_C", "ATSC", "ISDBT", "DTMB"}
-----------------------------------------------------------------------------
\* What set_pids takes from the list.
ValidPids(request) == SelectSeq(request, LAMBDA pid : pid > 1 /\ pid <= 8192)

ASSUME RequestsAssumption == \A request \in Requests : ValidPids(request) \in Seq(Nat)

\* PIDs of a request: "8192", or PAT and CAT and the valid ones of the list.
Parsed(request) ==
  IF request = WholeTS THEN WholeTS
  ELSE LET all == Always \o ValidPids(request)
       IN SubSeq(all, 1, Min({MaxFilters, Len(all)}))

FilterCalls == {"start", "stop", "tune", "pids"}

IsIdle(c) == call[c].at = "idle"

Others(c) == Callers \ {c}

\* Bound: once calls have overlapped they only go on to their ends.
CanCall(c) == IsIdle(c) /\ ~raced

CanChange(c) == CanCall(c) /\ c = Changer

Overlaps(c) == \E d \in Others(c) : call[d].op \in FilterCalls

Begin(c, op, at) ==
  /\ call' = [call EXCEPT ![c] = [Idle EXCEPT !.op = op, !.at = at]]
  /\ raced' = (raced \/ (op \in FilterCalls /\ Overlaps(c)))

Goto(c, at) == [call[c] EXCEPT !.at = at, !.slot = 1, !.shut = FALSE]

Return(c) == call' = [call EXCEPT ![c] = Idle]

Above(s) == s \in {"paused", "playing"}

\* mutant: only the filters of the current list
UnsetListed == 1 .. Len(pids)

\* Of each slot the descriptor is closed, then -1 written.
UnsetSlots == Slots

Closed(h) == IF h = None THEN kernel ELSE [kernel EXCEPT ![h] = Free]
-----------------------------------------------------------------------------
(* State changes *)

\* open_frontend: its ioctls come only if the list of systems is not there yet.
FrontendOpens ==
  /\ faults' = faults
  /\ IF supported_delsys = {} THEN supported_delsys' \in Adapters ELSE UNCHANGED supported_delsys

FrontendFails(fd) ==
  /\ faults < MaxFaults /\ faults' = faults + 1
  /\ fd = "none" \/ (fd = "stale" /\ supported_delsys = {})
  /\ fd_frontend' = fd /\ UNCHANGED supported_delsys

\* NULL to READY opens the frontend and closes it again.
NullToReady(c) ==
  /\ CanChange(c) /\ state = "null"
  /\ \/ FrontendOpens /\ fd_frontend' = "stale" /\ state' = "ready"
     \/ (\E fd \in {"none", "stale"} : FrontendFails(fd)) /\ UNCHANGED state
  /\ UNCHANGED <<call, pids, filterVars, fd_dvr, dvr, stranded, delsysVars, tune_mutex, srcVars, tuned, raced>>

ReadyToNull(c) ==
  /\ CanChange(c) /\ state = "ready"
  /\ state' = "null"
  /\ UNCHANGED <<call, pids, filterVars, deviceVars, delsysVars, tune_mutex, srcVars, tuned, faults, raced>>

\* gst_dvbsrc_start
Start(c) ==
  /\ CanChange(c) /\ state = "ready"
  /\ \/ FrontendOpens /\ fd_frontend' = "open" /\ Begin(c, "start", "tune")
     \/ (\E fd \in {"none", "stale"} : FrontendFails(fd)) /\ UNCHANGED <<call, raced>>
  /\ UNCHANGED <<state, pids, filterVars, fd_dvr, dvr, stranded, delsysVars, tune_mutex, srcVars, tuned>>

\* gst_dvbsrc_open_dvr and the poll; the device can be open only once.
OpenDvr(c) ==
  /\ call[c].at = "dvr"
  /\ \/ /\ ~dvr
        /\ dvr' = TRUE /\ fd_dvr' = "open" /\ state' = "paused"
        /\ flushing' = FALSE /\ data' = 0
        /\ Return(c)
        /\ UNCHANGED <<stranded, faults>>
     \/ /\ dvr \/ faults < MaxFaults
        /\ faults' = (IF dvr THEN faults ELSE faults + 1)
        /\ \/ fd_dvr' = "none" /\ UNCHANGED <<dvr, stranded>>
           \/ ~dvr /\ fd_dvr' = "open" /\ dvr' = TRUE /\ stranded' = TRUE \* DMX_SET_BUFFER_SIZE, or gst_poll_new
        /\ call' = [call EXCEPT ![c] = Goto(c, "undo")]
        /\ UNCHANGED <<state, flushing, data>>
  /\ UNCHANGED <<pids, filterVars, fd_frontend, supported_delsys, delsysVars, tune_mutex, src, count,
                 tuned, raced>>

\* A live source streams in PLAYING only.
Play(c) ==
  /\ CanChange(c) /\ state = "paused"
  /\ state' = "playing" /\ src' = "wait"
  /\ UNCHANGED <<call, pids, filterVars, deviceVars, delsysVars, tune_mutex, count, flushing, data, tuned,
                 faults, raced>>

\* gst_dvbsrc_unlock, until the streaming thread is out of create; then unlock_stop.
Unlock(c) ==
  /\ CanChange(c) /\ state = "playing"
  /\ Begin(c, "pause", "flush")
  /\ flushing' = TRUE
  /\ UNCHANGED <<state, pids, filterVars, deviceVars, delsysVars, tune_mutex, src, count, data, tuned, faults>>

UnlockStop(c) ==
  /\ call[c].at = "flush" /\ src = "off"
  /\ flushing' = FALSE /\ state' = "paused"
  /\ Return(c)
  /\ UNCHANGED <<pids, filterVars, deviceVars, delsysVars, tune_mutex, src, count, data, tuned, faults, raced>>

Stop(c) ==
  /\ CanChange(c) /\ state = "paused"
  /\ Begin(c, "stop", "close")
  /\ UNCHANGED <<state, pids, filterVars, deviceVars, delsysVars, tune_mutex, srcVars, tuned, faults>>
-----------------------------------------------------------------------------
(* Tuning and filters *)

\* The signal tune, or the property.
Tune(c) ==
  /\ CanCall(c) /\ Above(state)
  /\ Begin(c, "tune", "tune")
  /\ UNCHANGED <<state, pids, filterVars, deviceVars, delsysVars, tune_mutex, srcVars, tuned, faults>>

\* Where gst_dvbsrc_tune fails: start goes to its label.
Fails(c) == call' = [call EXCEPT ![c] = IF call[c].op = "start" THEN Goto(c, "undo") ELSE Idle]

\* The top of tune_fe.
Check(c) ==
  /\ call[c].at = "tune"
  /\ IF fd_frontend = "none" \/ (delsys # Undefined /\ delsys \notin supported_delsys)
     THEN Fails(c)
     ELSE call' = [call EXCEPT ![c] = Goto(c, "unset")]
  /\ UNCHANGED <<state, pids, filterVars, deviceVars, delsysVars, tune_mutex, srcVars, tuned, faults, raced>>

\* unset_pes_filters: before tuning, when start fails, in close_devices.
Unset(c) ==
  LET i == call[c].slot IN
  /\ call[c].at \in {"unset", "undo", "close"} /\ i \in UnsetSlots
  /\ IF fd_filters[i] # None /\ ~call[c].shut
     THEN /\ kernel' = Closed(fd_filters[i])
          /\ call' = [call EXCEPT ![c].shut = TRUE]
          /\ UNCHANGED <<fd_filters, refused>>
     ELSE /\ fd_filters' = [fd_filters EXCEPT ![i] = None]
          /\ refused' = refused \ {i}
          /\ call' = [call EXCEPT ![c].slot = i + 1, ![c].shut = FALSE]
          /\ UNCHANGED kernel
  /\ UNCHANGED <<state, pids, deviceVars, delsysVars, tune_mutex, srcVars, tuned, faults, raced>>

AllUnset(c) == call[c].slot \notin UnsetSlots

\* The mutex, DTV_CLEAR, set_fe_params and FE_SET_PROPERTY.  A guess stays for later tunes.
SetFrontend(c, s) ==
  LET d == IF delsys = Undefined THEN Guess(supported_delsys, s) ELSE delsys IN
  /\ call[c].at = "unset" /\ AllUnset(c) /\ tune_mutex = None
  /\ delsys = Undefined => supported_delsys # {}
  /\ delsys' = d /\ guessed_for' = (IF delsys = Undefined THEN s ELSE guessed_for)
  /\ tuned' = FALSE
  /\ \/ d \in Handled /\ tune_mutex' = c /\ call' = [call EXCEPT ![c] = Goto(c, "tuning")] /\ faults' = faults
     \/ d \notin Handled /\ Fails(c) /\ UNCHANGED <<tune_mutex, faults>>
     \/ /\ d \in Handled /\ faults < MaxFaults
        /\ faults' = faults + 1 /\ Fails(c) /\ UNCHANGED tune_mutex
  /\ UNCHANGED <<state, pids, filterVars, deviceVars, srcVars, raced>>

HasLock(c) ==
  /\ call[c].at = "tuning"
  /\ fd_frontend = "open"
  /\ tune_mutex' = None /\ tuned' = TRUE
  /\ call' = [call EXCEPT ![c] = Goto(c, "set")]
  /\ UNCHANGED <<state, pids, filterVars, deviceVars, delsysVars, srcVars, faults, raced>>

\* mutant: the label fail_with_signal keeps the mutex
NoLockHeld(c) ==
  /\ call[c].at = "tuning"
  /\ Fails(c)
  /\ UNCHANGED <<state, pids, filterVars, deviceVars, delsysVars, tune_mutex, srcVars, tuned, faults, raced>>

\* tuning_timeout is over, or the status cannot be read.
NoLock(c) ==
  /\ call[c].at = "tuning"
  /\ tune_mutex' = None
  /\ Fails(c)
  /\ UNCHANGED <<state, pids, filterVars, deviceVars, delsysVars, srcVars, tuned, faults, raced>>

\* gst_dvbsrc_set_pids
SetPids(c, request) ==
  /\ CanCall(c)
  /\ pids' = Parsed(request)
  /\ IF Above(state) THEN call' = [call EXCEPT ![c] = [Idle EXCEPT !.op = "pids", !.at = "set"]]
                     ELSE UNCHANGED call
  /\ raced' = (raced \/ (\E d \in Others(c) : call[d].at \in {"set", "dvr"}) \/ (Above(state) /\ Overlaps(c)))
  /\ UNCHANGED <<state, filterVars, deviceVars, delsysVars, tune_mutex, srcVars, tuned, faults>>

\* set_pes_filters: the old descriptor of a slot ...
CloseFilter(c) ==
  LET i == call[c].slot IN
  /\ call[c].at = "set" /\ i <= Len(pids) /\ ~call[c].shut
  /\ kernel' = Closed(fd_filters[i])
  /\ call' = [call EXCEPT ![c].shut = TRUE]
  /\ UNCHANGED <<state, pids, fd_filters, refused, deviceVars, delsysVars, tune_mutex, srcVars, tuned, faults, raced>>

\* mutant: break for continue
NextFilterOfNone(c) == [call EXCEPT ![c].slot = Len(pids) + 1, ![c].shut = FALSE]

NextFilter(c) == [call EXCEPT ![c].slot = @ + 1, ![c].shut = FALSE]

FreeHandles == {h \in Handles : kernel[h] = Free}

\* ... and the new one.
OpenFilter(c) ==
  LET i == call[c].slot
      h == Min(FreeHandles)
  IN
  /\ call[c].at = "set" /\ i <= Len(pids) /\ call[c].shut
  /\ FreeHandles # {}
  /\ fd_filters' = [fd_filters EXCEPT ![i] = h]
  /\ \/ kernel' = [kernel EXCEPT ![h] = pids[i]] /\ refused' = refused \ {i} /\ UNCHANGED faults
     \/ /\ faults < MaxFaults /\ faults' = faults + 1
        /\ kernel' = [kernel EXCEPT ![h] = Unbound] /\ refused' = refused \cup {i}
  /\ call' = [call EXCEPT ![c].slot = i + 1, ![c].shut = FALSE]
  /\ UNCHANGED <<state, pids, deviceVars, delsysVars, tune_mutex, srcVars, tuned, raced>>

\* 'Error opening demuxer'
RefuseFilter(c) ==
  LET i == call[c].slot IN
  /\ call[c].at = "set" /\ i <= Len(pids) /\ call[c].shut
  /\ FreeHandles = {} \/ faults < MaxFaults
  /\ faults' = (IF FreeHandles = {} THEN faults ELSE faults + 1)
  /\ fd_filters' = [fd_filters EXCEPT ![i] = None]
  /\ refused' = refused \cup {i}
  /\ call' = NextFilter(c)
  /\ UNCHANGED <<state, pids, kernel, deviceVars, delsysVars, tune_mutex, srcVars, tuned, raced>>

AllSet(c) ==
  /\ call[c].at = "set" /\ call[c].slot > Len(pids)
  /\ call' = [call EXCEPT ![c] = IF call[c].op = "start" THEN Goto(c, "dvr") ELSE Idle]
  /\ UNCHANGED <<state, pids, filterVars, deviceVars, delsysVars, tune_mutex, srcVars, tuned, faults, raced>>

\* The label fail of start: the number of the frontend's descriptor stays, and that of the dvr.
Undone(c) ==
  /\ call[c].at = "undo" /\ AllUnset(c)
  /\ fd_frontend' = "stale" /\ tuned' = FALSE
  /\ Return(c)
  /\ UNCHANGED <<state, pids, filterVars, fd_dvr, dvr, stranded, supported_delsys, delsysVars, tune_mutex, srcVars,
                 faults, raced>>

\* close_devices, and stop.
Stopped(c) ==
  /\ call[c].at = "close" /\ AllUnset(c)
  /\ fd_frontend' = "none" /\ fd_dvr' = "none"
  /\ dvr' = (dvr /\ fd_dvr # "open")
  /\ supported_delsys' = {}
  /\ tuned' = FALSE /\ data' = 0 /\ state' = "ready"
  /\ Return(c)
  /\ UNCHANGED <<pids, filterVars, stranded, delsysVars, tune_mutex, src, count, flushing, faults, raced>>
-----------------------------------------------------------------------------
(* The streaming thread *)

\* gst_dvbsrc_create
Create ==
  /\ src = "wait" /\ tune_mutex = None
  /\ tune_mutex' = Source /\ src' = "read" /\ count' = 0
  /\ UNCHANGED <<state, call, pids, filterVars, deviceVars, delsysVars, flushing, data, tuned, faults, raced>>

Leave(next) == tune_mutex' = None /\ src' = next /\ count' = 0

\* read_device goes on until the buffer is full; a timeout is only told.
Read ==
  /\ src = "read" /\ ~flushing /\ data > 0
  /\ data' = 0
  /\ IF count + 1 < ReadSize THEN count' = count + 1 /\ UNCHANGED <<tune_mutex, src>>
                             ELSE Leave("wait")
  /\ UNCHANGED <<state, call, pids, filterVars, deviceVars, delsysVars, flushing, tuned, faults, raced>>

\* The driver's buffer has overflown: told, and read again.
ReadFails ==
  /\ src = "read" /\ ~flushing /\ data > 0 /\ faults < MaxFaults
  /\ faults' = faults + 1 /\ data' = 0
  /\ UNCHANGED <<state, call, pids, filterVars, deviceVars, delsysVars, tune_mutex, src, count, flushing, tuned, raced>>

\* Label stopped: GST_FLOW_FLUSHING.
ReadFlushed ==
  /\ src = "read" /\ flushing
  /\ Leave("off")
  /\ UNCHANGED <<state, call, pids, filterVars, deviceVars, delsysVars, flushing, data, tuned, faults, raced>>

\* Label select_error.
SelectError ==
  /\ src = "read" /\ faults < MaxFaults
  /\ faults' = faults + 1 /\ Leave("off")
  /\ UNCHANGED <<state, call, pids, filterVars, deviceVars, delsysVars, flushing, data, tuned, raced>>

\* The driver has packets when there is a signal and a filter with a PID.
Flows == tuned /\ dvr /\ \E h \in Handles : kernel[h] \notin {Free, Unbound}

Feed ==
  /\ Flows /\ data = 0 /\ src # "off"
  /\ data' = 1
  /\ UNCHANGED <<state, call, pids, filterVars, deviceVars, delsysVars, tune_mutex, src, count, flushing, tuned, faults, raced>>
-----------------------------------------------------------------------------
Init ==
  /\ state = "null" /\ call = [c \in Callers |-> Idle]
  /\ pids = WholeTS /\ fd_filters = [i \in Slots |-> None]
  /\ fd_frontend = "none" /\ fd_dvr = "none" /\ dvr = FALSE /\ stranded = FALSE
  /\ delsys = Undefined /\ guessed_for = None /\ supported_delsys = {}
  /\ tune_mutex = None /\ src = "off" /\ count = 0 /\ flushing = FALSE
  /\ kernel = [h \in Handles |-> Free] /\ tuned = FALSE /\ data = 0
  /\ refused = {} /\ faults = 0 /\ raced = FALSE

Call(c) ==
  \/ NullToReady(c) \/ ReadyToNull(c) \/ Start(c) \/ Play(c) \/ Unlock(c) \/ Stop(c)
  \/ Tune(c) \/ \E request \in Requests : SetPids(c, request)

Answer(c) == HasLock(c) \/ NoLock(c)

Proceed(c) ==
  \/ OpenDvr(c) \/ UnlockStop(c) \/ Check(c) \/ Unset(c) \/ Answer(c)
  \/ CloseFilter(c) \/ OpenFilter(c) \/ RefuseFilter(c) \/ AllSet(c) \/ Undone(c) \/ Stopped(c)

TakesFrontend(c) == \E s \in Channels : SetFrontend(c, s)

Streaming == Read \/ ReadFlushed

Next ==
  \/ \E c \in Callers : Call(c) \/ Proceed(c) \/ TakesFrontend(c)
  \/ Create \/ Streaming \/ ReadFails \/ SelectError \/ Feed

Spec == Init /\ [][Next]_vars

\* Threads run, the mutex does not pass anybody over for ever, and a signal brings packets.
Fairness ==
  /\ \A c \in Callers : WF_vars(Proceed(c)) /\ SF_vars(TakesFrontend(c))
  /\ SF_vars(Create) /\ WF_vars(Streaming) /\ WF_vars(Feed)

FairSpec == Spec /\ Fairness
-----------------------------------------------------------------------------
Quiet == \A c \in Callers : call[c].op \notin FilterCalls

Open == {h \in Handles : kernel[h] # Free}

\* Nothing is forgotten: the filters that the driver has open are those that fd_filters names, each
\* in one slot, and below PAUSED no device is open, however start failed - except the dvr, and it
\* exactly when a start failed that had opened it.
NothingLeft ==
  ~raced /\ Quiet =>
    /\ Open = {fd_filters[i] : i \in Slots} \ {None}
    /\ \A i, j \in Slots : fd_filters[i] = fd_filters[j] /\ i # j => fd_filters[i] = None
    /\ ~Above(state) => Open = {} /\ fd_frontend # "open" /\ (dvr <=> stranded)

\* After a tune that succeeded every PID asked for last, but one that the driver refused, gets
\* through, whatever lists came before and whichever filters were refused.
Requested ==
  ~raced /\ Quiet /\ tuned =>
    \A i \in 1 .. Len(pids) : i \notin refused =>
      fd_filters[i] # None /\ kernel[fd_filters[i]] = pids[i]

\* A call returns, even if calls overlap.  But tuning waits for ever for a reader that waits for
\* packets, when there is no signal or tuning itself has just taken the filters away.
Returns ==
  \A c \in Callers :
    ~IsIdle(c) ~> (IsIdle(c) \/ (call[c].at = "unset" /\ tune_mutex = Source /\ ~Flows))

\* The system that is guessed is one of the adapter's, and it allows the settings of the channel
\* if any does.  It is guessed once: a later channel may need another one and not get it.
GuessFits ==
  [][delsys' # delsys =>
       /\ delsys' \in supported_delsys
       /\ (\E d \in supported_delsys : IsValid(d, guessed_for')) => IsValid(delsys', guessed_for')]_vars
=============================================================================
