----------------------------- MODULE DvbBaseBin -----------------------------
(***************************************************************************)
(* The bin that puts a tuner, a parser and a CAM together                  *)
(* (gst-dvb/dvbbasebin.c).  Three threads meet in it, and nothing but the  *)
(* start and the stop of the CAM task is locked:                           *)
(*   - the streaming thread of tsparse, whose PAT and PMT messages decide  *)
(*     which PIDs dvbsrc filters and which PMTs the CAM should know;       *)
(*   - the CAM task, which sends the list of PMTs when it has changed;     *)
(*   - the application: program numbers and state changes.                 *)
(* A PAT is handled in one step.  The handling of a PMT is cut where the   *)
(* CAM task can tell: the old PMT leaves the list, the new one enters it,  *)
(* pmtlist_changed is set.                                                 *)
(***************************************************************************)
EXTENDS Integers, Sequences, FiniteSets, Lists

CONSTANTS
  Programs,     \* program numbers
  Pids,         \* PIDs of the transport stream
  NoPid,        \* G_MAXUINT16
  InitialPids,  \* initial_pids
  Pats,         \* the PATs that may arrive: functions from programs to PMT PIDs
  Pmts,         \* the PMTs that may arrive
  MaxSections,  \* bound: PATs and PMTs
  MaxFaults,    \* bound: CA PMTs that are lost on their way
  MaxRestarts   \* bound: changes from READY to PAUSED

ASSUME BaseBinAssumption ==
  /\ IsFiniteSet(Programs)
  /\ Programs \cap {"head", "freed"} = {}
  /\ NoPid \notin Pids /\ InitialPids \subseteq Pids
  /\ Pmts \subseteq [pcr : Pids, streams : SUBSET Pids]
  /\ \A t \in Pats : DOMAIN t \subseteq Programs /\ \A p \in DOMAIN t : t[p] \in Pids
  /\ MaxSections \in Nat /\ MaxFaults \in Nat /\ MaxRestarts \in Nat

VARIABLES
  known, selected,    \* keys of programs, and those with selected set
  pmt_pid, pcr_pid,   \* of every program
  pmt,                \* program->pmt
  pmt_active, active, \* programs with that flag set
  usecount,           \* of every stream; 0 where there is none
  filter,             \* the PIDs last given to dvbsrc
  pmtlist,            \* programs whose PMT is on the list, in its order
  pmtlist_changed,
  handler,            \* where the streaming thread is in pmt_info_cb
  updating,           \* the program it is activating
  state,              \* of the element
  task,               \* where the CAM task is
  walk,               \* the list node reset_pmtlist visited last
  trycam, hwcam,      \* hwcam: the device is there
  ready,              \* cam_device_ready
  told,               \* CA PMTs of the list the CAM is being told, or was told last
  missed,             \* history: what happened since the last walk began may leave the
                      \* CAM with another list than pmtlist
  budget

programVars == <<known, selected, pmt_pid, pcr_pid, pmt, pmt_active, active>>
streamVars == <<usecount, filter>>
listVars == <<pmtlist, pmtlist_changed>>
handlerVars == <<handler, updating>>
camVars == <<task, walk, trycam, hwcam, ready, told>>
vars == <<programVars, streamVars, listVars, handlerVars, state, camVars, missed, budget>>

AllPids == Pids \cup {NoPid}

NoPmt == [pcr |-> NoPid, streams |-> {}]

Flag == {"ONLY", "FIRST", "MORE", "LAST"}

CaPmt == [program : Programs, pmt : Pmts, flag : Flag]

\* Where reset_pmtlist is: before the first node, at the node of a program, or at one that
\* was taken off the list and freed.
Position == Programs \cup {"head", "freed"}

Spend(what) == budget[what] > 0 /\ budget' = [budget EXCEPT ![what] = @ - 1]

-----------------------------------------------------------------------------
(* Streams and the filter *)

One(condition) == IF condition THEN 1 ELSE 0

\* unref_stream refuses to go below zero.
Unref(count, n) == IF count >= n THEN count - n ELSE 0

\* rebuild_filter
Filtered(count) == {x \in AllPids : count[x] > 0}

\* remove_pmt_streams
WithoutStreams(count, m) == [x \in AllPids |-> Unref(count[x], One(x \in m.streams))]

\* mutant: a PCR that is one of the streams is not taken a second time
PcrMovedOnce(count, p, m) ==
  [x \in AllPids |->
     Unref(count[x], One(x # NoPid /\ x = pcr_pid[p] /\ x # m.pcr))
       + One(x = m.pcr /\ x \notin m.streams)]

\* activate_program: the old PCR is released if it differs, the new one always taken.
PcrMoved(count, p, m) ==
  [x \in AllPids |->
     Unref(count[x], One(x # NoPid /\ x = pcr_pid[p] /\ x # m.pcr)) + One(x = m.pcr)]

\* add_pmt_streams
WithStreams(count, m) == [x \in AllPids |-> count[x] + One(x \in m.streams)]

\* activate_program: the PMT PID is taken once.
WithPmtPid(count, p) ==
  [x \in AllPids |-> count[x] + One(p \notin pmt_active /\ x = pmt_pid[p])]

-----------------------------------------------------------------------------
(* The application *)

\* mutant: a selected program is not entered in the table
SetProgramNumbersUnlisted(ps) ==
  /\ selected' = selected \cup (ps \ known)
  /\ UNCHANGED <<known, pmt_pid, pcr_pid, pmt, pmt_active, active, streamVars, listVars,
                 handlerVars, state, camVars, missed, budget>>

\* set_program_numbers: only programs not yet known become selected.
SetProgramNumbers(ps) ==
  /\ known' = known \cup ps
  /\ selected' = selected \cup (ps \ known)
  /\ UNCHANGED <<pmt_pid, pcr_pid, pmt, pmt_active, active, streamVars, listVars,
                 handlerVars, state, camVars, missed, budget>>

\* change_state, READY to PAUSED: the CAM task is started.
ReadyToPaused ==
  /\ state = "READY" /\ Spend("restarts")
  /\ state' = "PAUSED" /\ task' = "begin"
  /\ UNCHANGED <<programVars, streamVars, listVars, handlerVars, walk, trycam, hwcam, ready,
                 told, missed>>

\* PAUSED to READY: the parent class stops the streaming thread, then the poll is set to
\* flushing and the lock awaited, which the task gives back when it ends.
PausedToReady ==
  /\ state = "PAUSED" /\ handler = "idle"
  /\ state' = "flushing"
  /\ UNCHANGED <<programVars, streamVars, listVars, handlerVars, camVars, missed, budget>>

\* dvb_base_bin_reset: the CAM forgets; the list of PMTs and pmtlist_changed stay.
Reset ==
  /\ state = "flushing" /\ task = "stopped"
  /\ state' = "READY"
  /\ hwcam' = FALSE /\ ready' = FALSE /\ told' = <<>> /\ trycam' = TRUE
  /\ missed' = (missed \/ pmtlist # <<>>)
  /\ UNCHANGED <<programVars, streamVars, listVars, handlerVars, task, walk, budget>>

-----------------------------------------------------------------------------
(* The streaming thread *)

Streaming == state = "PAUSED" /\ handler = "idle" /\ Spend("sections")

\* mutant: a PMT PID that moved is not filtered before the next PMT
PatInfoUnfiltered(pat) ==
  LET mine == DOMAIN pat \cap selected
      left(x) == {p \in mine : x # NoPid /\ x = pmt_pid[p] /\ x # pat[p]}
      taken(x) == {p \in mine : x = pat[p]}
  IN  /\ Streaming
      /\ known' = known \cup DOMAIN pat
      /\ pmt_pid' = [p \in Programs |-> IF p \in DOMAIN pat THEN pat[p] ELSE pmt_pid[p]]
      /\ usecount' = [x \in AllPids |->
                        Unref(usecount[x], Cardinality(left(x))) + Cardinality(taken(x))]
      /\ UNCHANGED <<filter, selected, pcr_pid, pmt, pmt_active, active, listVars,
                     handlerVars, state, camVars, missed>>

\* pat_info_cb.  A selected program gives up a PMT PID that changed and takes the one of
\* this PAT, changed or not.
PatInfo(pat) ==
  LET mine == DOMAIN pat \cap selected
      left(x) == {p \in mine : x # NoPid /\ x = pmt_pid[p] /\ x # pat[p]}
      taken(x) == {p \in mine : x = pat[p]}
  IN  /\ Streaming
      /\ known' = known \cup DOMAIN pat
      /\ pmt_pid' = [p \in Programs |-> IF p \in DOMAIN pat THEN pat[p] ELSE pmt_pid[p]]
      /\ usecount' = [x \in AllPids |->
                        Unref(usecount[x], Cardinality(left(x))) + Cardinality(taken(x))]
      /\ filter' = IF mine # {} THEN Filtered(usecount') ELSE filter
      /\ UNCHANGED <<selected, pcr_pid, pmt, pmt_active, active, listVars, handlerVars, state,
                     camVars, missed>>

\* The node of p leaves the list, if it is there.
Unlinked(p) ==
  \/ ~On(p, pmtlist) /\ UNCHANGED pmtlist
  \/ \E i \in 1..Len(pmtlist) : pmtlist[i] = p /\ pmtlist' = Without(pmtlist, i)

\* pmt_info_cb for a program that is not selected: the PMT is kept.
PmtStored(p, m) ==
  /\ Streaming /\ p \notin selected
  /\ known' = known \cup {p} /\ pmt' = [pmt EXCEPT ![p] = m]
  /\ UNCHANGED <<selected, pmt_pid, pcr_pid, pmt_active, active, streamVars, listVars,
                 handlerVars, state, camVars, missed>>

\* mutant: the new PMT enters the list and the old one stays on it
PmtInfoKeeping(p, m) ==
  /\ Streaming /\ p \in selected /\ (p \notin active \/ pmt[p] # NoPmt)
  /\ pmt' = [pmt EXCEPT ![p] = m]
  /\ usecount' = WithoutStreams(usecount, pmt[p])
  /\ missed' = (missed \/ task = "walk")
  /\ handler' = "activate" /\ updating' = {p}
  /\ UNCHANGED <<known, selected, pmt_pid, pcr_pid, pmt_active, active, filter,
                 listVars, walk, state, task, trycam, hwcam, ready, told>>

\* pmt_info_cb and the beginning of activate_program: the streams of the old PMT are
\* released and its node leaves the list, under the feet of the CAM task if it is there.
PmtInfo(p, m) ==
  /\ Streaming /\ p \in selected /\ (p \notin active \/ pmt[p] # NoPmt)
  /\ pmt' = [pmt EXCEPT ![p] = m]
  /\ usecount' = WithoutStreams(usecount, pmt[p])
  /\ Unlinked(p)
  /\ walk' = IF walk = p THEN "freed" ELSE walk
  /\ missed' = (missed \/ task = "walk")
  /\ handler' = "activate" /\ updating' = {p}
  /\ UNCHANGED <<known, selected, pmt_pid, pcr_pid, pmt_active, active, filter,
                 pmtlist_changed, state, task, trycam, hwcam, ready, told>>

\* activate_program up to the end of the list.
Activate(p) ==
  /\ handler = "activate" /\ p \in updating
  /\ usecount' = WithStreams(PcrMoved(WithPmtPid(usecount, p), p, pmt[p]), pmt[p])
  /\ pmt_active' = pmt_active \cup {p}
  /\ pcr_pid' = [pcr_pid EXCEPT ![p] = pmt[p].pcr]
  /\ pmtlist' = Append(pmtlist, p)
  /\ missed' = (missed \/ task = "walk")
  /\ handler' = "publish"
  /\ UNCHANGED <<known, selected, pmt_pid, pmt, active, filter, pmtlist_changed, updating,
                 state, camVars, budget>>

\* The rest of activate_program, and the old section is released.
Publish ==
  /\ handler = "publish"
  /\ pmtlist_changed' = TRUE
  /\ active' = active \cup updating
  /\ filter' = Filtered(usecount)
  /\ handler' = "idle" /\ updating' = {}
  /\ UNCHANGED <<known, selected, pmt_pid, pcr_pid, pmt, pmt_active, usecount, pmtlist, state,
                 camVars, missed, budget>>

-----------------------------------------------------------------------------
(* The CAM task *)

\* init_cam, the first time round: the device may be missing or fail to open.
TaskBegins ==
  /\ task = "begin"
  /\ task' = "wait" /\ trycam' = FALSE
  /\ hwcam' \in (IF trycam THEN BOOLEAN ELSE {hwcam})
  /\ UNCHANGED <<programVars, streamVars, listVars, handlerVars, state, walk, ready, told,
                 missed, budget>>

\* gst_poll_wait is interrupted.
TaskStops ==
  /\ task = "wait" /\ state = "flushing"
  /\ task' = "stopped"
  /\ UNCHANGED <<programVars, streamVars, listVars, handlerVars, state, walk, trycam, hwcam,
                 ready, told, missed, budget>>

\* After cam_device_poll, in which the CAM may have become ready: nothing new for it.
TaskPolls ==
  /\ task = "wait"
  /\ ready' \in (IF hwcam THEN {ready, TRUE} ELSE {ready})
  /\ ~(hwcam /\ pmtlist_changed /\ ready')
  /\ task' = "begin"
  /\ UNCHANGED <<programVars, streamVars, listVars, handlerVars, state, walk, trycam, hwcam,
                 told, missed, budget>>

\* reset_pmtlist is called.
StartWalk ==
  /\ task = "wait" /\ hwcam /\ pmtlist_changed
  /\ ready' = TRUE
  /\ task' = "walk" /\ walk' = "head" /\ missed' = FALSE
  /\ UNCHANGED <<programVars, streamVars, listVars, handlerVars, state, trycam, hwcam, told,
                 budget>>

\* The indices of the nodes that walk->next may lead to; one after the last is NULL.
Following ==
  LET all == 1..(Len(pmtlist) + 1) IN
  IF walk = "freed" THEN all
  ELSE {i \in all : IF i = 1 THEN walk = "head" ELSE walk = pmtlist[i - 1]}

\* mutant: every PMT is sent as a list of its own
FlagAlone(i) == "ONLY"

FlagAt(i) ==
  IF i = 1 THEN IF Len(pmtlist) = 1 THEN "ONLY" ELSE "FIRST"
  ELSE IF i = Len(pmtlist) THEN "LAST" ELSE "MORE"

CaPmtAt(i) == [program |-> pmtlist[i], pmt |-> pmt[pmtlist[i]], flag |-> FlagAt(i)]

\* cam_device_set_pmt for the next node.  ONLY and FIRST begin a new list at the CAM.  The
\* write may be lost, and nobody notices.
SendPmt(i) ==
  /\ task = "walk" /\ i \in Following /\ i <= Len(pmtlist)
  /\ walk' = pmtlist[i]
  /\ \/ /\ told' = IF CaPmtAt(i).flag \in {"ONLY", "FIRST"} THEN <<CaPmtAt(i)>>
                   ELSE Append(told, CaPmtAt(i))
        /\ UNCHANGED <<missed, budget>>
     \/ Spend("faults") /\ missed' = TRUE /\ UNCHANGED told
  /\ UNCHANGED <<programVars, streamVars, listVars, handlerVars, state, task, trycam, hwcam,
                 ready>>

\* The end of reset_pmtlist.
EndWalk ==
  /\ task = "walk" /\ Len(pmtlist) + 1 \in Following
  /\ task' = "begin" /\ walk' = "head"
  /\ pmtlist_changed' = FALSE
  /\ UNCHANGED <<programVars, streamVars, pmtlist, handlerVars, state, trycam, hwcam, ready,
                 told, missed, budget>>

-----------------------------------------------------------------------------
Init ==
  /\ known = {} /\ selected = {} /\ pmt_active = {} /\ active = {}
  /\ pmt_pid = [p \in Programs |-> NoPid] /\ pcr_pid = [p \in Programs |-> NoPid]
  /\ pmt = [p \in Programs |-> NoPmt]
  /\ usecount = [x \in AllPids |-> One(x \in InitialPids)] /\ filter = InitialPids
  /\ pmtlist = <<>> /\ pmtlist_changed = FALSE
  /\ handler = "idle" /\ updating = {}
  /\ state = "READY"
  /\ task = "stopped" /\ walk = "head" /\ trycam = TRUE /\ hwcam = FALSE
  /\ ready = FALSE /\ told = <<>>
  /\ missed = FALSE
  /\ budget = [sections |-> MaxSections, faults |-> MaxFaults, restarts |-> MaxRestarts]

StreamingThread ==
  \/ \E pat \in Pats : PatInfo(pat)
  \/ \E p \in Programs, m \in Pmts : PmtStored(p, m) \/ PmtInfo(p, m)
  \/ \E p \in Programs : Activate(p)
  \/ Publish

CamTask ==
  \/ TaskBegins \/ TaskStops \/ TaskPolls \/ StartWalk \/ EndWalk
  \/ \E i \in 1..Len(pmtlist) : SendPmt(i)

User ==
  \/ \E ps \in SUBSET Programs : SetProgramNumbers(ps)
  \/ ReadyToPaused \/ PausedToReady \/ Reset

Next == StreamingThread \/ CamTask \/ User

Spec == Init /\ [][Next]_vars

-----------------------------------------------------------------------------
(* Properties *)

TypeOK ==
  /\ selected \subseteq known /\ known \subseteq Programs
  /\ pmt_active \subseteq selected /\ active \subseteq pmt_active
  /\ pmt_pid \in [Programs -> AllPids] /\ pcr_pid \in [Programs -> AllPids]
  /\ pmt \in [Programs -> Pmts \cup {NoPmt}]
  /\ usecount \in [AllPids -> Nat] /\ filter \subseteq AllPids
  /\ pmtlist \in Seq(Programs) /\ pmtlist_changed \in BOOLEAN
  /\ handler \in {"idle", "activate", "publish"} /\ updating \subseteq Programs
  /\ state \in {"READY", "PAUSED", "flushing"}
  /\ task \in {"stopped", "begin", "wait", "walk"} /\ walk \in Position
  /\ trycam \in BOOLEAN /\ hwcam \in BOOLEAN /\ ready \in BOOLEAN
  /\ told \in Seq(CaPmt) /\ missed \in BOOLEAN
  /\ budget \in [{"sections", "faults", "restarts"} -> Nat]

\* The program whose streams are not counted at the moment.
Between(p) == handler = "activate" /\ p \in updating

\* How many references to stream x the programs and the bin itself rely on.
Held(x) ==
    One(x \in InitialPids)
  + Cardinality({p \in selected : x = pmt_pid[p] /\ (x # NoPid \/ p \in pmt_active)})
  + Cardinality({p \in selected : x = pcr_pid[p] /\ x # NoPid})
  + Cardinality({p \in selected : x \in pmt[p].streams /\ ~Between(p)})

\* No stream has fewer references than are relied on, so that the release of one program's
\* streams, PMT PID or PCR never takes a PID away from another program, and unref_stream is
\* never called on a stream without references.
CountsCover == \A x \in AllPids : usecount[x] >= Held(x)

\* dvbsrc delivers what the selected programs need whenever no PMT is being handled: the
\* PMT PID of the last PAT, the PCR and the streams of the last PMT.
NeedsFiltered ==
  handler = "idle" =>
    \A p \in selected :
      /\ pmt_pid[p] \in Pids => pmt_pid[p] \in filter
      /\ pcr_pid[p] \in Pids => pcr_pid[p] \in filter
      /\ pmt[p].streams \subseteq filter

\* What the CAM should be told of the first n nodes of pmtlist.
Wanted(n) == [i \in 1..n |-> CaPmtAt(i)]

\* Unless pmtlist was touched during the walk, a CA PMT got lost or the CAM was reopened,
\* the CAM is told pmtlist in its order with the right list management flags; when the walk
\* is over it knows every PMT of every active program.
CamFollowsList ==
  ~missed =>
    /\ task = "walk" =>
         walk = "head" \/ \E n \in 1..Len(pmtlist) : walk = pmtlist[n] /\ told = Wanted(n)
    /\ task # "walk" /\ ~pmtlist_changed /\ handler = "idle" => told = Wanted(Len(pmtlist))

\* The list has exactly the PMTs of the active programs, each once, whoever is walking it.
ListMatchesPrograms ==
  \A p \in Programs :
    /\ Once(p, pmtlist)
    /\ On(p, pmtlist) <=> p \in (active \cup updating) /\ ~Between(p)

\* "If the PCR stream is in the PMT its usecount will be incremented by 2 here and
\* decremented by 2 when the program is deactivated" (dvbbasebin.c:964): what is counted
\* for a PCR or an elementary stream is what the active programs use, and no more.
PcrCounted ==
  \A x \in Pids : (\A t \in Pats : \A p \in DOMAIN t : t[p] # x) => usecount[x] <= Held(x)
=============================================================================
