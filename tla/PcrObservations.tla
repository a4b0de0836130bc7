-------------------------- MODULE PcrObservations --------------------------
(***************************************************************************)
(* Where the packetizer of a seekable stream is in time.  Every PCR that   *)
(* is read is put in a group of observations (mpegtspacketizer.c,          *)
(* record_pcr); a group gets the stream time of its first PCR.  From the   *)
(* groups come the stream time of a PTS, the duration, and the byte to     *)
(* seek to (ts_to_offset).  The reader is the pull mode of mpegtsbase.c,   *)
(* which looks at both ends of the file first, or upstream that pushes.    *)
(*                                                                         *)
(* One PID carries the PCR.  Offsets count packets; the packets between    *)
(* two PCRs do not matter here.  A seek flushes.  The queries of other     *)
(* threads take group_lock, as record_pcr does, and are one step.          *)
(***************************************************************************)
EXTENDS Integers, Sequences, FiniteSets

CONSTANTS
  Files,         \* files: the sequences of their [pcr, offset]
  PcrMax,        \* PCR_MAX_VALUE
  Second,        \* PCR_SECOND
  Tenth, Half,   \* 100 and 500 milliseconds
  Needed,        \* PCR_BITRATE_NEEDED
  Enough,        \* PCRs the scan wants from the start of the file
  Trailer,       \* packets after the last PCR
  Chunk, Chunks, \* packets per step of the scan from the end, and how many steps
  Times,         \* stream times that are sought
  Shifts,        \* new stream times of the first PCR (tsdemux)
  Huge           \* what unsigned arithmetic makes of a negative number

ASSUME PcrAssumption ==
  /\ {PcrMax, Second, Tenth, Half, Needed, Enough, Trailer, Chunk, Chunks, Huge} \subseteq Nat \ {0}
  /\ Needed > 1 /\ Tenth < Half /\ Half <= Second
  /\ Times \subseteq Nat /\ Shifts \subseteq Nat
  /\ \A f \in Files :
       /\ f \in Seq([pcr : 0 .. PcrMax - 1, offset : 0 .. Huge - 1]) /\ Len(f) > 0
       /\ \A i, j \in 1 .. Len(f) : i < j => f[i].offset < f[j].offset

VARIABLES
  file,
  mode,      \* base->mode; the scan has two parts, "head" and "tail"
  started,   \* the task of the pull mode runs
  pos,       \* PCRs of the file before the reader
  chunk,     \* steps of the scan from the end
  seen,      \* nb_seen_offsets, of interest to the scan only
  groups,    \* pcrtable->groups
  current,   \* pcrtable->current: its group, 0 for none, and the window
  overran,   \* history: the window has come into a group that was there
  guessed    \* history: a time was estimated across a wrap

readVars == <<mode, started, pos, chunk, seen>>
history == <<overran, guessed>>
vars == <<file, readVars, groups, current, history>>
-----------------------------------------------------------------------------
Last(s) == s[Len(s)]

LeastOf(S) == CHOOSE x \in S : \A y \in S : x <= y

Distance(a, b) == IF a < b THEN b - a ELSE a - b

Zero == [pcr |-> 0, offset |-> 0]

\* gst_util_uint64_scale: no division by zero, no negative operands.
Scale(a, b, c) == IF a < 0 \/ b < 0 \/ c <= 0 THEN Huge ELSE (a * b) \div c

NewGroup(x, time, flags) ==
  [first_pcr |-> x.pcr, first_offset |-> x.offset, values |-> <<Zero>>,
   pcr_offset |-> time, flags |-> flags]

EndOffset(g) == g.first_offset + Last(g.values).offset

EndPcr(g) == g.first_pcr + Last(g.values).pcr

EndTime(g) == g.pcr_offset + Last(g.values).pcr

NoCurrent == [group |-> 0, pending |-> <<>>, prev |-> Zero]

\* _use_group.  The window is the queue of the observations from first to last in the ring.
Use(gs, i) ==
  [group |-> i, pending |-> <<Last(gs[i].values)>>, prev |-> Last(gs[i].values)]

\* _append_group_values
Appended(gs, i, v) ==
  IF Last(gs[i].values) = v THEN gs ELSE [gs EXCEPT ![i].values = Append(@, v)]

\* mutant: the window is lost with what was seen since the last change of bitrate
ClosedLost(gs, c) == gs

\* _close_current_group
Closed(gs, c) == IF c.group = 0 THEN gs ELSE Appended(gs, c.group, Last(c.pending))

InsertAfter(gs, i, g) == SubSeq(gs, 1, i) \o <<g>> \o SubSeq(gs, i + 1, Len(gs))
-----------------------------------------------------------------------------
(* Estimates *)

\* The latest observation in group i: the window's, if it is there.
Latest(gs, c, i) ==
  IF c.group = i /\ Last(c.pending).offset # 0 THEN Last(c.pending) ELSE Last(gs[i].values)

Bitrate(gs, c, i) ==
  LET l == Latest(gs, c, i) IN
  IF l.offset # 0 THEN Scale(Second, l.offset, l.pcr)
                  ELSE Scale(Second, gs[i].first_offset, gs[i].pcr_offset)

\* The PCR has wrapped between groups i - 1 and i.  The estimate is taken only if the
\* bitrate agrees; it leaves out the time of the previous group.
AfterWrap(gs, c, i) ==
  LET p == gs[i - 1]
      g == gs[i]
      l == Latest(gs, c, i - 1)
      guess == PcrMax - p.first_pcr + g.first_pcr
      before == Bitrate(gs, c, i - 1)
      between == Scale(Second, EndOffset(g) - (l.offset + p.first_offset),
                       guess + Last(g.values).pcr - l.pcr)
      agrees(percent) == Distance(before, between) * 100 < percent * before
  IN [gs EXCEPT ![i - 1].flags = @ \cup {"wrapover"},
                ![i].pcr_offset = IF agrees(10) THEN guess ELSE @,
                ![i].flags = IF agrees(1) THEN @ \ {"estimated"} ELSE @]

\* The PCR was reset: how far would it have come with the bitrate of the previous group.
AfterReset(gs, c, i) ==
  LET p == gs[i - 1]
      rate == Bitrate(gs, c, i - 1)
      full == IF rate = 0 THEN 0 ELSE Scale(Second, gs[i].first_offset - p.first_offset, rate)
  IN [gs EXCEPT ![i - 1].flags = @ \cup {"reset"},
                ![i].pcr_offset = p.pcr_offset + full + Tenth]

\* mutant: the time of the previous group is left out
AfterMoreOfFirst(gs, i) ==
  [gs EXCEPT ![i - 1].flags = @ \ {"reset", "wrapover"},
             ![i].pcr_offset = gs[i].first_pcr - gs[i - 1].first_pcr]

\* 'Assuming there is no gap'
AfterMore(gs, i) ==
  [gs EXCEPT ![i - 1].flags = @ \ {"reset", "wrapover"},
             ![i].pcr_offset = gs[i - 1].pcr_offset + gs[i].first_pcr - gs[i - 1].first_pcr]

Estimate(gs, c, i) ==
  LET p == gs[i - 1]
      g == gs[i]
  IN IF i = 1 \/ "estimated" \notin g.flags THEN gs
     ELSE IF g.first_pcr >= p.first_pcr THEN AfterMore(gs, i)
     ELSE IF Latest(gs, c, i - 1).pcr + p.first_pcr - g.first_pcr > (PcrMax * 9) \div 10
          THEN AfterWrap(gs, c, i)
          ELSE AfterReset(gs, c, i)

\* _reevaluate_group_pcr_offset
Reevaluated(gs, c) ==
  LET upto[i \in 0 .. Len(gs)] == IF i = 0 THEN gs ELSE Estimate(upto[i - 1], c, i)
  IN upto[Len(gs)]
-----------------------------------------------------------------------------
(* record_pcr: the groups and the window after an observation *)

Result(gs, c) == [groups |-> gs, current |-> c]

\* _set_current_group for a place between the groups: its time is estimated.
Apart(i, x) ==
  LET gs == InsertAfter(groups, i, NewGroup(x, 0, IF i = 0 THEN {} ELSE {"estimated"}))
      c == Use(gs, i + 1)
  IN Result(Reevaluated(gs, c), c)

\* mutant: after a wrap the time goes on from the first PCR of the group
NextTimeWrapped(p, pcr) ==
  p.pcr_offset +
    (IF EndPcr(p) - pcr > (PcrMax * 99) \div 100 THEN pcr
     ELSE Last(p.values).pcr + (IF EndPcr(p) > pcr THEN Tenth ELSE Half))

\* The time of a group right after p: 'WRAPAROUND', 'RESET' or 'GAP detected'.
NextTime(p, pcr) ==
  p.pcr_offset +
    (IF EndPcr(p) - pcr > (PcrMax * 99) \div 100 THEN PcrMax - p.first_pcr + pcr
     ELSE Last(p.values).pcr + (IF EndPcr(p) > pcr THEN Tenth ELSE Half))

\* _set_current_group, contiguous
Contiguous(x) ==
  LET i == current.group
      gs == [Closed(groups, current) EXCEPT ![i].flags = @ \cup {"closed"}]
      with == InsertAfter(gs, i, NewGroup(x, NextTime(gs[i], x.pcr), {}))
  IN Result(with, Use(with, i + 1))

\* Where an observation belongs when there is no window: in a group, to one that it
\* continues, or after the group it comes to last.
Found(x) ==
  LET within(g) == x.offset <= EndOffset(g)
      continues(g) == "closed" \notin g.flags /\ x.pcr - EndPcr(g) \in 0 .. Tenth
      stops == {i \in 1 .. Len(groups) :
                  x.offset < groups[i].first_offset \/ within(groups[i]) \/ continues(groups[i])}
      i == LeastOf(stops)
  IN IF stops = {} THEN Apart(Len(groups), x)
     ELSE IF x.offset < groups[i].first_offset THEN Apart(i - 1, x)
     ELSE IF within(groups[i]) THEN Result(groups, current)
     ELSE Result(groups, Use(groups, i))

\* The window is full: did the bitrate change by a tenth?
Changed(w, prev) ==
  LET now == Scale(Second, Last(w).offset - w[1].offset, Last(w).pcr - w[1].pcr)
      before == Scale(Second, w[1].offset - prev.offset, w[1].pcr - prev.pcr)
  IN w[1].pcr - prev.pcr > Second /\ Distance(now, before) * 10 > before

Windowed(x) ==
  LET g == groups[current.group]
      w == Append(current.pending, [pcr |-> x.pcr - g.first_pcr, offset |-> x.offset - g.first_offset])
  IN CASE Len(w) < Needed -> Result(groups, [current EXCEPT !.pending = w])
       [] Len(w) >= Needed /\ Changed(w, current.prev) ->
            Result(Appended(groups, current.group, w[1]),
                   [current EXCEPT !.pending = <<Last(w)>>, !.prev = w[1]])
       [] OTHER -> Result(groups, [current EXCEPT !.pending = Tail(w)])

Recorded(x) ==
  LET since == x.pcr - groups[current.group].first_pcr - Last(current.pending).pcr
  IN CASE current.group = 0 -> Found(x)
       [] current.group # 0 /\ since \notin 0 .. Half -> Contiguous(x)
       [] current.group # 0 /\ since = 0 -> Result(groups, current)
       [] OTHER -> Windowed(x)

\* 'FIXME : Detect if we've gone into the next group !'
Overruns(x) ==
  /\ current.group \in 1 .. Len(groups) - 1
  /\ x.offset >= groups[current.group + 1].first_offset

\* Estimates across a wrap are not to be relied on: see AfterWrap.
Wraps(gs) == \E i \in 1 .. Len(gs) : "wrapover" \in gs[i].flags

Read ==
  LET x == file[pos + 1]
      r == Recorded(x)
  IN
  /\ pos < Len(file)
  /\ pos' = pos + 1
  /\ groups' = r.groups /\ current' = r.current
  /\ overran' = (overran \/ Overruns(x))
  /\ guessed' = (guessed \/ Wraps(groups'))
  /\ UNCHANGED file

\* mpegts_packetizer_clear, and mpegts_packetizer_flush that is not hard
Close == groups' = Closed(groups, current) /\ current' = NoCurrent
-----------------------------------------------------------------------------
(* What is made of the observations *)

\* A byte for a stream time by the line through two points.
OnLine(q, a, b) ==
  a.offset + (IF a.time = b.time THEN 0
              ELSE Scale(q - a.time, b.offset - a.offset, b.time - a.time))

\* Where group i ends as far as is known.
EndOf(gs, c, i) ==
  LET v == IF c.group = i THEN Last(c.pending) ELSE Last(gs[i].values)
  IN [offset |-> gs[i].first_offset + v.offset, time |-> gs[i].pcr_offset + v.pcr]

StartOf(gs, i) == [offset |-> gs[i].first_offset, time |-> gs[i].pcr_offset]

InCurrent(gs, c, q) ==
  c.group # 0 /\ q - gs[c.group].pcr_offset \in 0 .. Last(c.pending).pcr

\* mpegts_packetizer_ts_to_offset: in the group that has the time, between two groups, or on
\* from the only one.  A time in the last group is taken to be beyond it, unless it is current.
TsToOffset(gs, c, q) ==
  LET n == Len(gs)
      stop == LeastOf({i \in 1 .. n : gs[i].pcr_offset > q \/ i = n \/ EndTime(gs[i]) >= q})
      between == stop > 1 /\ (gs[stop].pcr_offset > q \/ stop = n)
  IN CASE InCurrent(gs, c, q) -> OnLine(q, StartOf(gs, c.group), EndOf(gs, c, c.group))
       [] ~InCurrent(gs, c, q) /\ between -> OnLine(q, [offset |-> EndOffset(gs[stop - 1]), time |-> EndTime(gs[stop - 1])],
                               StartOf(gs, stop))
       [] OTHER -> OnLine(q, StartOf(gs, stop), EndOf(gs, c, stop))

\* mpegts_packetizer_offset_to_ts for the end of the file, with refoffset 0.
Duration(gs, c, size) ==
  LET e == EndOf(gs, IF Len(gs) > 1 THEN NoCurrent ELSE c, Len(gs))
  IN Scale(size, e.time, e.offset)

\* The group mpegts_packetizer_pts_to_ts takes when none is current: by the reader's offset.
GroupAt(gs, offset) ==
  LET upto == {i \in 1 .. Len(gs) : \A j \in 1 .. i : gs[j].first_offset <= offset}
      in == {i \in upto : EndOffset(gs[i]) > offset}
  IN IF in # {} THEN LeastOf(in) ELSE Cardinality(upto)

NoTime == -1

\* The stream time of a PTS next to the PCR that was just read.
PtsToTs(gs, c, pts, offset) ==
  LET i == IF c.group # 0 THEN c.group ELSE GroupAt(gs, offset)
      first == gs[i].first_pcr
      known == i # 0 /\ (c.group # 0 \/ "reset" \notin gs[i].flags)
  IN IF ~known THEN NoTime
     ELSE CASE pts >= first -> pts - first + gs[i].pcr_offset
            [] first - pts > Second -> pts + PcrMax - first + gs[i].pcr_offset
            [] OTHER -> NoTime
-----------------------------------------------------------------------------
(* The reader *)

Size == Last(file).offset + Trailer

\* The reader comes to a byte.
At(offset) == Cardinality({i \in 1 .. Len(file) : file[i].offset < offset})

ChunkStart(k) == IF Size < k * Chunk THEN 0 ELSE Size - k * Chunk

\* mpegts_base_scan: the start of the file ...
ScanHead ==
  /\ mode = "head" /\ seen < Enough
  /\ Read
  /\ seen' = seen + 1
  /\ UNCHANGED <<mode, started, chunk>>

EndHead ==
  /\ mode = "head" /\ (seen = Enough \/ pos = Len(file))
  /\ Close
  /\ mode' = "tail" /\ chunk' = 1 /\ seen' = 0
  /\ pos' = At(ChunkStart(1))
  /\ UNCHANGED <<file, started, history>>

InChunk ==
  pos < Len(file) /\ file[pos + 1].offset < ChunkStart(chunk) + Chunk

\* ... and its last chunks, backwards until there is a PCR.
ScanTail ==
  /\ mode = "tail" /\ InChunk
  /\ Read
  /\ seen' = seen + 1
  /\ UNCHANGED <<mode, started, chunk>>

NextChunk ==
  /\ mode = "tail" /\ ~InChunk
  /\ seen = 0 /\ chunk < Chunks
  /\ Close
  /\ chunk' = chunk + 1 /\ pos' = At(ChunkStart(chunk + 1))
  /\ UNCHANGED <<file, mode, started, seen, history>>

EndScan ==
  /\ mode = "tail" /\ ~InChunk
  /\ seen > 0 \/ chunk = Chunks
  /\ Close
  /\ mode' = "streaming" /\ pos' = 0
  /\ UNCHANGED <<file, started, chunk, seen, history>>

\* mpegts_base_loop, mpegts_base_chain
Stream ==
  /\ mode \in {"streaming", "pushing"} /\ started
  /\ Read
  /\ UNCHANGED <<mode, started, chunk, seen>>

EndOfStream ==
  /\ mode = "streaming" /\ started /\ pos = Len(file)
  /\ started' = FALSE
  /\ UNCHANGED <<file, mode, pos, chunk, seen, groups, current, history>>

\* mpegts_base_handle_seek_event with the pull mode: the window is closed, then the byte is
\* looked for.  The task starts again.
PullSeek(q) ==
  /\ mode = "streaming"
  /\ Close
  /\ pos' = At(TsToOffset(groups', NoCurrent, q))
  /\ started' = TRUE
  /\ UNCHANGED <<file, mode, chunk, seen, history>>

\* Upstream is asked for the byte; its flush comes back with the mode BASE_MODE_SEEKING.
PushSeek(q) ==
  LET byte == TsToOffset(groups, current, q) IN
  /\ mode = "pushing" /\ groups # <<>> /\ byte < Size
  /\ Close
  /\ pos' = At(byte)
  /\ UNCHANGED <<file, mode, started, chunk, seen, history>>

\* A FLUSH_STOP that is no answer: mpegts_packetizer_flush, hard.
HardFlush(k) ==
  /\ mode = "pushing"
  /\ groups' = <<>> /\ current' = NoCurrent /\ overran' = FALSE /\ guessed' = FALSE
  /\ pos' = k
  /\ UNCHANGED <<file, mode, started, chunk, seen>>

\* mutant: only the first group is moved
ShiftFirst(time) ==
  LET delta == time - groups[1].pcr_offset IN
  /\ current.group # 0
  /\ groups' = [i \in 1 .. Len(groups) |->
                  IF i = 1 THEN [groups[i] EXCEPT !.pcr_offset = @ + delta] ELSE groups[i]]
  /\ UNCHANGED <<file, readVars, current, history>>

\* mpegts_packetizer_set_current_pcr_offset
Shift(time) ==
  LET delta == time - groups[1].pcr_offset IN
  /\ current.group # 0
  /\ groups' = [i \in 1 .. Len(groups) |-> [groups[i] EXCEPT !.pcr_offset = @ + delta]]
  /\ UNCHANGED <<file, readVars, current, history>>

\* offset_to_ts estimates again if the last group is an estimate.
QueryDuration ==
  /\ Len(groups) > 1 /\ "estimated" \in Last(groups).flags
  /\ groups' = Reevaluated(groups, current)
  /\ guessed' = (guessed \/ Wraps(groups'))
  /\ UNCHANGED <<file, readVars, current, overran>>

Init ==
  /\ file \in Files
  /\ mode \in {"head", "pushing"}
  /\ started = TRUE /\ pos = 0 /\ chunk = 0 /\ seen = 0
  /\ groups = <<>> /\ current = NoCurrent
  /\ overran = FALSE /\ guessed = FALSE

Next ==
  \/ ScanHead \/ EndHead \/ ScanTail \/ NextChunk \/ EndScan
  \/ Stream \/ EndOfStream
  \/ \E q \in Times : PullSeek(q) \/ PushSeek(q)
  \/ \E k \in 0 .. Len(file) - 1 : HardFlush(k)
  \/ \E time \in Shifts : Shift(time)
  \/ QueryDuration

Spec == Init /\ [][Next]_vars
-----------------------------------------------------------------------------
\* The PCRs up to a byte do not go back, or rise.
Ascending(offset) ==
  \A i, j \in 1 .. Len(file) : i < j /\ file[j].offset <= offset => file[i].pcr <= file[j].pcr

Rising(offset) ==
  \A i, j \in 1 .. Len(file) : i < j /\ file[j].offset <= offset => file[i].pcr < file[j].pcr

\* A reset, if there is one, goes back to before the start, so that it can be seen.
Detectable ==
  \A i, j \in 1 .. Len(file) : i < j /\ file[j].pcr < file[i].pcr =>
     \A k \in 1 .. i, l \in j .. Len(file) : file[l].pcr < file[k].pcr

\* The groups are in the order of the file and do not overlap, and with their estimates
\* brought up to date they are in the order of time.  Not so behind a reset, for a group that
\* follows right on another one: it keeps its time when the estimates before it move.
InOrder ==
  ~overran =>
    LET gs == Reevaluated(groups, current)
        timed(g) ==
          /\ Detectable /\ ~guessed /\ ~Wraps(gs)
          /\ "estimated" \in g.flags \/ Ascending(g.first_offset - 1)
    IN \A i \in 1 .. Len(groups) - 1 :
         /\ EndOf(gs, current, i).offset < gs[i + 1].first_offset
         /\ timed(gs[i + 1]) => EndOf(gs, current, i).time <= gs[i + 1].pcr_offset

Within(q, i) == groups[i].pcr_offset <= q /\ q <= EndOf(groups, current, i).time

\* A time in a group is sought in that group.  Not so in the last group, if it is not current,
\* before the first one, behind a reset, and where a PCR is repeated.
LandsInside ==
  ~overran /\ groups # <<>> /\ Rising(Last(groups).first_offset) =>
    \A q \in Times, i \in 1 .. Len(groups) :
      Within(q, i) /\ (i < Len(groups) \/ current.group = i) =>
        /\ groups[i].first_offset <= TsToOffset(groups, current, q)
        /\ TsToOffset(groups, current, q) <= EndOf(groups, current, i).offset

\* It is in a group, and the next packet, where a PTS would be looked for, has no PCR of its own.
Observed(x) ==
  /\ \A i \in 1 .. Len(file) : file[i].offset # x.offset + 1
  /\ \E i \in 1 .. Len(groups) :
       groups[i].first_offset <= x.offset /\ x.offset <= EndOf(groups, current, i).offset

\* Whatever has been observed, in whatever order, the PTSs of a second reading would get
\* stream times that do not go back, up to the first PCR that does.  mpegts_packetizer_pts_to_ts
\* takes the estimates as they are, some of them older than others.
TimesForward ==
  ~overran =>
    LET gs == Closed(groups, current)
        ts == [i \in {j \in 1 .. Len(file) : Observed(file[j])} |->
                 PtsToTs(gs, NoCurrent, file[i].pcr, file[i].offset + 1)]
    IN \A i, j \in DOMAIN ts :
         i < j /\ Ascending(file[j].offset) /\ ts[j] # NoTime => ts[i] <= ts[j]

\* What has been observed, up to the window of the last group, lies within the duration that is
\* told.  Not so for that window: when there are several groups the duration is that of the values
\* of the last one, and playing may have come further with a lower bitrate.  Not so either while
\* there is only one group and the PAT is not at the start: refoffset is taken off one side only.
DurationCovers ==
  LET gs == Reevaluated(groups, current)
      known(i) == EndOf(gs, IF i < Len(gs) THEN current ELSE NoCurrent, i)
  IN Len(gs) > 1 /\ ~overran /\ Ascending(Last(gs).first_offset) =>
       \A i \in 1 .. Len(gs) : known(i).time <= Duration(gs, current, Size)
=============================================================================
