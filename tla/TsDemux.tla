------------------------------- MODULE TsDemux -------------------------------
(***************************************************************************)
(* How the demuxer makes buffers of the packets of a program (tsdemux.c).  *)
(* The packets of a PID are put together to PES packets by the continuity  *)
(* counter; buffers wait (pending) until one stream of the program has a   *)
(* timestamp, then the stream time is shifted so that it starts before     *)
(* them and they are stamped; a segment goes before the first buffer.      *)
(*                                                                         *)
(* One program, in the mode that computes the time from the PCR (BYTES     *)
(* segments or pull); its clock has one group of PCRs.  A PES packet has a *)
(* header (module PesHeader) of which some bytes are in its first packet,  *)
(* without a DTS; no stream is sparse or a substream.  The size of data is *)
(* counted in packets.  Pads take every buffer.  Packets are lost or       *)
(* repeated on the way in.  In push mode the application's thread seeks    *)
(* beside the streaming thread, one seek at a time.                        *)
(***************************************************************************)
EXTENDS FiniteSets, PesHeader

CONSTANTS
  StreamList,   \* program->stream_list
  Plans,        \* for each stream the PES packets it may carry, in sequences
  Headers, Lengths, \* headers and numbers of bytes for which the parser is checked
  Pcrs,         \* values of the first PCR, in the units of a PTS
  MaxCC,        \* MAX_CONTINUITY
  MaxFaults,    \* bound on lost and repeated packets
  MaxBreaks     \* bound on flushes, seeks, discontinuities and updates of the program

Streams == Range(StreamList)

None == -1   \* also CONTINUITY_UNSET and GST_CLOCK_TIME_NONE

\* Fewer losses than make the counter come round.  PTSs do not go back.
ASSUME DemuxAssumption ==
  /\ {MaxCC, MaxFaults, MaxBreaks} \subseteq Nat /\ MaxFaults < MaxCC
  /\ Pcrs \subseteq Nat /\ StreamList \in Seq(Streams) /\ IsInjective(StreamList)
  /\ \A s \in Streams : \A p \in Plans[s] :
       /\ p \in Seq(Range(p)) /\ p # <<>>
       /\ \A i \in DOMAIN p :
            /\ {p[i].length, p[i].first} \subseteq Nat \ {0} /\ "DTS" \notin p[i].header.fields
            /\ PtsOf(p[i].header) \in Nat \cup {None}
       /\ \A i, j \in DOMAIN p :
            i < j /\ None \notin {PtsOf(p[i].header), PtsOf(p[j].header)} =>
              PtsOf(p[i].header) <= PtsOf(p[j].header)

\* What the bits of a header say: flags and lengths.
ASSUME HeaderAssumption ==
  /\ Lengths \subseteq Nat
  /\ \A h \in Headers : IsHeader(h)
  /\ \A s \in Streams : \A p \in Plans[s] : \A i \in DOMAIN p : IsHeader(p[i].header)

VARIABLES
  plan,      \* what each stream carries
  source,    \* the last packet of each stream: PES packet, part of it, counter, delivered?, and
             \* history: the PES packets whose first packet came again
  demux,     \* the demuxer, with its clock and what it has pushed
  faults, breaks,
  due,       \* history: the PES packets that came whole since the last flush
  rejoined,  \* history: since the last flush a stream was added to the program
  overtaken  \* history: the segment of a seek was pushed before the flush that the seek causes

vars == <<plan, source, demux, faults, breaks, due, rejoined, overtaken>>
-----------------------------------------------------------------------------
(* The demuxer is a record: base->mode, the streams, the group of PCRs,    *)
(* segment_event, and for each pad the segment and the buffers it got      *)
(* since the last flush.                                                   *)

\* at: the group is the current one; or none is, after a flush, and the packets are within it or
\* before it.
NoGroup == [first |-> None, pcr_offset |-> 0, at |-> "current"]

NewStream ==
  [pad |-> TRUE, active |-> FALSE, state |-> "empty", cc |-> None, data |-> <<>>, expected |-> 0,
   raw |-> None, pts |-> None, first |-> None, pending_ts |-> TRUE, pending |-> <<>>,
   need_newsegment |-> TRUE]

\* The streams of demux->program.
Present(d) == {s \in Streams : d.stream[s].pad}

\* mpegts_packetizer_pts_to_ts, without wrapover
PtsToTs(d, raw) ==
  IF raw = None \/ d.group.first = None \/ raw < d.group.first \/ d.group.at = "before" THEN None
  ELSE raw - d.group.first + d.group.pcr_offset

\* gst_ts_demux_stream_flush
StreamFlushed(t, hard) ==
  [t EXCEPT !.state = "empty", !.cc = None, !.data = <<>>, !.expected = 0,
            !.raw = None, !.pts = None, !.pending_ts = TRUE, !.pending = <<>>,
            !.first = IF hard THEN None ELSE @,
            !.need_newsegment = hard \/ @]

\* gst_ts_demux_flush_streams, and what is pushed from then on
StreamsFlushed(d, hard) ==
  [d EXCEPT !.stream = [s \in Streams |-> IF s \in Present(d) THEN StreamFlushed(@[s], hard) ELSE @[s]],
            !.segment_event = None,
            !.out = [s \in Streams |-> <<>>]]
-----------------------------------------------------------------------------
(* check_pending_buffers *)

Observed(d) == \E s \in Present(d) : d.stream[s].raw # None /\ d.stream[s].pts # None

\* The time that the first pending buffer of a stream is before its current one is added to
\* the stream time of that one.
OffsetOf(d, s) ==
  LET t == d.stream[s]
      first == t.pending[1].raw
  IN IF t.pending = <<>> \/ t.state = "empty" \/ t.raw = None THEN 0
     ELSE IF first = None \/ PtsToTs(d, t.raw) = None THEN 0
     ELSE PtsToTs(d, t.raw) + t.raw - first

\* mpegts_packetizer_set_current_pcr_offset
Shifted(d) ==
  IF d.group.at # "current" THEN d
  ELSE [d EXCEPT !.group.pcr_offset = Max({0} \cup {OffsetOf(d, s) : s \in Present(d)})]

FirstKnown(q) == LET known == {i \in DOMAIN q : q[i] # None}
                 IN IF known = {} THEN None ELSE q[Min(known)]

\* With its pending buffers and the current one stamped anew.
Restamped(d, t) ==
  LET stamped == [i \in DOMAIN t.pending |-> [t.pending[i] EXCEPT !.pts = PtsToTs(d, t.pending[i].raw)]]
      pts == IF t.state # "empty" /\ t.raw # None THEN PtsToTs(d, t.raw) ELSE t.pts
      current == IF t.state # "empty" /\ t.raw # None THEN <<pts>> ELSE <<>>
  IN [t EXCEPT !.pending_ts = FALSE, !.pending = stamped, !.pts = pts,
               !.first = FirstKnown(<<@>> \o [i \in DOMAIN stamped |-> stamped[i].pts] \o current)]

\* mutant: only the stream that asked is done with waiting
CheckPendingOne(d, s) ==
  IF ~Observed(d) THEN d
  ELSE LET e == Shifted(d) IN [e EXCEPT !.stream[s] = Restamped(e, @)]

CheckPending(d, s) ==
  IF ~Observed(d) THEN d
  ELSE LET e == Shifted(d)
       IN [e EXCEPT !.stream = [x \in Streams |-> IF x \in Present(e) THEN Restamped(e, @[x]) ELSE @[x]]]
-----------------------------------------------------------------------------
(* push_pending_data *)

\* The lowest first timestamp of the program.
SegmentStart(d) ==
  LET firsts == {d.stream[x].first : x \in Present(d)} \ {None}
  IN IF firsts = {} THEN 0 ELSE Min(firsts)

\* mutant: each stream makes its own
NewSegmentOne(d, s) ==
  LET start == SegmentStart(d)
  IN [d EXCEPT !.segment_event = start, !.segment[s] = start, !.stream[s].need_newsegment = FALSE]

\* calculate_and_push_newsegment
NewSegment(d, s) ==
  LET start == IF d.segment_event = None THEN SegmentStart(d) ELSE d.segment_event
  IN [d EXCEPT !.segment_event = start,
               !.segment = [x \in Streams |-> IF x \in Present(d) THEN start ELSE @[x]],
               !.stream = [x \in Streams |->
                             IF x \in Present(d) THEN [@[x] EXCEPT !.need_newsegment = FALSE] ELSE @[x]]]

Current(t) == [data |-> t.data, raw |-> t.raw, pts |-> t.pts]

\* Label beach.
Reset(t) == [t EXCEPT !.state = "empty", !.data = <<>>, !.expected = 0]

\* The buffers that waited, then the current one.
Pushed(d, s) ==
  LET t == d.stream[s]
  IN [d EXCEPT !.out[s] = @ \o t.pending \o <<Current(t)>>, !.stream[s] = [Reset(t) EXCEPT !.pending = <<>>]]

PushPendingData(d, s) ==
  LET t == d.stream[s]
      e == IF t.pending_ts THEN CheckPending(d, s) ELSE d
  IN IF t.data = <<>> \/ t.state # "buffer" THEN [d EXCEPT !.stream[s] = Reset(t)]
     ELSE IF t.pending_ts /\ ~Observed(d)
       THEN [d EXCEPT !.stream[s] = [Reset(t) EXCEPT !.pending = Append(@, [Current(t) EXCEPT !.pts = None])]]
     ELSE Pushed(IF t.need_newsegment THEN NewSegment(e, s) ELSE e, s)
-----------------------------------------------------------------------------
(* handle_packet.  A packet: its PES packet n, its part i of it, its counter. *)

\* gst_ts_demux_parse_pes_header.  The stream is in the state HEADER.
ParsePesHeader(d, s, p) ==
  LET pes == plan[s][p.n]
      raw == PtsOf(pes.header)
      read == [d EXCEPT !.stream[s].raw = raw, !.stream[s].pts = PtsToTs(d, raw)]
      t == read.stream[s]
      e == IF t.pending_ts /\ t.pts # None THEN CheckPending(read, s)
           ELSE IF t.first = None THEN [read EXCEPT !.stream[s].first = t.pts] ELSE read
  IN IF Parse(pes.header, pes.first) # "OK" THEN [d EXCEPT !.stream[s].state = "discont"]
     ELSE [e EXCEPT !.stream[s].expected = IF Bounded(pes.header) THEN pes.length ELSE 0,
                    !.stream[s].data = <<<<p.n, p.i>>>>, !.stream[s].state = "buffer"]

\* mutant: the counter is not looked at
CheckedAny(t, p) == t

\* mutant: what comes after a loss is thrown away even if it begins a PES packet
CheckedAlways(t, p) ==
  IF t.cc # None /\ p.cc # (t.cc + 1) % (MaxCC + 1) THEN [t EXCEPT !.state = "discont"] ELSE t

\* The continuity counter, and the first packet of a PES packet.
Checked(t, p) ==
  IF t.cc # None /\ p.cc # (t.cc + 1) % (MaxCC + 1) /\ t.state # "empty"
  THEN [t EXCEPT !.state = "discont"] ELSE t

Started(t, p) ==
  IF t.state = "empty" THEN [t EXCEPT !.state = IF p.i = 1 THEN "header" ELSE "discont"] ELSE t

QueueData(d, s, p) ==
  LET t == Started([Checked(d.stream[s], p) EXCEPT !.cc = p.cc], p)
  IN CASE t.state = "header" -> ParsePesHeader([d EXCEPT !.stream[s] = t], s, p)
       [] t.state = "buffer" -> [d EXCEPT !.stream[s] = [t EXCEPT !.data = Append(@, <<p.n, p.i>>)]]
       [] t.state = "discont" -> [d EXCEPT !.stream[s] = [t EXCEPT !.data = <<>>, !.cc = None]]

HandlePacket(d, s, p) ==
  LET e == QueueData(IF p.i = 1 THEN PushPendingData(d, s) ELSE d, s, p)
      t == e.stream[s]
  IN IF t.expected # 0 /\ Len(t.data) = t.expected THEN PushPendingData(e, s) ELSE e

\* gst_ts_demux_push: a PID that is no stream of the program goes nowhere.
Push(d, s, p) == IF s \in Present(d) THEN HandlePacket(d, s, p) ELSE d
-----------------------------------------------------------------------------
(* The stream that comes in *)

HasNext(s) == source[s].i < plan[s][source[s].n].length \/ source[s].n < Len(plan[s])

Following(s) ==
  LET p == source[s]
      new == p.i = plan[s][p.n].length
  IN [n |-> IF new THEN p.n + 1 ELSE p.n, i |-> IF new THEN 1 ELSE p.i + 1,
      cc |-> (p.cc + 1) % (MaxCC + 1)]

Good(pes) == WellFormed(pes.header, pes.first)

\* The part up to which the PES packet that is on its way has come without a fault, and the
\* one before it, if that is whole and has not been counted.
Whole(s, p) ==
  LET now == source[s]
  IN (IF p.i = 1 /\ now.whole THEN {now.n} ELSE {})
       \cup (IF (p.i = 1 \/ now.intact) /\ p.i = plan[s][p.n].length
                 /\ Good(plan[s][p.n]) /\ Bounded(plan[s][p.n].header)
             THEN {p.n} ELSE {})

Packet(s) ==
  LET p == Following(s)
      intact == Good(plan[s][p.n]) /\ (p.i = 1 \/ source[s].intact)
  IN
  /\ HasNext(s)
  /\ demux' = Push(demux, s, p)
  /\ source' = [source EXCEPT ![s] = [n |-> p.n, i |-> p.i, cc |-> p.cc, intact |-> intact,
                                      whole |-> intact /\ p.i = plan[s][p.n].length, again |-> @.again]]
  /\ due' = [due EXCEPT ![s] = IF s \in Present(demux) THEN @ \cup Whole(s, p) ELSE @]
  /\ UNCHANGED <<plan, faults, breaks, rejoined, overtaken>>

Lose(s) ==
  LET p == Following(s) IN
  /\ HasNext(s) /\ faults < MaxFaults
  /\ faults' = faults + 1
  /\ source' = [source EXCEPT ![s] = [n |-> p.n, i |-> p.i, cc |-> p.cc, intact |-> FALSE, whole |-> FALSE,
                                      again |-> @.again]]
  /\ UNCHANGED <<plan, demux, breaks, due, rejoined, overtaken>>

\* The last packet comes a second time, which the standard allows; the demuxer takes it for
\* another.  If it is the first of a PES packet that one begins anew.
Repeat(s) ==
  LET p == [n |-> source[s].n, i |-> source[s].i, cc |-> source[s].cc]
      intact == p.i = 1 /\ Good(plan[s][p.n])
  IN
  /\ source[s].i > 0 /\ faults < MaxFaults
  /\ faults' = faults + 1
  /\ demux' = Push(demux, s, p)
  /\ source' = [source EXCEPT ![s].intact = intact, ![s].whole = intact /\ p.i = plan[s][p.n].length,
                              ![s].again = IF p.i = 1 THEN @ \cup {p.n} ELSE @]
  /\ UNCHANGED <<plan, breaks, due, rejoined, overtaken>>

\* record_pcr
Pcr(pcr) ==
  /\ demux.group = NoGroup
  /\ demux' = [demux EXCEPT !.group = [NoGroup EXCEPT !.first = pcr]]
  /\ UNCHANGED <<plan, source, faults, breaks, due, rejoined, overtaken>>

\* After a flush: the packets get to the group, and a PCR goes on with it.
PcrAgain ==
  /\ demux.group.at # "current"
  /\ demux' = [demux EXCEPT !.group.at = IF @ = "before" THEN "within" ELSE "current"]
  /\ UNCHANGED <<plan, source, faults, breaks, due, rejoined, overtaken>>
-----------------------------------------------------------------------------
(* Flushes, seeks and updates *)

Forget ==
  /\ breaks < MaxBreaks /\ breaks' = breaks + 1
  /\ due' = [s \in Streams |-> {}] /\ rejoined' = FALSE
  /\ source' = [s \in Streams |-> [source[s] EXCEPT !.intact = FALSE, !.whole = FALSE]]
  /\ UNCHANGED <<plan, faults>>

\* gst_ts_demux_drain
Drained(d) ==
  LET upto[i \in 0 .. Len(StreamList)] ==
        IF i = 0 THEN d
        ELSE IF StreamList[i] \in Present(d) THEN PushPendingData(upto[i - 1], StreamList[i])
        ELSE upto[i - 1]
  IN upto[Len(StreamList)]

\* mpegts_packetizer_flush, not hard: the group stays, but none is current.
Closed(d, at) == IF d.group = NoGroup THEN d ELSE [d EXCEPT !.group.at = at]

\* A buffer with DISCONT, mpegts_base_chain.
Discont(at) ==
  /\ Forget
  /\ demux' = Closed(StreamsFlushed(Drained(demux), FALSE), at)
  /\ UNCHANGED overtaken

\* FLUSH_STOP, which comes in push mode: nothing stays, unless a seek of the demuxer causes it.
\* That seek may have got its segment pushed already, which the flush then takes from the pads.
FlushStop(at) ==
  LET hard == demux.mode # "seeking"
      d == StreamsFlushed(demux, hard)
      e == IF hard THEN [d EXCEPT !.group = NoGroup] ELSE Closed(d, at)
  IN
  /\ demux.mode # "streaming" /\ Forget
  /\ demux' = [e EXCEPT !.segment = [s \in Streams |-> None]]
  /\ overtaken' = (~hard /\ \E s \in Present(demux) : ~demux.stream[s].need_newsegment)

\* gst_ts_demux_do_seek: every stream gets a segment anew.
Sought(d) ==
  [d EXCEPT !.segment_event = None,
            !.stream = [s \in Streams |->
              IF s \in Present(d) THEN [@[s] EXCEPT !.need_newsegment = TRUE, !.first = None] ELSE @[s]]]

\* A flushing seek in pull mode, where the streaming thread waits for it.
Seek(at) ==
  /\ demux.mode = "streaming" /\ Forget
  /\ demux' = [Sought(Closed(StreamsFlushed(demux, FALSE), at)) EXCEPT !.segment = [s \in Streams |-> None]]
  /\ overtaken' = FALSE

\* A seek in push mode: the packets go on to come while upstream is asked to seek in BYTES, which
\* it may do with a flush, without one or not at all.  There is no offset without a group.
PushSeek ==
  /\ breaks < MaxBreaks /\ breaks' = breaks + 1
  /\ demux.mode = "pushing" /\ demux.group # NoGroup
  /\ demux' = [Sought(demux) EXCEPT !.mode = "seeking"]
  /\ UNCHANGED <<plan, source, faults, due, rejoined, overtaken>>

SeekReturns ==
  /\ demux.mode = "seeking"
  /\ demux' = [demux EXCEPT !.mode = "pushing"]
  /\ UNCHANGED <<plan, source, faults, breaks, due, rejoined, overtaken>>

\* push_event with EOS: what waits for a timestamp stays where it is.
Eos ==
  /\ \A s \in Streams : ~HasNext(s)
  /\ demux' = Drained(demux) /\ demux' # demux
  /\ UNCHANGED <<plan, source, faults, breaks, due, rejoined, overtaken>>

\* gst_ts_demux_stream_removed, for a stream that an update takes out of the program.
StreamRemoved(s) ==
  LET d == IF demux.stream[s].active THEN PushPendingData(demux, s) ELSE demux IN
  /\ breaks < MaxBreaks /\ breaks' = breaks + 1
  /\ Present(demux) # {s} /\ demux.stream[s].pad
  /\ demux' = [d EXCEPT !.stream[s] = [StreamFlushed(@, TRUE) EXCEPT !.pad = FALSE, !.active = FALSE],
                        !.segment[s] = None, !.out[s] = <<>>]
  /\ due' = [due EXCEPT ![s] = {}]
  /\ source' = [source EXCEPT ![s].intact = FALSE, ![s].whole = FALSE]
  /\ UNCHANGED <<plan, faults, rejoined, overtaken>>

\* gst_ts_demux_stream_added: a new pad, which update_program does not activate.
StreamAdded(s) ==
  /\ breaks < MaxBreaks /\ breaks' = breaks + 1
  /\ ~demux.stream[s].pad
  /\ demux' = [demux EXCEPT !.stream[s] = NewStream]
  /\ source' = [source EXCEPT ![s].intact = FALSE, ![s].whole = FALSE]
  /\ rejoined' = TRUE
  /\ UNCHANGED <<plan, faults, due, overtaken>>
-----------------------------------------------------------------------------
\* gst_ts_demux_program_started has activated the pads.
Init ==
  /\ plan \in {p \in [Streams -> UNION {Plans[s] : s \in Streams}] : \A s \in Streams : p[s] \in Plans[s]}
  /\ source = [s \in Streams |-> [n |-> 1, i |-> 0, cc |-> MaxCC, intact |-> FALSE, whole |-> FALSE,
                                again |-> {}]]
  /\ \E mode \in {"pushing", "streaming"} :
       demux = [mode |-> mode, stream |-> [s \in Streams |-> [NewStream EXCEPT !.active = TRUE]],
                group |-> NoGroup, segment_event |-> None, segment |-> [s \in Streams |-> None],
                out |-> [s \in Streams |-> <<>>]]
  /\ faults = 0 /\ breaks = 0 /\ due = [s \in Streams |-> {}]
  /\ rejoined = FALSE /\ overtaken = FALSE

Next ==
  \/ \E s \in Streams : Packet(s) \/ Lose(s) \/ Repeat(s) \/ StreamRemoved(s) \/ StreamAdded(s)
  \/ \E pcr \in Pcrs : Pcr(pcr)
  \/ \E at \in {"before", "within"} : Discont(at) \/ FlushStop(at) \/ Seek(at)
  \/ PcrAgain \/ PushSeek \/ SeekReturns \/ Eos

Spec == Init /\ [][Next]_vars
-----------------------------------------------------------------------------
Number(b) == b.data[1][1]

Held(s) == demux.out[s] \o demux.stream[s].pending

\* A buffer is the front of one PES packet, never pieces of two, and buffers are in the order in
\* which the PES packets were sent.  None is there twice but one whose first packet came again,
\* which begins it anew: what there is of it by then goes out as well.
Intact ==
  \A s \in Streams :
    /\ \A k \in DOMAIN Held(s) : LET b == Held(s)[k] IN
         b.data = [i \in DOMAIN b.data |-> <<Number(b), i>>]
    /\ \A k \in 1 .. Len(Held(s)) - 1 : LET n == Number(Held(s)[k]) IN
         \/ n < Number(Held(s)[k + 1])
         \/ n = Number(Held(s)[k + 1]) /\ n \in source[s].again

\* A PES packet that came whole, whose end could be known, is pushed or waits for a timestamp,
\* whatever was lost before it.
Delivered ==
  \A s \in Streams : \A n \in due[s] :
    \E k \in DOMAIN Held(s) : Number(Held(s)[k]) = n /\ Len(Held(s)[k].data) = plan[s][n].length

\* All that is pushed is on one time line: the stream time of its PTS as the clock has it now.
\* So no stream shifts the clock once another has pushed.  A stream that is added does.
Stamped ==
  ~rejoined => \A s \in Streams : \A k \in DOMAIN demux.out[s] :
                 LET b == demux.out[s][k] IN b.pts = PtsToTs(demux, b.raw)

\* No buffer without a segment, and all streams have got the same one, until the streaming thread
\* pushes the segment of a seek in push mode before the FLUSH_STOP of that seek has come.  Then
\* need_newsegment is FALSE and the pads have no segment.
OneSegment ==
  ~overtaken =>
    \A s, x \in Present(demux) :
      demux.out[s] # <<>> =>
        /\ demux.segment[s] # None
        /\ demux.out[x] # <<>> => demux.segment[x] = demux.segment[s]

\* The parser's verdicts are sound, for the headers of the stream and any other, and for any part
\* of one that has come.  It keeps no state: to look before the first packet is enough.
HeadersJudged ==
  (\A s \in Streams : source[s].n = 1 /\ source[s].i = 0) /\ breaks = 0 =>
    \A h \in Headers \cup UNION {{pes.header : pes \in Range(plan[s])} : s \in Streams} : Sound(h, Lengths)
=============================================================================
