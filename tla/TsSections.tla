----------------------------- MODULE TsSections -----------------------------
(***************************************************************************)
(* Section assembly of the TS packetizer (gst-demux/mpegtspacketizer.c):   *)
(* one MpegTSPacketizerStream, that is one PID with tables, and the        *)
(* multiplexer that sends it sections in packets, some of which get lost,  *)
(* damaged or repeated.  A section is a run of cells, <<s, i>> the i-th of *)
(* section s; a packet is a few cells, and a pointer to the first section  *)
(* that starts in it.  mpegts_packetizer_push_section is a step per label: *)
(* the checks on the packet, accumulate_data and section_start.            *)
(*                                                                         *)
(* run, finished and published are history: what a receiver that knows the *)
(* cells apart would have to report.                                       *)
(***************************************************************************)
EXTENDS Integers, Sequences, FiniteSets

CONSTANTS
  Sections,     \* what the multiplexer sends
  fields,       \* their headers, and their lengths in cells
  Payload,      \* cells of a packet; the pointer takes one
  ShortHeader,  \* cells of which the code needs all to begin a section ...
  LongHeader,   \* ... of the long syntax
  CcModulus,    \* 16
  Stuffing,     \* a cell of 0xff
  None,
  MaxFaults     \* packets lost, damaged or repeated

ASSUME SectionAssumption ==
  /\ Payload \in Nat /\ CcModulus \in Nat \ {0, 1} /\ MaxFaults \in Nat
  /\ LongHeader \in Nat /\ ShortHeader \in 1 .. LongHeader /\ LongHeader < Payload
  /\ Stuffing \notin Sections \X Nat
  /\ \A s \in Sections :
       /\ fields[s].long \in BOOLEAN /\ fields[s].current \in BOOLEAN
       /\ fields[s].length \in (IF fields[s].long THEN LongHeader ELSE ShortHeader) .. 4096

VARIABLES
  left,        \* cells of the section the multiplexer is in that it has not sent
  next_cc,     \* continuity counter of the next packet
  faults,
  step, packet, data, \* where push_section is: label, packet, index of the next cell
  sections,    \* what it returns: res and the remaining ones
  stream,      \* packetizer->streams[pid], or None
  run, finished, published

muxVars == <<left, next_cc, faults>>
vars == <<muxVars, step, packet, data, sections, stream, run, finished, published>>
-----------------------------------------------------------------------------
Least(a, b) == IF a < b THEN a ELSE b

Cells(s) == [i \in 1 .. fields[s].length |-> <<s, i>>]

Unset == CcModulus

\* current_next_indicator, and a number that the table can have
Applies(s) == fields[s].current /\ fields[s].section_number <= fields[s].last_section_number

\* The header as push_section reads it: a short section has none of the fields of a table.
Header(s) ==
  IF fields[s].long
  THEN [table_id |-> fields[s].table_id, subtable_extension |-> fields[s].subtable_extension,
        version_number |-> fields[s].version_number, section_number |-> fields[s].section_number,
        last_section_number |-> fields[s].last_section_number]
  ELSE [table_id |-> fields[s].table_id, subtable_extension |-> 0, version_number |-> 0,
        section_number |-> 0, last_section_number |-> 0]

\* mpegts_packetizer_stream_new
NewStream == [continuity_counter |-> Unset, section_length |-> 0, section_data |-> <<>>,
              header |-> None, subtables |-> {}]

\* mutant: the counter of the packet before the gap stays
ClearedButCounter(st) == [st EXCEPT !.section_length = 0, !.section_data = <<>>, !.header = None]

\* mutant: the subtables go as well
ClearedAll(st) == NewStream

\* mpegts_packetizer_clear_section.  section_offset is the length of section_data.
Cleared(st) == [NewStream EXCEPT !.subtables = st.subtables]

\* find_subtable
Subtable(st, h) ==
  {t \in st.subtables : t.table_id = h.table_id /\ t.subtable_extension = h.subtable_extension}

\* mutant: what was seen of another version counts as well
SeenAnyVersion(st, h) == \E t \in Subtable(st, h) : h.section_number \in t.seen_section

SeenBefore(st, h) ==
  \E t \in Subtable(st, h) :
     /\ t.version_number = h.version_number
     /\ t.last_section_number = h.last_section_number
     /\ h.section_number \in t.seen_section

\* The subtables after parse_section_header: a new version starts afresh, and the number of
\* the last section is taken over only then.
Recorded(st, h) ==
  LET same == {t \in Subtable(st, h) : t.version_number = h.version_number}
      sub == IF same = {}
             THEN [table_id |-> h.table_id, subtable_extension |-> h.subtable_extension,
                   version_number |-> h.version_number,
                   last_section_number |-> h.last_section_number,
                   seen_section |-> {h.section_number}]
             ELSE [(CHOOSE t \in same : TRUE) EXCEPT !.seen_section = @ \cup {h.section_number}]
  IN (st.subtables \ Subtable(st, h)) \cup {sub}
-----------------------------------------------------------------------------
(* The multiplexer: the rest of the section it is in, up to two sections that start in the
   packet, stuffing. *)

Starting == {<<>>} \cup {<<s>> : s \in Sections} \cup {<<s, t>> : s, t \in Sections}

Sent(new) == left \o (IF new = <<>> THEN <<>> ELSE Cells(new[1]))
                  \o (IF Len(new) < 2 THEN <<>> ELSE Cells(new[2]))

Room(new) == IF new = <<>> THEN Payload ELSE Payload - 1

\* The last section begins in this packet, at the latest in its last cell.
Fits(new) ==
  /\ left # <<>> \/ new # <<>>
  /\ new # <<>> => Len(Sent(new)) - fields[new[Len(new)]].length < Room(new)

Padding == [i \in 1 .. Payload |-> Stuffing]

Packet(new) ==
  [pusi |-> new # <<>>, pointer |-> Len(left), cc |-> next_cc,
   cells |-> SubSeq(Sent(new) \o Padding, 1, Room(new))]

Advance(new) ==
  /\ left' = SubSeq(Sent(new), Room(new) + 1, Len(Sent(new)))
  /\ next_cc' = (next_cc + 1) % CcModulus
-----------------------------------------------------------------------------
(* What a receiver that knows the cells would make of a packet.  It starts a section whose
   header is in one packet, unless one that does not apply stands before it there. *)

Begun(p) == {i \in 1 .. Len(p.cells) : p.cells[i] # Stuffing /\ p.cells[i][2] = 1}

In(p, i) == Least(fields[p.cells[i][1]].length, Len(p.cells) - i + 1)

Found(p, i) ==
  LET s == p.cells[i][1] IN
  /\ In(p, i) >= (IF fields[s].long THEN LongHeader ELSE ShortHeader)
  /\ \A j \in Begun(p) : j <= i => Applies(p.cells[j][1])

\* The section that is going on, with the cells of it in p.
Continued(p) ==
  Cardinality({i \in 1 .. Len(p.cells) : p.cells[i] # Stuffing /\ p.cells[i][1] = run.section
                                         /\ p.cells[i][2] = run.count + i})

\* The sections that p completes; of them those that are not known when it comes.
Ended(p, gap) ==
  {p.cells[i][1] : i \in {j \in Begun(p) : Found(p, j) /\ In(p, j) = fields[p.cells[j][1]].length}}
    \cup (IF run # None /\ ~gap /\ run.count + Continued(p) = fields[run.section].length
          THEN {run.section} ELSE {})

Whole(p, gap) == Ended(p, gap) \ published

GoesOn(p, gap) ==
  LET open == {i \in Begun(p) : Found(p, i) /\ In(p, i) < fields[p.cells[i][1]].length} IN
  IF open # {} THEN LET i == CHOOSE j \in open : TRUE
                    IN [section |-> p.cells[i][1], count |-> In(p, i)]
  ELSE IF run # None /\ ~gap /\ ~p.pusi /\ run.count + Continued(p) < fields[run.section].length
       THEN [run EXCEPT !.count = @ + Continued(p)]
       ELSE None
-----------------------------------------------------------------------------
Idle == step = "idle"

\* mutant: any packet goes on with the section
FollowsAny(st, p) == st.continuity_counter # Unset

Follows(st, p) ==
  st.continuity_counter # Unset /\ (st.continuity_counter + 1) % CcModulus = p.cc

\* The checks at the top of push_section.  A packet that follows on the last one goes on with
\* its section, any other one has to start a section.
Enter(p) ==
  LET st == IF stream = None THEN NewStream ELSE stream
      starts == p.pusi /\ (p.pointer = 0 \/ ~Follows(st, p))
  IN
  /\ packet' = p /\ sections' = <<>>
  /\ data' = IF starts THEN p.pointer + 1 ELSE 1
  /\ IF stream = None /\ ~p.pusi THEN step' = "out" /\ stream' = None
     ELSE /\ step' = IF starts THEN "section_start" ELSE IF Follows(st, p) THEN "accumulate" ELSE "out"
          /\ stream' = IF starts \/ ~Follows(st, p) THEN Cleared(st) ELSE st

Arrive(new) ==
  /\ Idle /\ Fits(new)
  /\ Advance(new)
  /\ Enter(Packet(new))
  /\ finished' = Whole(Packet(new), FALSE) /\ run' = GoesOn(Packet(new), FALSE)
  /\ UNCHANGED <<faults, published>>

\* Lost, or with transport_error_indicator or an impossible adaptation field: PACKET_BAD.
Lose(new) ==
  /\ Idle /\ Fits(new) /\ faults < MaxFaults
  /\ Advance(new)
  /\ faults' = faults + 1
  /\ run' = None
  /\ UNCHANGED <<step, packet, data, sections, stream, finished, published>>

\* The packet comes again, with the same counter.
Repeat ==
  /\ Idle /\ packet # None /\ faults < MaxFaults
  /\ packet.cc = (next_cc + CcModulus - 1) % CcModulus
  /\ Enter(packet)
  /\ faults' = faults + 1
  /\ finished' = Whole(packet, TRUE) /\ run' = GoesOn(packet, TRUE)
  /\ UNCHANGED <<left, next_cc, published>>

Key(s) == [table_id |-> fields[s].table_id, extension |-> Header(s).subtable_extension]

Version(s) == Header(s).version_number

\* The section with these cells is reported; another version of its table is history.
Report(cells) ==
  LET s == cells[1][1] IN
  /\ sections' = Append(sections, cells)
  /\ published' = {t \in published : Key(t) # Key(s) \/ Version(t) = Version(s)} \cup {s}

\* accumulate_data: the section is reported when all of it is there.
Accumulate ==
  LET to_read == Least(stream.section_length - Len(stream.section_data),
                       Len(packet.cells) - data + 1)
      all == stream.section_data \o SubSeq(packet.cells, data, data + to_read - 1)
  IN
  /\ step = "accumulate"
  /\ data' = data + to_read
  /\ IF Len(all) < stream.section_length
     THEN /\ stream' = [stream EXCEPT !.continuity_counter = packet.cc, !.section_data = all]
          /\ step' = "out"
          /\ UNCHANGED <<sections, published>>
     ELSE /\ stream' = [Cleared(stream) EXCEPT !.subtables = Recorded(stream, stream.header)]
          /\ Report(all)
          /\ step' = "section_start"
  /\ UNCHANGED <<muxVars, packet, run, finished>>

Rest == Len(packet.cells) - data + 1

AtStuffing(i) == i > Len(packet.cells) \/ packet.cells[i] = Stuffing

Begins == step = "section_start" /\ Rest >= ShortHeader /\ ~AtStuffing(data)

NothingMore ==
  /\ step = "section_start" /\ ~Begins
  /\ stream' = Cleared(stream) /\ step' = "out"
  /\ UNCHANGED <<muxVars, packet, data, sections, run, finished, published>>

Here == packet.cells[data][1]

\* A short section that ends before the packet does is reported at once.
IsFast(s) == ~fields[s].long /\ fields[s].length < Rest

ShortSection ==
  /\ Begins /\ IsFast(Here)
  /\ Report(SubSeq(packet.cells, data, data + fields[Here].length - 1))
  /\ data' = data + fields[Here].length
  /\ step' = IF AtStuffing(data + fields[Here].length) THEN "out" ELSE "section_start"
  /\ UNCHANGED <<muxVars, packet, stream, run, finished>>

\* Header cut off, or a section that does not apply: the rest of the packet is not looked at.
GivesUp(s) == fields[s].long /\ (Rest < LongHeader \/ ~Applies(s))

Leave ==
  /\ Begins /\ ~IsFast(Here) /\ GivesUp(Here)
  /\ step' = "out"
  /\ UNCHANGED <<muxVars, packet, data, sections, stream, run, finished, published>>

SkipSeen ==
  LET after == data + Least(fields[Here].length, Rest) IN
  /\ Begins /\ ~IsFast(Here) /\ ~GivesUp(Here) /\ SeenBefore(stream, Header(Here))
  /\ data' = after
  /\ step' = IF AtStuffing(after) THEN "out" ELSE "section_start"
  /\ UNCHANGED <<muxVars, packet, sections, stream, run, finished, published>>

StartSection ==
  /\ Begins /\ ~IsFast(Here) /\ ~GivesUp(Here) /\ ~SeenBefore(stream, Header(Here))
  /\ stream' = [stream EXCEPT !.header = Header(Here), !.section_length = fields[Here].length,
                              !.section_data = <<>>]
  /\ step' = "accumulate"
  /\ UNCHANGED <<muxVars, packet, data, sections, run, finished, published>>

\* The caller takes what was reported.
Out ==
  /\ step = "out" /\ step' = "idle"
  /\ sections' = <<>> /\ data' = 1 /\ finished' = {}
  /\ UNCHANGED <<muxVars, packet, stream, run, published>>

\* mpegts_packetizer_flush keeps the subtables ...
Flush ==
  /\ Idle /\ stream # None
  /\ stream' = Cleared(stream)
  /\ run' = None
  /\ UNCHANGED <<muxVars, step, packet, data, sections, finished, published>>

\* ... mpegts_packetizer_clear and remove_stream do not.
RemoveStream ==
  /\ Idle /\ stream # None
  /\ stream' = None
  /\ run' = None /\ published' = {}
  /\ UNCHANGED <<muxVars, step, packet, data, sections, finished>>
-----------------------------------------------------------------------------
Init ==
  /\ left = <<>> /\ next_cc = 0 /\ faults = 0
  /\ step = "idle" /\ packet = None /\ data = 1 /\ sections = <<>>
  /\ stream = None
  /\ run = None /\ finished = {} /\ published = {}

Push == Accumulate \/ NothingMore \/ ShortSection \/ Leave \/ SkipSeen \/ StartSection \/ Out

Next ==
  \/ \E new \in Starting : Arrive(new) \/ Lose(new)
  \/ Repeat \/ Push \/ Flush \/ RemoveStream

Spec == Init /\ [][Next]_vars
-----------------------------------------------------------------------------
Headers == {Header(s) : s \in Sections}

Subtables ==
  [table_id : {h.table_id : h \in Headers},
   subtable_extension : {h.subtable_extension : h \in Headers},
   version_number : {h.version_number : h \in Headers},
   last_section_number : {h.last_section_number : h \in Headers},
   seen_section : SUBSET {h.section_number : h \in Headers}]

Streams ==
  [continuity_counter : 0 .. CcModulus, section_length : Nat,
   section_data : Seq((Sections \X Nat) \cup {Stuffing}),
   header : Headers \cup {None}, subtables : SUBSET Subtables]

Packets ==
  [pusi : BOOLEAN, pointer : Nat, cc : 0 .. CcModulus - 1,
   cells : Seq((Sections \X Nat) \cup {Stuffing})]

ASSUME NoneAssumption == None \notin Streams /\ None \notin Packets

\* Types; the stream has a counter exactly while it waits for the rest of a section, and never
\* two subtables for one table.
TypeOK ==
  /\ next_cc \in 0 .. CcModulus - 1 /\ faults \in 0 .. MaxFaults
  /\ step \in {"idle", "accumulate", "section_start", "out"} /\ data \in 1 .. Payload + 1
  /\ published \subseteq Sections /\ finished \subseteq Sections
  /\ stream # None =>
       /\ stream.subtables \subseteq Subtables
       /\ \A t, u \in stream.subtables :
            t.table_id = u.table_id /\ t.subtable_extension = u.subtable_extension => t = u
       /\ step = "idle" =>
            (stream.continuity_counter # Unset <=> Len(stream.section_data) < stream.section_length)

\* A section that is reported is one that was sent, whole and in order, however many packets
\* got lost or came twice in between; and sections are looked for where sections start.
Intact ==
  /\ \A i \in 1 .. Len(sections) : \E s \in Sections : sections[i] = Cells(s)
  /\ step = "section_start" /\ ~AtStuffing(data) => packet.cells[data][2] = 1

\* The table_id says which syntax a section has: one that is reported at once is in no subtable,
\* and would make its table another one without the code knowing it.
OneSyntaxPerTable ==
  \A s, t \in Sections : fields[s].table_id = fields[t].table_id => fields[s].long = fields[t].long

\* The code knows a section by its table, version and number; short ones have only a table_id.
OneSectionPerNumber ==
  \A s, t \in Sections :
    Key(s) = Key(t) /\ Version(s) = Version(t) /\ Header(s).section_number = Header(t).section_number
      => s = t

\* The comment of push_section: a section that is complete is reported if it is an update or
\* was never seen, also when it shares packets with others or follows a fault.
NothingLost ==
  step = "out" /\ OneSyntaxPerTable /\ OneSectionPerNumber =>
     \A s \in finished : \E i \in 1 .. Len(sections) : sections[i] = Cells(s)

\* All sections of a version agree on the number of the last one.
SteadyTables ==
  \A s, t \in Sections : Key(s) = Key(t) /\ Version(s) = Version(t)
                   => Header(s).last_section_number = Header(t).last_section_number

\* The same comment: what was reported is not reported again until its table has changed.
Fresh ==
  [][SteadyTables =>
       \A s \in Sections : fields[s].long /\ s \in published => sections' # Append(sections, Cells(s))]_vars
=============================================================================
