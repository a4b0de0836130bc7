----------------------------- MODULE MpegTSBase -----------------------------
(***************************************************************************)
(* The program table of the demultiplexer (gst-demux/mpegtsbase.c) with    *)
(* the program selection of tsdemux.c, the subclass that may keep a        *)
(* program the base class wants to remove.  The base class learns of       *)
(* programs from the PAT and of their streams from the PMTs, and sorts     *)
(* the PIDs: packets of is_pes go to the subclass, those of known_psi to   *)
(* the section parser, the others nowhere.                                 *)
(*                                                                         *)
(* The streaming thread handles one section after the other.  The two      *)
(* loops of apply_pat are steps per entry; everything else is one step per *)
(* section.  The application may set program-number between any two.       *)
(* Programs are cells of a heap, because the subclass holds pointers to    *)
(* them that outlive their place in the table.  A subclass that keeps no   *)
(* program (tsparse) is the case of a requested number nobody carries.     *)
(***************************************************************************)
EXTENDS Integers, Sequences, FiniteSets

CONSTANTS
  Programs,      \* program numbers
  Slots,         \* cells for MpegTSBaseProgram
  Null,          \* no program: in the table, in a pointer, in program_number
  AnyProgram,    \* requested_program_number == -1
  Pids, NoPid,   \* NoPid: G_MAXUINT16
  DefaultPsi,    \* PIDs of PAT, TSDT, ...: set in known_psi by every reset
  PmtPids,       \* PIDs on which PMTs are sent
  Types,         \* stream types
  PrivateTypes,  \* those that carry sections
  PcrOnly,       \* type 0xff: a PID that carries nothing but the PCR
  NoStream,      \* on a PID that is none of the program
  ParsePrivate,  \* parse_private_sections: TRUE in tsdemux
  Pats,          \* PATs: sequences of [program_number, pid]
  Pmts,          \* PMTs: [pcr, streams], streams the type on every PID
  MgtPids,       \* PIDs an ATSC MGT may name
  Requests       \* values the application may give to program-number

ASSUME BaseAssumption ==
  /\ IsFiniteSet(Programs) /\ IsFiniteSet(Slots)
  /\ Null \notin Slots \cup Programs /\ AnyProgram \notin Programs \cup {Null}
  /\ NoPid \notin Pids /\ DefaultPsi \cup PmtPids \cup MgtPids \subseteq Pids
  /\ Requests \subseteq Programs \cup {AnyProgram}
  /\ PrivateTypes \subseteq Types /\ PcrOnly \notin Types /\ NoStream \notin Types \cup {PcrOnly}
  /\ ParsePrivate \in BOOLEAN
  /\ Pats \subseteq Seq([program_number : Programs, pid : Pids])
  /\ Pmts \subseteq [pcr : Pids \ DefaultPsi, streams : [Pids -> Types \cup {NoStream}]]
  /\ \A t \in Pmts : \A x \in DefaultPsi : t.streams[x] = NoStream

VARIABLES
  table,          \* base->programs: number -> cell
  live,           \* cells in use
  program,        \* what they hold
  pat, old_pat,   \* base->pat, and the one apply_pat is replacing
  phase, entry,   \* where the streaming thread is in apply_pat
  known_psi, is_pes,
  seen_pat,
  streams_aware,  \* flag of the bin around the element, read on reset
  current,        \* demux->program
  previous,       \* demux->previous_program
  program_number, requested \* of the demuxer

patVars == <<pat, old_pat, phase, entry>>
pidVars == <<known_psi, is_pes>>
programVars == <<table, live, program>>
demuxVars == <<current, previous, program_number>>
vars == <<programVars, patVars, pidVars, seen_pat, streams_aware, demuxVars, requested>>
-----------------------------------------------------------------------------
NoStreams == [x \in Pids |-> NoStream]

StreamsOf(p) == {x \in Pids : p.streams[x] # NoStream}

NoPmt == [pcr |-> NoPid, streams |-> NoStreams]

\* A program of which no PMT has come yet has no streams and is not active.
NewProgram(pid, count) ==
  [pmt_pid |-> pid, pcr_pid |-> NoPid, pmt |-> NoPmt, streams |-> NoStreams,
   patcount |-> count, active |-> FALSE]

Freed == NewProgram(NoPid, 0)

Cell(heap, s) == IF s = Null THEN Freed ELSE heap[s]

\* program_add_stream: a PID that is there already stays as it is.
WithStreams(f, g) == [x \in Pids |-> IF f[x] # NoStream THEN f[x] ELSE g[x]]

PrivateOf(t) == {x \in Pids : t.streams[x] \in PrivateTypes}

PesOf(t) == StreamsOf(t) \ PrivateOf(t)

\* mutant: PIDs are given back though other programs use them
UsedNowhere(tab, heap) == {}

\* pid_in_active_programs, of the table tab
UsedPids(tab, heap) ==
  UNION {StreamsOf(heap[tab[n]]) :
           n \in {m \in Programs : tab[m] # Null /\ heap[tab[m]].active}}

\* mutant: the PCR keeps its bit
PesBackNoPcr(p) == PesOf(p.pmt)

\* The PIDs deactivate_program gives back unless they are used.  A program that is not
\* active gives back nothing: it has neither PMT nor PCR.
PesBack(p) == PesOf(p.pmt) \cup {p.pcr_pid}

PsiBack(p) == IF ParsePrivate THEN PrivateOf(p.pmt) ELSE {}

\* mutant: the default of the base class
CanRemoveAny(s) == s # Null

\* can_remove_program of tsdemux
CanRemove(s) == current # s

\* program_stopped
Stop(s) ==
  /\ current' = IF current = s THEN Null ELSE current
  /\ program_number' = IF current = s THEN Null ELSE program_number
-----------------------------------------------------------------------------
Idle == phase = "idle"

SetProgramNumber(n) ==
  /\ requested' = n
  /\ UNCHANGED <<programVars, patVars, pidVars, seen_pat, streams_aware, demuxVars>>

FlushStop ==
  /\ Idle /\ seen_pat' = FALSE
  /\ UNCHANGED <<programVars, patVars, pidVars, streams_aware, demuxVars, requested>>

\* Every program goes, and then the one the demuxer has kept.
Reset ==
  /\ Idle
  /\ table' = [n \in Programs |-> Null]
  /\ live' = {}
  /\ program' = [s \in Slots |-> Freed]
  /\ pat' = <<>>
  /\ is_pes' = {} /\ known_psi' = DefaultPsi
  /\ seen_pat' = FALSE
  /\ streams_aware' \in BOOLEAN
  /\ LET stopped == {table[n] : n \in Programs} \cup {previous}
         stops == current \in stopped
     IN /\ current' = IF stops THEN Null ELSE current
        /\ program_number' = IF stops THEN Null ELSE program_number
  /\ previous' = Null
  /\ UNCHANGED <<old_pat, phase, entry, requested>>
-----------------------------------------------------------------------------
(* The PAT *)

\* mutant: the new table is added to the old one
ApplyPatMerged(p) ==
  /\ Idle
  /\ pat' = pat \o p /\ old_pat' = pat
  /\ phase' = "add" /\ entry' = 1
  /\ UNCHANGED <<programVars, pidVars, seen_pat, streams_aware, demuxVars, requested>>

ApplyPat(p) ==
  /\ Idle
  /\ pat' = p /\ old_pat' = pat
  /\ phase' = "add" /\ entry' = 1
  /\ UNCHANGED <<programVars, pidVars, seen_pat, streams_aware, demuxVars, requested>>

AddNew(s) ==
  LET e == pat[entry] IN
  /\ phase = "add" /\ entry <= Len(pat)
  /\ table[e.program_number] = Null
  /\ table' = [table EXCEPT ![e.program_number] = s]
  /\ live' = live \cup {s}
  /\ program' = [program EXCEPT ![s] = NewProgram(e.pid, 1)]
  /\ known_psi' = known_psi \cup {e.pid}
  /\ entry' = entry + 1
  /\ UNCHANGED <<pat, old_pat, phase, is_pes, seen_pat, streams_aware, demuxVars, requested>>

\* One reference more, maybe to another PMT PID.
Listed(p, pid) == [p EXCEPT !.pmt_pid = pid, !.patcount = p.patcount + 1]

\* mutant: only new programs are counted
AddKnownUncounted ==
  LET e == pat[entry]
      s == table[e.program_number]
      p == program[s]
  IN
  /\ phase = "add" /\ entry <= Len(pat)
  /\ s # Null
  /\ known_psi' = IF p.pmt_pid = e.pid THEN known_psi
                  ELSE (known_psi \ {p.pmt_pid}) \cup {e.pid}
  /\ program' = [program EXCEPT ![s] = [p EXCEPT !.pmt_pid = e.pid]]
  /\ entry' = entry + 1
  /\ UNCHANGED <<table, live, pat, old_pat, phase, is_pes, seen_pat, streams_aware, demuxVars,
                 requested>>

\* mutant: the new PMT PID is not listened to
AddKnownOldPid ==
  LET e == pat[entry]
      s == table[e.program_number]
  IN
  /\ phase = "add" /\ entry <= Len(pat)
  /\ s # Null
  /\ known_psi' = IF program[s].pmt_pid = e.pid THEN known_psi ELSE known_psi \ {program[s].pmt_pid}
  /\ program' = [program EXCEPT ![s] = Listed(@, e.pid)]
  /\ entry' = entry + 1
  /\ UNCHANGED <<table, live, pat, old_pat, phase, is_pes, seen_pat, streams_aware, demuxVars,
                 requested>>

\* The PMT PID of the program may have changed; the old one is no PSI PID any more.
AddKnown ==
  LET e == pat[entry]
      s == table[e.program_number]
      p == program[s]
  IN
  /\ phase = "add" /\ entry <= Len(pat)
  /\ s # Null
  /\ known_psi' = IF p.pmt_pid = e.pid THEN known_psi
                  ELSE (known_psi \ {p.pmt_pid}) \cup {e.pid}
  /\ program' = [program EXCEPT ![s] = Listed(p, e.pid)]
  /\ entry' = entry + 1
  /\ UNCHANGED <<table, live, pat, old_pat, phase, is_pes, seen_pat, streams_aware, demuxVars,
                 requested>>

EndAdd ==
  /\ phase = "add" /\ entry > Len(pat)
  /\ phase' = "drop" /\ entry' = 1
  /\ UNCHANGED <<programVars, pat, old_pat, pidVars, seen_pat, streams_aware, demuxVars,
                 requested>>

Unneeded(n) == table[n] # Null /\ Cell(program, table[n]).patcount <= 1

\* One reference less; a program that is not there (a broken PAT) is skipped.
DropKept ==
  LET n == old_pat[entry].program_number IN
  /\ phase = "drop" /\ entry <= Len(old_pat)
  /\ ~Unneeded(n)
  /\ program' = [s \in Slots |-> IF s = table[n] THEN [program[s] EXCEPT !.patcount = @ - 1]
                                 ELSE program[s]]
  /\ entry' = entry + 1
  /\ UNCHANGED <<table, live, pat, old_pat, phase, pidVars, seen_pat, streams_aware, demuxVars,
                 requested>>

\* The bit of the PMT PID is set, not unset: sections on it are still looked at.
DropRemoved ==
  LET e == old_pat[entry]
      s == table[e.program_number]
      rest == [table EXCEPT ![e.program_number] = Null]
      used == UsedPids(rest, program)
  IN
  /\ phase = "drop" /\ entry <= Len(old_pat)
  /\ Unneeded(e.program_number) /\ CanRemove(s)
  /\ table' = rest
  /\ live' = live \ {s}
  /\ program' = [program EXCEPT ![s] = Freed]
  /\ is_pes' = is_pes \ (PesBack(program[s]) \ used)
  /\ known_psi' = (known_psi \ (PsiBack(program[s]) \ used)) \cup {e.pid}
  /\ Stop(s)
  /\ entry' = entry + 1
  /\ UNCHANGED <<pat, old_pat, phase, seen_pat, streams_aware, previous, requested>>

\* The demuxer keeps the program it plays until the next one starts.
DropStolen ==
  LET e == old_pat[entry]
      s == table[e.program_number]
  IN
  /\ phase = "drop" /\ entry <= Len(old_pat)
  /\ Unneeded(e.program_number) /\ ~CanRemove(s)
  /\ previous' = s /\ program_number' = Null
  /\ table' = [table EXCEPT ![e.program_number] = Null]
  /\ program' = [program EXCEPT ![s] = [program[s] EXCEPT !.patcount = @ - 1]]
  /\ known_psi' = known_psi \cup {e.pid}
  /\ entry' = entry + 1
  /\ UNCHANGED <<live, pat, old_pat, phase, is_pes, seen_pat, streams_aware, current, requested>>

EndDrop ==
  /\ phase = "drop" /\ entry > Len(old_pat)
  /\ phase' = "idle" /\ entry' = 1 /\ old_pat' = <<>>
  /\ seen_pat' = TRUE
  /\ UNCHANGED <<programVars, pat, pidVars, streams_aware, demuxVars, requested>>
-----------------------------------------------------------------------------
(* The PMTs *)

\* What the chain function lets through to the section parser.
Heard(pid) == pid \in known_psi /\ pid \notin is_pes

IsSameProgram(p, pid, t) ==
  /\ p.pmt_pid = pid /\ p.pcr_pid = t.pcr
  /\ \A x \in StreamsOf(t) : p.streams[x] = t.streams[x]
  /\ Cardinality(StreamsOf(p)) = Cardinality(StreamsOf(t) \cup {t.pcr})

\* One elementary stream that is no section stream has stayed.
IsProgramUpdate(p, pid, t) ==
  /\ p.pmt_pid = pid
  /\ \E x \in PesOf(t) : p.streams[x] = t.streams[x]

\* A PMT of program n.
ToApply(n, pid, t) == Idle /\ seen_pat /\ Heard(pid) /\ table[n] # Null

Updates(n, pid, t) == streams_aware /\ IsProgramUpdate(program[table[n]], pid, t)

\* A PMT that makes a new program of it.  A PMT that says the same again does not, but is an
\* update if the bin handles streams.
Starts(n, pid, t) ==
  ToApply(n, pid, t) /\ ~Updates(n, pid, t) /\ ~IsSameProgram(program[table[n]], pid, t)

\* activate_program: streams of the PMT, then the PID of the PCR if it is none of them.
Activated(p, pid, t) ==
  [p EXCEPT !.pmt_pid = pid, !.pcr_pid = t.pcr, !.pmt = t, !.active = TRUE,
            !.streams = WithStreams(WithStreams(p.streams, t.streams), [NoStreams EXCEPT ![t.pcr] = PcrOnly])]

PsiActivated(psi, t) == (psi \cup (IF ParsePrivate THEN PrivateOf(t) ELSE {})) \ PesOf(t)

PesActivated(pes, t) == pes \cup PesOf(t) \cup {t.pcr}

\* program_started: the program is the requested one, or any will do and none is played.
IsChosen(n, number) == requested = n \/ (requested = AnyProgram /\ number = Null)

\* Cell s of heap, in tab as program n, gets its PMT and starts; if the demuxer chooses it,
\* the program kept until now, if any, is deactivated and freed.
Activate(s, n, pid, t, tab, heap, pes, psi, kept, number, cells) ==
  LET chosen == IsChosen(n, number)
      out == IF chosen THEN kept ELSE Null
      started == [heap EXCEPT ![s] = Activated(@, pid, t)]
      used == UsedPids(tab, started)
      gone == Cell(started, out)
  IN
  /\ table' = tab
  /\ program' = [x \in Slots |-> IF x = out THEN Freed ELSE started[x]]
  /\ live' = cells \ {out}
  /\ is_pes' = PesActivated(pes, t) \ (PesBack(gone) \ used)
  /\ known_psi' = PsiActivated(psi, t) \ (PsiBack(gone) \ used)
  /\ current' = IF chosen THEN s ELSE current
  /\ program_number' = IF chosen THEN n ELSE number
  /\ previous' = IF chosen THEN Null ELSE kept
  /\ UNCHANGED <<patVars, seen_pat, streams_aware, requested>>

FirstPmt(n, pid, t) ==
  /\ Starts(n, pid, t)
  /\ ~program[table[n]].active
  /\ Activate(table[n], n, pid, t, table, program, is_pes, known_psi, previous, program_number,
              live)

\* A new program takes the place, and the PAT references, of the one that was active.  The
\* old one is deactivated before the new one is put in the table ...
ReplaceProgram(s, n, pid, t) ==
  LET old == table[n]
      used == UsedPids([table EXCEPT ![n] = Null], program)
  IN
  /\ Starts(n, pid, t)
  /\ program[old].active /\ CanRemove(old)
  /\ Activate(s, n, pid, t, [table EXCEPT ![n] = s],
              [program EXCEPT ![old] = Freed, ![s] = NewProgram(pid, program[old].patcount)],
              is_pes \ (PesBack(program[old]) \ used),
              known_psi \ (PsiBack(program[old]) \ used),
              previous, program_number, (live \ {old}) \cup {s})

\* mutant: the demuxer does not remember the program it was left
ReplaceCurrentLost(s, n, pid, t) ==
  LET old == table[n] IN
  /\ Starts(n, pid, t)
  /\ program[old].active /\ ~CanRemove(old)
  /\ Activate(s, n, pid, t, [table EXCEPT ![n] = s],
              [program EXCEPT ![s] = NewProgram(pid, program[old].patcount)],
              is_pes, known_psi, previous, Null, live \cup {s})

\* ... or kept, if it is the one the demuxer plays.
ReplaceCurrent(s, n, pid, t) ==
  LET old == table[n] IN
  /\ Starts(n, pid, t)
  /\ program[old].active /\ ~CanRemove(old)
  /\ Activate(s, n, pid, t, [table EXCEPT ![n] = s],
              [program EXCEPT ![s] = NewProgram(pid, program[old].patcount)],
              is_pes, known_psi, old, Null, live \cup {s})

\* The streams that stay, and the new ones on PIDs where there was none.  Neither the PCR nor
\* the PID classes are touched.
Updated(p, t) ==
  LET all == WithStreams(p.streams, t.streams)
  IN [p EXCEPT !.pmt = t,
               !.streams = [x \in Pids |-> IF all[x] = t.streams[x] THEN all[x] ELSE NoStream]]

UpdateProgram(n, pid, t) ==
  LET s == table[n] IN
  /\ ToApply(n, pid, t) /\ Updates(n, pid, t)
  /\ program' = [program EXCEPT ![s] = Updated(@, t)]
  /\ UNCHANGED <<table, live, patVars, pidVars, seen_pat, streams_aware, demuxVars, requested>>

ApplyPmt(n, pid, t) ==
  \/ FirstPmt(n, pid, t)
  \/ \E s \in Slots \ live : ReplaceProgram(s, n, pid, t) \/ ReplaceCurrent(s, n, pid, t)
  \/ UpdateProgram(n, pid, t)

ParseMgt(x) ==
  /\ Idle
  /\ known_psi' = known_psi \cup {x}
  /\ UNCHANGED <<programVars, patVars, is_pes, seen_pat, streams_aware, demuxVars, requested>>
-----------------------------------------------------------------------------
Init ==
  /\ table = [n \in Programs |-> Null]
  /\ live = {}
  /\ program = [s \in Slots |-> Freed]
  /\ pat = <<>> /\ old_pat = <<>> /\ phase = "idle" /\ entry = 1
  /\ known_psi = DefaultPsi /\ is_pes = {}
  /\ seen_pat = FALSE
  /\ streams_aware \in BOOLEAN
  /\ current = Null /\ previous = Null /\ program_number = Null
  /\ requested = AnyProgram

HandlePat ==
  \/ \E p \in Pats : ApplyPat(p)
  \/ \E s \in Slots \ live : AddNew(s)
  \/ AddKnown \/ EndAdd \/ DropKept \/ DropRemoved \/ DropStolen \/ EndDrop

Next ==
  \/ HandlePat
  \/ \E n \in Programs, pid \in PmtPids, t \in Pmts : ApplyPmt(n, pid, t)
  \/ \E x \in MgtPids : ParseMgt(x)
  \/ FlushStop \/ Reset
  \/ \E n \in Requests : SetProgramNumber(n)

Spec == Init /\ [][Next]_vars
-----------------------------------------------------------------------------
Records == [pmt_pid : Pids \cup {NoPid}, pcr_pid : Pids \cup {NoPid},
            pmt : Pmts \cup {NoPmt}, streams : [Pids -> Types \cup {PcrOnly, NoStream}],
            patcount : Int, active : BOOLEAN]

\* Types; the PIDs of the fixed tables never become PES PIDs.
TypeOK ==
  /\ table \in [Programs -> Slots \cup {Null}]
  /\ live \subseteq Slots
  /\ program \in [Slots -> Records]
  /\ pat \in Pats \cup {<<>>} /\ old_pat \in Pats \cup {<<>>}
  /\ phase \in {"idle", "add", "drop"} /\ entry \in Nat \ {0}
  /\ known_psi \subseteq Pids /\ is_pes \subseteq Pids \ DefaultPsi
  /\ seen_pat \in BOOLEAN /\ streams_aware \in BOOLEAN
  /\ current \in Slots \cup {Null} /\ previous \in Slots \cup {Null}
  /\ program_number \in Programs \cup {Null} /\ requested \in Requests \cup {AnyProgram}

\* How often the first k entries of a PAT name program n.
Named(p, n, k) == Cardinality({i \in 1 .. k : p[i].program_number = n})

\* The references apply_pat counts: those taken for the PAT in force, and while it replaces
\* another one those for the old PAT that have not been given back.
Taken(n) == Named(pat, n, IF phase = "add" THEN entry - 1 ELSE Len(pat))

GivenBack(n) == Named(old_pat, n, IF phase = "drop" THEN entry - 1 ELSE 0)

Refs(n) == Taken(n) + Named(old_pat, n, Len(old_pat)) - GivenBack(n)

\* The comment of apply_pat: a program is in the table exactly as long as a PAT refers to it,
\* and its count is the number of those references, whatever PATs, with whatever repetitions,
\* and whatever PMTs that replace the program come in between.
Counted ==
  \A n \in Programs :
    /\ table[n] = Null <=> Refs(n) = 0
    /\ table[n] # Null => program[table[n]].patcount = Refs(n)

InTable == {table[n] : n \in Programs} \ {Null}

\* Every program has one owner, the table or the demuxer's previous_program, and is freed when
\* it has none: nothing is lost and demux->program never points to freed memory.
Owned ==
  /\ \A m, n \in Programs : table[m] = table[n] /\ table[m] # Null => m = n
  /\ previous \notin InTable
  /\ live = InTable \cup ({previous} \ {Null})
  /\ current # Null => current \in live /\ program[current].active
  /\ previous # Null => current = previous

ActivePrograms == {program[s] : s \in {x \in InTable : program[x].active}}

\* The packets of every stream, and of the PCR, in the PMT of an active program reach the
\* demuxer, whatever other programs that share the PIDs come and go.
Delivered ==
  \A p \in ActivePrograms : PesOf(p.pmt) \cup {p.pmt.pcr} \subseteq is_pes

DeliveredUnaware == ~streams_aware => Delivered

\* No PID is both, over all PMTs: carries sections in one and packets or the PCR in another.
OneClassPerPid ==
  \A t, u \in Pmts : PrivateOf(t) \cap (PesOf(u) \cup {u.pcr}) = {}

\* In a stream where PIDs keep their class, the PIDs of programs that went do not stay PES
\* PIDs: on such a PID no section would ever be heard again.
NoStalePes ==
  ~streams_aware /\ OneClassPerPid =>
     is_pes \subseteq UNION {StreamsOf(p) : p \in ActivePrograms \cup {Cell(program, previous)}}

\* The comment of apply_pmt: pads of the new program before those of the old one go.  What
\* the demuxer plays is freed only when another program has started, or by a reset.
Seamless ==
  [][\A s \in Slots : current = s /\ s \in live /\ s \notin live' =>
       (current' \in live' /\ program'[current'].active) \/ table' = [n \in Programs |-> Null]]_vars
=============================================================================
