------------------------- MODULE MpegTSTablesProofs -------------------------
(***************************************************************************)
(* Proofs about MpegTSBase and MpegTSTables, for any programs, PATs and    *)
(* PMTs.  Of the base class by itself: the counting of PAT references, the *)
(* ownership of programs and the delivery of their streams.                *)
(*                                                                         *)
(* The base class behind the packetizer is the base class: what is proved  *)
(* of MpegTSBase for sections that come as they like holds of the ones the *)
(* packetizer lets through.  And the PMTs of the programs in the PAT are   *)
(* let through, and those the packetizer will not report again have been   *)
(* applied.                                                                *)
(***************************************************************************)
EXTENDS MpegTSTables, FiniteSetTheorems, SequenceTheorems, TLAPS

USE DEF Idle
-----------------------------------------------------------------------------
(* Types *)

\* What a PMT and a new program are made of.
LEMMA RecordTypes ==
  /\ NoStreams \in [Pids -> Types \cup {PcrOnly, NoStream}]
  /\ Freed \in Records
  /\ \A pid \in Pids, count \in Int : NewProgram(pid, count) \in Records
  /\ \A s \in Slots \cup {Null}, heap \in [Slots -> Records] : Cell(heap, s) \in Records
<1>1. NoStreams \in [Pids -> Types \cup {PcrOnly, NoStream}]
  BY DEF NoStreams
<1>2. \A pid \in Pids \cup {NoPid}, count \in Int : NewProgram(pid, count) \in Records
  BY <1>1 DEF NewProgram, NoPmt, Records
<1>3. Freed \in Records
  BY <1>2 DEF Freed
<1> QED
  BY <1>1, <1>2, <1>3 DEF Cell

\* What one more PAT entry makes of a program.
LEMMA ListedFields ==
  ASSUME NEW p \in Records, NEW pid \in Pids
  PROVE  /\ Listed(p, pid) \in Records
         /\ Listed(p, pid).patcount = p.patcount + 1
         /\ Listed(p, pid).active = p.active
         /\ Listed(p, pid).pmt = p.pmt
         /\ Listed(p, pid).pcr_pid = p.pcr_pid
         /\ Listed(p, pid).streams = p.streams
<1> DEFINE count == p.patcount + 1
<1>1. count \in Int /\ Listed(p, pid) = [p EXCEPT !.pmt_pid = pid, !.patcount = count]
  BY DEF Records, Listed
<1> HIDE DEF count
<1>2. /\ Listed(p, pid) \in Records
      /\ Listed(p, pid).patcount = count
      /\ Listed(p, pid).active = p.active
      /\ Listed(p, pid).pmt = p.pmt
      /\ Listed(p, pid).pcr_pid = p.pcr_pid
      /\ Listed(p, pid).streams = p.streams
  BY <1>1 DEF Records
<1> QED
  BY <1>2 DEF count

\* Activating and updating a program keep its type.
LEMMA ActivatedType ==
  ASSUME NEW p \in Records, NEW pid \in Pids, NEW t \in Pmts
  PROVE  Activated(p, pid, t) \in Records /\ Updated(p, t) \in Records
<1>1. t.pcr \in Pids /\ t.streams \in [Pids -> Types \cup {NoStream}]
  BY BaseAssumption
<1>2. p.streams \in [Pids -> Types \cup {PcrOnly, NoStream}]
  BY DEF Records
<1>3. \A f, g \in [Pids -> Types \cup {PcrOnly, NoStream}] :
        WithStreams(f, g) \in [Pids -> Types \cup {PcrOnly, NoStream}]
  BY DEF WithStreams
<1>4. [NoStreams EXCEPT ![t.pcr] = PcrOnly] \in [Pids -> Types \cup {PcrOnly, NoStream}]
  BY RecordTypes
<1>5. t.streams \in [Pids -> Types \cup {PcrOnly, NoStream}]
  BY <1>1
<1>6. WithStreams(WithStreams(p.streams, t.streams), [NoStreams EXCEPT ![t.pcr] = PcrOnly])
        \in [Pids -> Types \cup {PcrOnly, NoStream}]
  BY <1>2, <1>3, <1>4, <1>5
<1>7. Activated(p, pid, t) \in Records
  BY <1>1, <1>6 DEF Activated, Records
<1>8. [x \in Pids |-> IF WithStreams(p.streams, t.streams)[x] = t.streams[x]
                      THEN WithStreams(p.streams, t.streams)[x] ELSE NoStream]
        \in [Pids -> Types \cup {PcrOnly, NoStream}]
  BY <1>2, <1>3, <1>5
<1>9. Updated(p, t) \in Records
  BY <1>8 DEF Updated, Records
<1> QED
  BY <1>7, <1>9

\* The PIDs a program gives back, and those a PMT brings.
LEMMA PidTypes ==
  ASSUME NEW t \in Pmts
  PROVE  /\ PesOf(t) \subseteq Pids \ DefaultPsi
         /\ PrivateOf(t) \subseteq Pids
         /\ t.pcr \in Pids \ DefaultPsi
  BY BaseAssumption DEF PesOf, PrivateOf, StreamsOf

\* Activate keeps the types, whatever it starts from.
LEMMA ActivateType ==
  ASSUME TypeOK,
         NEW n \in Programs, NEW s \in Slots, NEW pid \in Pids, NEW t \in Pmts,
         NEW tab \in [Programs -> Slots \cup {Null}], NEW heap \in [Slots -> Records],
         NEW pes \in SUBSET (Pids \ DefaultPsi), NEW psi \in SUBSET Pids,
         NEW kept \in Slots \cup {Null}, NEW number \in Programs \cup {Null},
         NEW cells \in SUBSET Slots,
         Activate(s, n, pid, t, tab, heap, pes, psi, kept, number, cells)
  PROVE  TypeOK'
<1> DEFINE chosen == IsChosen(n, number)
           out == IF chosen THEN kept ELSE Null
           started == [heap EXCEPT ![s] = Activated(@, pid, t)]
           used == UsedPids(tab, started)
           gone == Cell(started, out)
<1>1. started \in [Slots -> Records]
  BY ActivatedType
<1>2. [x \in Slots |-> IF x = out THEN Freed ELSE started[x]] \in [Slots -> Records]
  <2> HIDE DEF started, out
  <2> QED
    BY <1>1, RecordTypes
<1>3. /\ table' = tab
      /\ program' = [x \in Slots |-> IF x = out THEN Freed ELSE started[x]]
      /\ live' = cells \ {out}
      /\ is_pes' = PesActivated(pes, t) \ (PesBack(gone) \ used)
      /\ known_psi' = PsiActivated(psi, t) \ (PsiBack(gone) \ used)
      /\ current' = IF chosen THEN s ELSE current
      /\ program_number' = IF chosen THEN n ELSE number
      /\ previous' = IF chosen THEN Null ELSE kept
      /\ UNCHANGED <<patVars, seen_pat, streams_aware, requested>>
  BY DEF Activate
<1>4. program' \in [Slots -> Records]
  BY <1>2, <1>3
<1> HIDE DEF chosen, out, started, used, gone
<1>5. is_pes' \subseteq Pids \ DefaultPsi /\ known_psi' \subseteq Pids
  BY <1>3, PidTypes DEF PesActivated, PsiActivated
<1>6. pat' = pat /\ old_pat' = old_pat /\ phase' = phase /\ entry' = entry /\ seen_pat' = seen_pat
      /\ streams_aware' = streams_aware /\ requested' = requested
  BY <1>3 DEF patVars
<1>7. /\ current' \in Slots \cup {Null} /\ previous' \in Slots \cup {Null}
      /\ program_number' \in Programs \cup {Null}
      /\ table' \in [Programs -> Slots \cup {Null}] /\ live' \subseteq Slots
  BY <1>3 DEF TypeOK
<1> QED
  BY <1>4, <1>5, <1>6, <1>7 DEF TypeOK

LEMMA TypeInit == Init => TypeOK
<1> SUFFICES ASSUME Init PROVE TypeOK
  OBVIOUS
<1>1. program \in [Slots -> Records]
  BY RecordTypes DEF Init
<1>2. known_psi \subseteq Pids /\ is_pes \subseteq Pids \ DefaultPsi
  BY BaseAssumption DEF Init
<1>3. pat \in Pats \cup {<<>>} /\ old_pat \in Pats \cup {<<>>}
  BY Zenon DEF Init
<1>4. table \in [Programs -> Slots \cup {Null}]
  BY DEF Init
<1>5. live \subseteq Slots /\ phase \in {"idle", "add", "drop"} /\ entry \in Nat \ {0}
  BY DEF Init
<1>6. /\ seen_pat \in BOOLEAN /\ streams_aware \in BOOLEAN
      /\ current \in Slots \cup {Null} /\ previous \in Slots \cup {Null}
      /\ program_number \in Programs \cup {Null} /\ requested \in Requests \cup {AnyProgram}
  BY Zenon DEF Init
<1> QED
  BY <1>1, <1>2, <1>3, <1>4, <1>5, <1>6, Zenon DEF TypeOK

\* Entries of the PATs in force.
LEMMA EntryTypes ==
  ASSUME NEW p \in Pats \cup {<<>>}
  PROVE  /\ Len(p) \in Nat
         /\ \A i \in 1 .. Len(p) : p[i].program_number \in Programs /\ p[i].pid \in Pids
<1> DEFINE S == [program_number : Programs, pid : Pids]
<1>1. p \in Seq(S)
  <2>1. <<>> \in Seq(S)
    BY EmptySeq
  <2> QED
    BY <2>1, BaseAssumption
<1>2. \A i \in 1 .. Len(p) : p[i] \in S
  BY <1>1, ElementOfSeq
<1> QED
  BY <1>1, <1>2, LenProperties

\* Steps preserve the types.
LEMMA TypeStep == TypeOK /\ [Next]_vars => TypeOK'
<1> SUFFICES ASSUME TypeOK, [Next]_vars PROVE TypeOK'
  OBVIOUS
<1> USE DEF programVars, patVars, pidVars, demuxVars
<1>1. ASSUME NEW p \in Pats, ApplyPat(p) PROVE TypeOK'
  BY <1>1 DEF ApplyPat, TypeOK
<1>2. ASSUME NEW s \in Slots, AddNew(s) PROVE TypeOK'
  <2>1. pat[entry].program_number \in Programs /\ pat[entry].pid \in Pids
    BY <1>2, EntryTypes DEF AddNew, TypeOK
  <2>2. program' \in [Slots -> Records]
    BY <1>2, <2>1, RecordTypes DEF AddNew, TypeOK
  <2>3. table' \in [Programs -> Slots \cup {Null}] /\ live' \subseteq Slots
    BY <1>2, <2>1 DEF AddNew, TypeOK
  <2> QED
    BY <1>2, <2>1, <2>2, <2>3 DEF AddNew, TypeOK
<1>3. CASE AddKnown
  <2>1. pat[entry].program_number \in Programs /\ pat[entry].pid \in Pids
    BY <1>3, EntryTypes DEF AddKnown, TypeOK
  <2>2. table[pat[entry].program_number] \in Slots
    BY <1>3, <2>1 DEF AddKnown, TypeOK
  <2>4. program' \in [Slots -> Records]
    <3>1. Listed(program[table[pat[entry].program_number]], pat[entry].pid) \in Records
      BY <2>1, <2>2, ListedFields DEF TypeOK
    <3> QED
      BY <1>3, <2>2, <3>1 DEF AddKnown, TypeOK
  <2>5. known_psi' \subseteq Pids
    BY <1>3, <2>1 DEF AddKnown, TypeOK
  <2> QED
    BY <1>3, <2>4, <2>5 DEF AddKnown, TypeOK
<1>4. ASSUME EndAdd \/ EndDrop PROVE TypeOK'
  <2>1. CASE EndAdd
    BY <2>1 DEF EndAdd, TypeOK
  <2>2. CASE EndDrop
    <3>1. old_pat' \in Pats \cup {<<>>}
      BY <2>2, Zenon DEF EndDrop
    <3> QED
      BY <2>2, <3>1 DEF EndDrop, TypeOK
  <2> QED
    BY <1>4, <2>1, <2>2
<1>5. CASE DropKept
  <2>1. \A p \in Records : [p EXCEPT !.patcount = @ - 1] \in Records
    BY DEF Records
  <2>2. program' \in [Slots -> Records]
    BY <1>5, <2>1 DEF DropKept, TypeOK
  <2> QED
    BY <1>5, <2>2 DEF DropKept, TypeOK
<1>6. ASSUME DropRemoved \/ DropStolen PROVE TypeOK'
  <2> DEFINE n == old_pat[entry].program_number
  <2>1. n \in Programs /\ old_pat[entry].pid \in Pids
    BY <1>6, EntryTypes DEF DropRemoved, DropStolen, TypeOK
  <2>2. table[n] \in Slots
    BY <1>6, <2>1 DEF DropRemoved, DropStolen, TypeOK, Unneeded
  <2>3. program[table[n]] \in Records
    BY <2>2 DEF TypeOK
  <2>4. [program[table[n]] EXCEPT !.patcount = @ - 1] \in Records
    BY <2>3 DEF Records
  <2>5. program' \in [Slots -> Records]
    <3>1. CASE DropRemoved
      BY <2>2, <3>1, RecordTypes DEF DropRemoved, TypeOK
    <3>2. CASE DropStolen
      BY <2>2, <2>4, <3>2 DEF DropStolen, TypeOK
    <3> QED
      BY <1>6, <3>1, <3>2
  <2>6. table' \in [Programs -> Slots \cup {Null}] /\ live' \subseteq Slots
    BY <1>6, <2>1 DEF DropRemoved, DropStolen, TypeOK
  <2>7. known_psi' \subseteq Pids /\ is_pes' \subseteq Pids \ DefaultPsi
    BY <1>6, <2>1 DEF DropRemoved, DropStolen, TypeOK
  <2>8. /\ current' \in Slots \cup {Null} /\ previous' \in Slots \cup {Null}
        /\ program_number' \in Programs \cup {Null}
    BY <1>6, <2>2 DEF DropRemoved, DropStolen, TypeOK, Stop
  <2> QED
    BY <1>6, <2>5, <2>6, <2>7, <2>8 DEF DropRemoved, DropStolen, TypeOK
<1>7. ASSUME NEW n \in Programs, NEW pid \in PmtPids, NEW t \in Pmts, ApplyPmt(n, pid, t)
      PROVE TypeOK'
  <2>1. pid \in Pids
    BY BaseAssumption
  <2>2. table[n] \in Slots /\ program[table[n]] \in Records
    BY <1>7 DEF ApplyPmt, FirstPmt, ReplaceProgram, ReplaceCurrent, UpdateProgram, Starts,
           ToApply, TypeOK
  <2>3. program[table[n]].patcount \in Int
    BY <2>2 DEF Records
  <2>4. CASE FirstPmt(n, pid, t)
    BY <2>1, <2>2, <2>4, ActivateType DEF FirstPmt, TypeOK
  <2>5. ASSUME NEW s \in Slots, ReplaceProgram(s, n, pid, t) PROVE TypeOK'
    <3> DEFINE used == UsedPids([table EXCEPT ![n] = Null], program)
               old == table[n]
    <3>1. Activate(s, n, pid, t, [table EXCEPT ![n] = s],
              [program EXCEPT ![old] = Freed, ![s] = NewProgram(pid, program[old].patcount)],
              is_pes \ (PesBack(program[old]) \ used),
              known_psi \ (PsiBack(program[old]) \ used),
              previous, program_number, (live \ {old}) \cup {s})
      BY <2>5 DEF ReplaceProgram
    <3>2. [program EXCEPT ![old] = Freed, ![s] = NewProgram(pid, program[old].patcount)]
             \in [Slots -> Records]
      BY <2>1, <2>3, RecordTypes DEF TypeOK
    <3>3. [table EXCEPT ![n] = s] \in [Programs -> Slots \cup {Null}]
      BY DEF TypeOK
    <3>4. is_pes \ (PesBack(program[old]) \ used) \in SUBSET (Pids \ DefaultPsi)
      BY DEF TypeOK
    <3>5. known_psi \ (PsiBack(program[old]) \ used) \in SUBSET Pids
      BY DEF TypeOK
    <3>6. /\ previous \in Slots \cup {Null} /\ program_number \in Programs \cup {Null}
          /\ (live \ {old}) \cup {s} \in SUBSET Slots
      BY DEF TypeOK
    <3> HIDE DEF used, old
    <3> QED
      BY <2>1, <3>1, <3>2, <3>3, <3>4, <3>5, <3>6, ActivateType
  <2>6. ASSUME NEW s \in Slots, ReplaceCurrent(s, n, pid, t) PROVE TypeOK'
    <3> DEFINE old == table[n]
    <3>1. Activate(s, n, pid, t, [table EXCEPT ![n] = s],
              [program EXCEPT ![s] = NewProgram(pid, program[old].patcount)],
              is_pes, known_psi, old, Null, live \cup {s})
      BY <2>6 DEF ReplaceCurrent
    <3>2. [program EXCEPT ![s] = NewProgram(pid, program[old].patcount)] \in [Slots -> Records]
      BY <2>1, <2>3, RecordTypes DEF TypeOK
    <3>3. [table EXCEPT ![n] = s] \in [Programs -> Slots \cup {Null}]
      BY DEF TypeOK
    <3>4. /\ is_pes \in SUBSET (Pids \ DefaultPsi) /\ known_psi \in SUBSET Pids
          /\ old \in Slots \cup {Null} /\ live \cup {s} \in SUBSET Slots
      BY <2>2 DEF TypeOK
    <3> QED
      BY <2>1, <3>1, <3>2, <3>3, <3>4, ActivateType
  <2>7. CASE UpdateProgram(n, pid, t)
    <3>1. program' \in [Slots -> Records]
      BY <2>1, <2>2, <2>7, ActivatedType DEF UpdateProgram, TypeOK
    <3> QED
      BY <2>7, <3>1 DEF UpdateProgram, TypeOK
  <2> QED
    BY <1>7, <2>4, <2>5, <2>6, <2>7 DEF ApplyPmt
<1>8. ASSUME NEW x \in MgtPids, ParseMgt(x) PROVE TypeOK'
  BY <1>8, BaseAssumption DEF ParseMgt, TypeOK
<1>9. CASE FlushStop
  BY <1>9 DEF FlushStop, TypeOK
<1>10. CASE Reset
  <2>1. program' \in [Slots -> Records]
    BY <1>10, RecordTypes DEF Reset
  <2>2. known_psi' \subseteq Pids /\ is_pes' \subseteq Pids \ DefaultPsi
    BY <1>10, BaseAssumption DEF Reset
  <2>3. current' \in Slots \cup {Null} /\ program_number' \in Programs \cup {Null}
    BY <1>10 DEF Reset, TypeOK
  <2> QED
    BY <1>10, <2>1, <2>2, <2>3 DEF Reset, TypeOK
<1>11. ASSUME NEW n \in Requests, SetProgramNumber(n) PROVE TypeOK'
  BY <1>11 DEF SetProgramNumber, TypeOK
<1>12. CASE UNCHANGED vars
  BY <1>12 DEF vars, TypeOK
<1> QED
  BY <1>1, <1>2, <1>3, <1>4, <1>5, <1>6, <1>7, <1>8, <1>9, <1>10, <1>11, <1>12
  DEF Next, HandlePat
-----------------------------------------------------------------------------
(* Who owns a program *)

\* Owned, cell by cell.
OwnedCells ==
  /\ \A m, n \in Programs : table[m] = table[n] /\ table[m] # Null => m = n
  /\ \A n \in Programs : table[n] # Null => table[n] \in live /\ table[n] # previous
  /\ previous # Null => previous \in live /\ current = previous
  /\ \A s \in live : s = previous \/ \E n \in Programs : table[n] = s
  /\ current # Null => current \in live /\ program[current].active

LEMMA OwnedAsCells == TypeOK => (OwnedCells <=> Owned)
<1> SUFFICES ASSUME TypeOK PROVE OwnedCells <=> Owned
  OBVIOUS
<1>1. Null \notin live
  BY BaseAssumption DEF TypeOK
<1> QED
  BY <1>1 DEF OwnedCells, Owned, InTable

\* What activating a program makes of its fields.
LEMMA ActivatedFields ==
  ASSUME NEW p \in Records, NEW pid, NEW t
  PROVE  /\ Activated(p, pid, t).active
         /\ Activated(p, pid, t).patcount = p.patcount
         /\ Activated(p, pid, t).pmt = t
         /\ Activated(p, pid, t).streams =
              WithStreams(WithStreams(p.streams, t.streams), [NoStreams EXCEPT ![t.pcr] = PcrOnly])
  BY DEF Activated, Records

\* The cells after Activate: one has started, one may be free.
LEMMA ActivateCells ==
  ASSUME NEW n \in Programs, NEW s \in Slots, NEW pid, NEW t,
         NEW tab, NEW heap \in [Slots -> Records], NEW pes, NEW psi,
         NEW kept \in Slots \cup {Null}, NEW number, NEW cells,
         Activate(s, n, pid, t, tab, heap, pes, psi, kept, number, cells),
         s # kept
  PROVE  /\ program'[s] = Activated(heap[s], pid, t)
         /\ \A x \in Slots \ {s, kept} : program'[x] = heap[x]
         /\ ~IsChosen(n, number) /\ kept # Null => program'[kept] = heap[kept]
  BY BaseAssumption DEF Activate

\* Activate hands on what it is given.
LEMMA ActivateOwned ==
  ASSUME NEW n \in Programs, NEW s \in Slots, NEW pid, NEW t,
         NEW tab \in [Programs -> Slots \cup {Null}], NEW heap \in [Slots -> Records],
         NEW pes, NEW psi,
         NEW kept \in Slots \cup {Null}, NEW number, NEW cells \in SUBSET Slots,
         Activate(s, n, pid, t, tab, heap, pes, psi, kept, number, cells),
         current \in Slots \cup {Null},
         tab[n] = s,
         \A m, o \in Programs : tab[m] = tab[o] /\ tab[m] # Null => m = o,
         \A m \in Programs : tab[m] # Null => tab[m] \in cells /\ tab[m] # kept,
         kept # Null => kept \in cells /\ current = kept,
         \A x \in cells : x = kept \/ \E m \in Programs : tab[m] = x,
         current # Null => current \in cells /\ heap[current].active
  PROVE  OwnedCells'
<1>1. s # Null /\ s # kept /\ s \in cells /\ Null \notin cells
  BY BaseAssumption
<1>2. /\ program'[s].active
      /\ \A x \in Slots \ {s, kept} : program'[x] = heap[x]
      /\ ~IsChosen(n, number) /\ kept # Null => program'[kept] = heap[kept]
  <2>1. /\ program'[s] = Activated(heap[s], pid, t)
        /\ \A x \in Slots \ {s, kept} : program'[x] = heap[x]
        /\ ~IsChosen(n, number) /\ kept # Null => program'[kept] = heap[kept]
    BY <1>1, ActivateCells
  <2>2. Activated(heap[s], pid, t).active
    BY ActivatedFields
  <2> QED
    BY <2>1, <2>2
<1>3. CASE IsChosen(n, number)
  <2>1. /\ table' = tab /\ live' = cells \ {kept} /\ current' = s /\ previous' = Null
    BY <1>3 DEF Activate
  <2> QED
    BY <1>1, <1>2, <2>1 DEF OwnedCells
<1>4. CASE ~IsChosen(n, number)
  <2>1. /\ table' = tab /\ live' = cells /\ current' = current /\ previous' = kept
    BY <1>1, <1>4 DEF Activate
  <2>2. current # Null => program'[current].active
    BY <1>2, <1>4
  <2> QED
    BY <1>1, <2>1, <2>2 DEF OwnedCells
<1> QED
  BY <1>3, <1>4

LEMMA OwnedStep == TypeOK /\ OwnedCells /\ [Next]_vars => OwnedCells'
<1> SUFFICES ASSUME TypeOK, OwnedCells, [Next]_vars PROVE OwnedCells'
  OBVIOUS
<1> USE DEF programVars, patVars, pidVars, demuxVars
<1>1. ASSUME NEW s \in Slots \ live, AddNew(s) PROVE OwnedCells'
  <2> DEFINE n == pat[entry].program_number
  <2>1. n \in Programs
    BY <1>1, EntryTypes DEF AddNew, TypeOK
  <2>2. s # previous /\ s # current /\ s # Null
    BY BaseAssumption DEF OwnedCells
  <2>3. \A m \in Programs : table[m] # s
    BY <2>2 DEF OwnedCells
  <2>4. /\ table' = [table EXCEPT ![n] = s] /\ live' = live \cup {s}
        /\ current' = current /\ previous' = previous
        /\ \A x \in Slots \ {s} : program'[x] = program[x]
    BY <1>1 DEF AddNew, TypeOK
  <2>5. table[n] = Null
    BY <1>1 DEF AddNew
  <2>6. table'[n] = s /\ \A m \in Programs \ {n} : table'[m] = table[m]
    BY <2>1, <2>4 DEF TypeOK
  <2> HIDE DEF n
  <2>7. \A m, o \in Programs : table'[m] = table'[o] /\ table'[m] # Null => m = o
    BY <2>1, <2>3, <2>6 DEF OwnedCells
  <2>8. \A m \in Programs : table'[m] # Null => table'[m] \in live' /\ table'[m] # previous'
    BY <2>2, <2>4, <2>6 DEF OwnedCells
  <2>9. \A x \in live' : x = previous' \/ \E m \in Programs : table'[m] = x
    <3> SUFFICES ASSUME NEW x \in live', x # previous'
                 PROVE  \E m \in Programs : table'[m] = x
      OBVIOUS
    <3>1. CASE x = s
      BY <2>1, <2>6, <3>1
    <3>2. CASE x # s
      <4>1. x \in live /\ x # Null
        BY <2>4, <3>2, BaseAssumption DEF TypeOK
      <4>2. PICK m \in Programs : table[m] = x
        BY <2>4, <4>1 DEF OwnedCells
      <4> QED
        BY <2>5, <2>6, <4>1, <4>2
    <3> QED
      BY <3>1, <3>2
  <2>10. /\ previous' # Null => previous' \in live' /\ current' = previous'
         /\ current' # Null => current' \in live' /\ program'[current'].active
    BY <2>2, <2>4 DEF OwnedCells, TypeOK
  <2> QED
    BY <2>7, <2>8, <2>9, <2>10 DEF OwnedCells
<1>2. CASE AddKnown
  <2> DEFINE x == table[pat[entry].program_number]
  <2>1. pat[entry].program_number \in Programs /\ pat[entry].pid \in Pids
    BY <1>2, EntryTypes DEF AddKnown, TypeOK
  <2>2. x \in Slots /\ program[x] \in Records
    BY <1>2, <2>1 DEF AddKnown, TypeOK
  <2>3. \A s \in Slots : program'[s].active = program[s].active
    BY <1>2, <2>1, <2>2, ListedFields DEF AddKnown, TypeOK
  <2> QED
    BY <1>2, <2>3 DEF AddKnown, OwnedCells, TypeOK
<1>3. CASE DropKept
  <2>1. \A s \in Slots : program'[s].active = program[s].active
    BY <1>3 DEF DropKept, TypeOK, Records
  <2> QED
    BY <1>3, <2>1 DEF DropKept, OwnedCells, TypeOK
<1>4. ASSUME DropRemoved \/ DropStolen PROVE OwnedCells'
  <2> DEFINE n == old_pat[entry].program_number
             s == table[n]
  <2>1. n \in Programs
    BY <1>4, EntryTypes DEF DropRemoved, DropStolen, TypeOK
  <2>2. s \in Slots /\ s # Null
    BY <1>4, <2>1 DEF DropRemoved, DropStolen, TypeOK, Unneeded
  <2>3. s \in live /\ s # previous /\ \A m \in Programs \ {n} : table[m] # s
    BY <2>1, <2>2 DEF OwnedCells
  <2>4. table' = [table EXCEPT ![n] = Null]
    BY <1>4 DEF DropRemoved, DropStolen
  <2>5. CASE DropRemoved
    <3>1. /\ live' = live \ {s} /\ current # s /\ current' = current /\ previous' = previous
          /\ \A x \in Slots \ {s} : program'[x] = program[x]
      BY <2>5 DEF DropRemoved, CanRemove, Stop, TypeOK
    <3> HIDE DEF n, s
    <3> QED
      BY <2>1, <2>2, <2>3, <2>4, <3>1 DEF OwnedCells, TypeOK
  <2>6. CASE DropStolen
    <3>1. live' = live /\ current = s /\ current' = current /\ previous' = s
      BY <2>6 DEF DropStolen, CanRemove
    <3>2. program'[s].active = program[s].active
      BY <2>2, <2>6 DEF DropStolen, TypeOK, Records
    <3>3. previous = Null
      BY <2>3, <3>1 DEF OwnedCells
    <3> HIDE DEF n, s
    <3> QED
      BY <2>1, <2>2, <2>3, <2>4, <3>1, <3>2, <3>3 DEF OwnedCells, TypeOK
  <2> QED
    BY <1>4, <2>5, <2>6
<1>5. ASSUME NEW n \in Programs, NEW pid \in PmtPids, NEW t \in Pmts, ApplyPmt(n, pid, t)
      PROVE OwnedCells'
  <2> DEFINE old == table[n]
  <2>1. pid \in Pids
    BY BaseAssumption
  <2>2. old \in Slots /\ old # Null /\ program[old] \in Records
    BY <1>5 DEF ApplyPmt, FirstPmt, ReplaceProgram, ReplaceCurrent, UpdateProgram, Starts,
           ToApply, TypeOK
  <2>3. program[old].patcount \in Int
    BY <2>2 DEF Records
  <2>4. NewProgram(pid, program[old].patcount) \in Records /\ Freed \in Records
    BY <2>1, <2>3, RecordTypes
  <2>5. old \in live /\ old # previous /\ \A m \in Programs \ {n} : table[m] # old
    BY <2>2 DEF OwnedCells
  <2>6. CASE FirstPmt(n, pid, t)
    <3>1. Activate(old, n, pid, t, table, program, is_pes, known_psi, previous, program_number,
                   live)
      BY <2>6 DEF FirstPmt
    <3> HIDE DEF old
    <3>2. table[n] = old
      BY DEF old
    <3>3. /\ \A m, o \in Programs : table[m] = table[o] /\ table[m] # Null => m = o
          /\ \A m \in Programs : table[m] # Null => table[m] \in live /\ table[m] # previous
          /\ previous # Null => previous \in live /\ current = previous
          /\ \A x \in live : x = previous \/ \E m \in Programs : table[m] = x
          /\ current # Null => current \in live /\ program[current].active
      BY DEF OwnedCells
    <3>4. /\ table \in [Programs -> Slots \cup {Null}] /\ program \in [Slots -> Records]
          /\ previous \in Slots \cup {Null} /\ current \in Slots \cup {Null}
          /\ live \in SUBSET Slots
      BY DEF TypeOK
    <3> QED
      BY <2>2, <3>1, <3>2, <3>3, <3>4, ActivateOwned
  <2>7. ASSUME NEW s \in Slots \ live, ReplaceProgram(s, n, pid, t) PROVE OwnedCells'
    <3> DEFINE used == UsedPids([table EXCEPT ![n] = Null], program)
               tab == [table EXCEPT ![n] = s]
               heap == [program EXCEPT ![old] = Freed,
                                       ![s] = NewProgram(pid, program[old].patcount)]
               cells == (live \ {old}) \cup {s}
               pes == is_pes \ (PesBack(program[old]) \ used)
               psi == known_psi \ (PsiBack(program[old]) \ used)
    <3>1. Activate(s, n, pid, t, tab, heap, pes, psi, previous, program_number, cells)
      BY <2>7 DEF ReplaceProgram
    <3>2. current # old
      BY <2>7 DEF ReplaceProgram, CanRemove
    <3>3. s # old /\ s # previous /\ s # current /\ s # Null
      BY <2>5, BaseAssumption DEF OwnedCells
    <3>4. heap \in [Slots -> Records] /\ cells \in SUBSET Slots
      BY <2>4 DEF TypeOK
    <3>5. tab \in [Programs -> Slots \cup {Null}] /\ tab[n] = s
      BY DEF TypeOK
    <3>6. \A m, o \in Programs : tab[m] = tab[o] /\ tab[m] # Null => m = o
      BY <3>3 DEF OwnedCells, TypeOK
    <3>7. \A m \in Programs : tab[m] # Null => tab[m] \in cells /\ tab[m] # previous
      BY <2>5, <3>3 DEF OwnedCells, TypeOK
    <3>8. \A x \in cells : x = previous \/ \E m \in Programs : tab[m] = x
      BY <3>5 DEF OwnedCells, TypeOK
    <3>9. current # Null => current \in cells /\ heap[current].active
      BY <3>2, <3>3 DEF OwnedCells, TypeOK
    <3>10. previous # Null => previous \in cells /\ current = previous
      BY <2>5 DEF OwnedCells
    <3>11. current \in Slots \cup {Null} /\ previous \in Slots \cup {Null}
      BY DEF TypeOK
    <3> HIDE DEF tab, heap, cells, pes, psi, old
    <3> QED
      BY <3>1, <3>4, <3>5, <3>6, <3>7, <3>8, <3>9, <3>10, <3>11, ActivateOwned
  <2>8. ASSUME NEW s \in Slots \ live, ReplaceCurrent(s, n, pid, t) PROVE OwnedCells'
    <3> DEFINE tab == [table EXCEPT ![n] = s]
               heap == [program EXCEPT ![s] = NewProgram(pid, program[old].patcount)]
               cells == live \cup {s}
    <3>1. Activate(s, n, pid, t, tab, heap, is_pes, known_psi, old, Null, cells)
      BY <2>8 DEF ReplaceCurrent
    <3>2. current = old
      BY <2>8 DEF ReplaceCurrent, CanRemove
    <3>3. s # old /\ s # Null /\ previous = Null
      BY <2>5, <3>2, BaseAssumption DEF OwnedCells
    <3>4. heap \in [Slots -> Records] /\ cells \in SUBSET Slots
      BY <2>4 DEF TypeOK
    <3>5. tab \in [Programs -> Slots \cup {Null}] /\ tab[n] = s
      BY DEF TypeOK
    <3>6. \A m, o \in Programs : tab[m] = tab[o] /\ tab[m] # Null => m = o
      BY <3>3 DEF OwnedCells, TypeOK
    <3>7. \A m \in Programs : tab[m] # Null => tab[m] \in cells /\ tab[m] # old
      BY <2>5, <3>3 DEF OwnedCells, TypeOK
    <3>8. \A x \in cells : x = old \/ \E m \in Programs : tab[m] = x
      <4>1. Null \notin live
        BY BaseAssumption DEF TypeOK
      <4>2. \A x \in live : \E m \in Programs : table[m] = x
        BY <3>3, <4>1 DEF OwnedCells
      <4>3. \A m \in Programs \ {n} : tab[m] = table[m]
        BY DEF TypeOK
      <4> HIDE DEF tab
      <4> QED
        BY <3>5, <4>2, <4>3
    <3>9. current # Null => current \in cells /\ heap[current].active
      BY <2>5, <3>2, <3>3 DEF OwnedCells, TypeOK
    <3>10. old # Null => old \in cells /\ current = old
      BY <2>5, <3>2
    <3>11. current \in Slots \cup {Null} /\ old \in Slots \cup {Null}
      BY <2>2 DEF TypeOK
    <3> HIDE DEF tab, heap, cells, old
    <3> QED
      BY <3>1, <3>4, <3>5, <3>6, <3>7, <3>8, <3>9, <3>10, <3>11, ActivateOwned
  <2>9. CASE UpdateProgram(n, pid, t)
    <3>1. \A s \in Slots : program'[s].active = program[s].active
      BY <2>2, <2>9 DEF UpdateProgram, Updated, TypeOK, Records
    <3> QED
      BY <2>9, <3>1 DEF UpdateProgram, OwnedCells, TypeOK
  <2> QED
    BY <1>5, <2>6, <2>7, <2>8, <2>9 DEF ApplyPmt
<1>6. CASE Reset
  <2>1. /\ table' = [n \in Programs |-> Null] /\ live' = {} /\ previous' = Null
    BY <1>6 DEF Reset
  <2>2. current' = Null
    BY <1>6 DEF Reset, OwnedCells
  <2> QED
    BY <2>1, <2>2 DEF OwnedCells
<1>7. ASSUME UNCHANGED <<programVars, demuxVars>> PROVE OwnedCells'
  BY <1>7 DEF OwnedCells
<1> QED
  BY <1>1, <1>2, <1>3, <1>4, <1>5, <1>6, <1>7
  DEF Next, HandlePat, ApplyPat, EndAdd, EndDrop, ParseMgt, FlushStop, SetProgramNumber, vars
-----------------------------------------------------------------------------
(* The references of the PATs *)

\* How the number of entries that name a program grows along a PAT.
LEMMA NamedGrows ==
  ASSUME NEW p, NEW n, NEW k \in Nat
  PROVE  /\ Named(p, n, 0) = 0
         /\ Named(p, n, k) \in Nat
         /\ Named(p, n, k + 1) =
              Named(p, n, k) + (IF p[k + 1].program_number = n THEN 1 ELSE 0)
         /\ \A m \in Nat : m <= k => Named(p, n, m) <= Named(p, n, k)
<1> DEFINE At(m) == {i \in 1 .. m : p[i].program_number = n}
<1>1. \A m \in Nat : IsFiniteSet(At(m)) /\ Cardinality(At(m)) \in Nat
  <2> SUFFICES ASSUME NEW m \in Nat PROVE IsFiniteSet(At(m)) /\ Cardinality(At(m)) \in Nat
    OBVIOUS
  <2>1. IsFiniteSet(1 .. m)
    BY FS_Interval
  <2>2. At(m) \subseteq 1 .. m
    OBVIOUS
  <2> HIDE DEF At
  <2> QED
    BY <2>1, <2>2, FS_Subset, FS_CardinalityType
<1>2. At(0) = {} /\ Cardinality({}) = 0
  BY FS_EmptySet
<1>3. At(k + 1) = IF p[k + 1].program_number = n THEN At(k) \cup {k + 1} ELSE At(k)
  OBVIOUS
<1>4. k + 1 \notin At(k)
  OBVIOUS
<1>5. Cardinality(At(k) \cup {k + 1}) = Cardinality(At(k)) + 1
  BY <1>1, <1>4, FS_AddElement
<1>6. \A m \in Nat : m <= k => Cardinality(At(m)) <= Cardinality(At(k))
  <2> SUFFICES ASSUME NEW m \in Nat, m <= k PROVE Cardinality(At(m)) <= Cardinality(At(k))
    OBVIOUS
  <2>1. At(m) \subseteq At(k)
    OBVIOUS
  <2> HIDE DEF At
  <2> QED
    BY <1>1, <2>1, FS_Subset
<1>7. \A m : Named(p, n, m) = Cardinality(At(m))
  BY DEF Named
<1> HIDE DEF At
<1> QED
  BY <1>1, <1>2, <1>3, <1>5, <1>6, <1>7

\* Where the loops of apply_pat may be.
Looping ==
  /\ phase = "idle" => old_pat = <<>>
  /\ phase = "add" => entry <= Len(pat) + 1
  /\ phase = "drop" => entry <= Len(old_pat) + 1

CountInv == TypeOK /\ OwnedCells /\ Looping /\ Counted

LEMMA PatLengths == TypeOK => Len(pat) \in Nat /\ Len(old_pat) \in Nat
  BY EntryTypes DEF TypeOK

\* References are never given back before they are taken.
LEMMA RefsNat ==
  ASSUME TypeOK, Looping, NEW n
  PROVE  Refs(n) \in Nat
<1>1. Len(pat) \in Nat /\ Len(old_pat) \in Nat /\ entry \in Nat \ {0}
  BY PatLengths DEF TypeOK
<1>2. entry - 1 \in Nat
  BY <1>1
<1>3. Taken(n) \in Nat
  BY <1>1, <1>2, NamedGrows DEF Taken
<1>4. GivenBack(n) \in Nat /\ GivenBack(n) <= Named(old_pat, n, Len(old_pat))
  <2>1. CASE phase = "drop"
    <3>1. entry - 1 <= Len(old_pat)
      BY <1>1, <2>1 DEF Looping
    <3>2. /\ Named(old_pat, n, entry - 1) \in Nat
          /\ Named(old_pat, n, entry - 1) <= Named(old_pat, n, Len(old_pat))
      BY <1>1, <1>2, <3>1, NamedGrows
    <3> QED
      BY <2>1, <3>2 DEF GivenBack
  <2>2. CASE phase # "drop"
    <3>1. /\ Named(old_pat, n, 0) = 0
          /\ Named(old_pat, n, 0) <= Named(old_pat, n, Len(old_pat))
      BY <1>1, NamedGrows
    <3> QED
      BY <2>2, <3>1 DEF GivenBack
  <2> QED
    BY <2>1, <2>2
<1>5. Named(old_pat, n, Len(old_pat)) \in Nat
  BY <1>1, NamedGrows
<1> QED
  BY <1>3, <1>4, <1>5 DEF Refs

\* Steps that leave apply_pat where it is leave the references.
LEMMA RefsKept ==
  ASSUME UNCHANGED patVars
  PROVE  (Looping => Looping') /\ \A n : Refs(n)' = Refs(n)
<1>1. pat' = pat /\ old_pat' = old_pat /\ phase' = phase /\ entry' = entry
  BY DEF patVars
<1>2. \A n : Taken(n)' = Taken(n) /\ GivenBack(n)' = GivenBack(n)
  BY <1>1 DEF Taken, GivenBack
<1> QED
  BY <1>1, <1>2 DEF Looping, Refs

\* An action that gives every program the count it had.
LEMMA CountedKept ==
  ASSUME Counted, UNCHANGED patVars,
         \A n \in Programs :
           /\ table'[n] = Null <=> table[n] = Null
           /\ table[n] # Null => program'[table'[n]].patcount = program[table[n]].patcount
  PROVE  Counted'
<1>1. \A n : Refs(n)' = Refs(n)
  BY RefsKept
<1> QED
  BY <1>1 DEF Counted

\* Activate keeps the counts of the heap it starts from.
LEMMA ActivateCounted ==
  ASSUME TypeOK, Counted,
         NEW n \in Programs, NEW s \in Slots, NEW pid, NEW t,
         NEW tab \in [Programs -> Slots \cup {Null}], NEW heap \in [Slots -> Records],
         NEW pes, NEW psi, NEW kept \in Slots \cup {Null}, NEW number, NEW cells,
         Activate(s, n, pid, t, tab, heap, pes, psi, kept, number, cells),
         tab[n] = s,
         \A m \in Programs : tab[m] # Null => tab[m] # kept,
         \A m \in Programs :
           /\ tab[m] = Null <=> table[m] = Null
           /\ table[m] # Null => heap[tab[m]].patcount = program[table[m]].patcount
  PROVE  Counted'
<1>1. s # kept /\ table' = tab
  BY BaseAssumption DEF Activate
<1>2. /\ program'[s] = Activated(heap[s], pid, t)
      /\ \A x \in Slots \ {s, kept} : program'[x] = heap[x]
  BY <1>1, ActivateCells
<1>3. program'[s].patcount = heap[s].patcount
  <2>1. heap[s] \in Records
    OBVIOUS
  <2>2. Activated(heap[s], pid, t).patcount = heap[s].patcount
    BY <2>1 DEF Activated, Records
  <2> QED
    BY <1>2, <2>2
<1>4. \A m \in Programs : tab[m] # Null => program'[tab[m]].patcount = heap[tab[m]].patcount
  BY <1>2, <1>3
<1>5. UNCHANGED patVars
  BY DEF Activate
<1> QED
  BY <1>1, <1>4, <1>5, CountedKept

LEMMA CountedStep == CountInv /\ [Next]_vars => Looping' /\ Counted'
<1> SUFFICES ASSUME CountInv, [Next]_vars PROVE Looping' /\ Counted'
  OBVIOUS
<1> USE DEF CountInv
<1>0. Len(pat) \in Nat /\ Len(old_pat) \in Nat /\ entry \in Nat \ {0}
  BY PatLengths DEF TypeOK
<1>1. ASSUME NEW p \in Pats, ApplyPat(p) PROVE Looping' /\ Counted'
  <2>1. /\ phase = "idle" /\ old_pat = <<>> /\ phase' = "add" /\ entry' = 1
        /\ pat' = p /\ old_pat' = pat /\ table' = table /\ program' = program
    BY <1>1 DEF ApplyPat, Looping, programVars
  <2>2. Len(p) \in Nat /\ Len(<<>>) = 0
    BY EntryTypes
  <2>3. ASSUME NEW n \in Programs PROVE Refs(n)' = Refs(n)
    <3>1. Refs(n) = Named(pat, n, Len(pat)) + Named(<<>>, n, 0) - Named(<<>>, n, 0)
      BY <2>1, <2>2 DEF Refs, Taken, GivenBack
    <3>2. Refs(n)' = Named(p, n, 1 - 1) + Named(pat, n, Len(pat)) - Named(pat, n, 0)
      BY <2>1 DEF Refs, Taken, GivenBack
    <3>3. /\ Named(<<>>, n, 0) = 0 /\ Named(p, n, 0) = 0 /\ Named(pat, n, 0) = 0
          /\ Named(pat, n, Len(pat)) \in Nat
      BY <1>0, NamedGrows
    <3> QED
      BY <3>1, <3>2, <3>3
  <2>4. Looping'
    BY <2>1, <2>2 DEF Looping
  <2> QED
    BY <2>1, <2>3, <2>4 DEF Counted
<1>2. ASSUME phase = "add", entry <= Len(pat), entry' = entry + 1,
             UNCHANGED <<pat, old_pat, phase>>
      PROVE  /\ Looping'
             /\ \A n \in Programs :
                  Refs(n)' = Refs(n) + (IF pat[entry].program_number = n THEN 1 ELSE 0)
  <2>1. Looping'
    BY <1>0, <1>2 DEF Looping
  <2>2. ASSUME NEW n \in Programs
        PROVE  Refs(n)' = Refs(n) + (IF pat[entry].program_number = n THEN 1 ELSE 0)
    <3> DEFINE rest == Named(old_pat, n, Len(old_pat)) - Named(old_pat, n, 0)
    <3>1. Refs(n) = Named(pat, n, entry - 1) + Named(old_pat, n, Len(old_pat))
                      - Named(old_pat, n, 0)
      BY <1>2 DEF Refs, Taken, GivenBack
    <3>2. Refs(n)' = Named(pat, n, entry' - 1) + Named(old_pat, n, Len(old_pat))
                      - Named(old_pat, n, 0)
      BY <1>2 DEF Refs, Taken, GivenBack
    <3>3. entry - 1 \in Nat /\ (entry - 1) + 1 = entry /\ entry' - 1 = entry
      BY <1>0, <1>2
    <3>4. /\ Named(pat, n, entry - 1) \in Nat
          /\ Named(pat, n, (entry - 1) + 1) = Named(pat, n, entry - 1)
               + (IF pat[(entry - 1) + 1].program_number = n THEN 1 ELSE 0)
      BY <3>3, NamedGrows
    <3>5. Named(old_pat, n, Len(old_pat)) \in Nat /\ Named(old_pat, n, 0) = 0
      BY <1>0, NamedGrows
    <3> QED
      BY <3>1, <3>2, <3>3, <3>4, <3>5
  <2> QED
    BY <2>1, <2>2
<1>3. ASSUME phase = "drop", entry <= Len(old_pat), entry' = entry + 1,
             UNCHANGED <<pat, old_pat, phase>>
      PROVE  /\ Looping'
             /\ \A n \in Programs :
                  /\ Refs(n)' = Refs(n) - (IF old_pat[entry].program_number = n THEN 1 ELSE 0)
                  /\ old_pat[entry].program_number = n => Refs(n) > 0
                  /\ Refs(n) \in Int
  <2>1. Looping'
    BY <1>0, <1>3 DEF Looping
  <2>2. ASSUME NEW n \in Programs
        PROVE  /\ Refs(n)' = Refs(n) - (IF old_pat[entry].program_number = n THEN 1 ELSE 0)
               /\ old_pat[entry].program_number = n => Refs(n) > 0
               /\ Refs(n) \in Int
    <3>1. Refs(n) = Named(pat, n, Len(pat)) + Named(old_pat, n, Len(old_pat))
                      - Named(old_pat, n, entry - 1)
      BY <1>3 DEF Refs, Taken, GivenBack
    <3>2. Refs(n)' = Named(pat, n, Len(pat)) + Named(old_pat, n, Len(old_pat))
                      - Named(old_pat, n, entry' - 1)
      BY <1>3 DEF Refs, Taken, GivenBack
    <3>3. entry - 1 \in Nat /\ (entry - 1) + 1 = entry /\ entry' - 1 = entry /\ entry \in Nat
      BY <1>0, <1>3
    <3>4. /\ Named(old_pat, n, entry - 1) \in Nat
          /\ Named(old_pat, n, (entry - 1) + 1) = Named(old_pat, n, entry - 1)
               + (IF old_pat[(entry - 1) + 1].program_number = n THEN 1 ELSE 0)
      BY <3>3, NamedGrows
    <3>5. /\ Named(old_pat, n, Len(old_pat)) \in Nat /\ Named(pat, n, Len(pat)) \in Nat
          /\ Named(old_pat, n, entry) <= Named(old_pat, n, Len(old_pat))
      BY <1>0, <1>3, <3>3, NamedGrows
    <3> QED
      BY <3>1, <3>2, <3>3, <3>4, <3>5
  <2> QED
    BY <2>1, <2>2
<1>4. ASSUME NEW s \in Slots \ live, AddNew(s) PROVE Looping' /\ Counted'
  <2> DEFINE n == pat[entry].program_number
  <2>1. n \in Programs /\ pat[entry].pid \in Pids
    BY <1>4, EntryTypes DEF AddNew, TypeOK
  <2>2. table[n] = Null /\ Refs(n) = 0
    BY <1>4, <2>1 DEF AddNew, Counted
  <2>3. /\ table'[n] = s /\ s # Null
        /\ \A m \in Programs \ {n} : table'[m] = table[m] /\ table[m] # s
    BY <1>4, <2>1, BaseAssumption DEF AddNew, OwnedCells, TypeOK
  <2>4. /\ program'[s] = NewProgram(pat[entry].pid, 1)
        /\ \A x \in Slots \ {s} : program'[x] = program[x]
    BY <1>4 DEF AddNew, TypeOK
  <2>5. program'[s].patcount = 1
    BY <2>4 DEF NewProgram
  <2>6. /\ Looping'
        /\ \A m \in Programs : Refs(m)' = Refs(m) + (IF n = m THEN 1 ELSE 0)
    BY <1>2, <1>4 DEF AddNew
  <2>7. \A m \in Programs : table[m] \in Slots \cup {Null}
    BY DEF TypeOK
  <2>8. \A m \in Programs : table[m] # Null => program[table[m]].patcount = Refs(m)
                                               /\ program[table[m]].patcount \in Int
    BY <2>7 DEF Counted, TypeOK, Records
  <2> HIDE DEF n
  <2>9. ASSUME NEW m \in Programs
        PROVE  /\ table'[m] = Null <=> Refs(m)' = 0
               /\ table'[m] # Null => program'[table'[m]].patcount = Refs(m)'
    <3>1. CASE m = n
      BY <2>2, <2>3, <2>5, <2>6, <3>1
    <3>2. CASE m # n
      <4>1. table'[m] = table[m] /\ table[m] # s
        BY <2>3, <3>2
      <4>2. table[m] # Null => program'[table[m]] = program[table[m]]
        BY <2>4, <2>7, <4>1
      <4>3. table[m] = Null => Refs(m) = 0
        BY DEF Counted
      <4>4. Refs(m) \in Int
        BY <2>8, <4>3
      <4>5. Refs(m)' = Refs(m)
        BY <2>6, <3>2, <4>4
      <4> QED
        BY <4>1, <4>2, <4>5 DEF Counted
    <3> QED
      BY <3>1, <3>2
  <2> QED
    BY <2>6, <2>9 DEF Counted
<1>5. CASE AddKnown
  <2> DEFINE n == pat[entry].program_number
             s == table[n]
  <2>1. n \in Programs /\ pat[entry].pid \in Pids
    BY <1>5, EntryTypes DEF AddKnown, TypeOK
  <2>2. s \in Slots /\ s # Null /\ program[s] \in Records
    BY <1>5, <2>1 DEF AddKnown, TypeOK
  <2>3. \A m \in Programs \ {n} : table[m] # s
    BY <2>1, <2>2 DEF OwnedCells
  <2>4. /\ table' = table
        /\ program'[s].patcount = program[s].patcount + 1
        /\ \A x \in Slots \ {s} : program'[x] = program[x]
    BY <1>5, <2>1, <2>2, ListedFields DEF AddKnown, TypeOK
  <2>5. /\ Looping'
        /\ \A m \in Programs : Refs(m)' = Refs(m) + (IF n = m THEN 1 ELSE 0)
    BY <1>2, <1>5 DEF AddKnown
  <2>6. \A m \in Programs : table[m] \in Slots \cup {Null}
    BY DEF TypeOK
  <2>7. program[s].patcount = Refs(n) /\ Refs(n) \in Int /\ Refs(n) # 0
    BY <2>1, <2>2 DEF Counted, Records
  <2>8. \A m \in Programs : Refs(m) \in Nat
    BY RefsNat
  <2> HIDE DEF n, s
  <2>9. ASSUME NEW m \in Programs
        PROVE  /\ table'[m] = Null <=> Refs(m)' = 0
               /\ table'[m] # Null => program'[table'[m]].patcount = Refs(m)'
    <3>1. CASE m = n
      <4>1. table[n] = s
        BY DEF s
      <4> QED
        BY <2>2, <2>4, <2>5, <2>7, <2>8, <3>1, <4>1
    <3>2. CASE m # n
      <4>1. table[m] # s
        BY <2>3, <3>2
      <4>2. table[m] # Null => program'[table[m]] = program[table[m]]
        BY <2>4, <2>6, <4>1
      <4>3. Refs(m)' = Refs(m)
        BY <2>5, <2>8, <3>2
      <4> QED
        BY <2>4, <4>2, <4>3 DEF Counted
    <3> QED
      BY <3>1, <3>2
  <2> QED
    BY <2>5, <2>9 DEF Counted
<1>6. CASE EndAdd
  <2>1. /\ phase = "add" /\ entry - 1 = Len(pat) /\ phase' = "drop" /\ entry' = 1
        /\ pat' = pat /\ old_pat' = old_pat /\ table' = table /\ program' = program
    BY <1>0, <1>6 DEF EndAdd, Looping, programVars
  <2>2. ASSUME NEW n \in Programs PROVE Refs(n)' = Refs(n)
    <3>1. Refs(n) = Named(pat, n, entry - 1) + Named(old_pat, n, Len(old_pat))
                      - Named(old_pat, n, 0)
      BY <2>1 DEF Refs, Taken, GivenBack
    <3>2. Refs(n)' = Named(pat, n, Len(pat)) + Named(old_pat, n, Len(old_pat))
                      - Named(old_pat, n, 1 - 1)
      BY <2>1 DEF Refs, Taken, GivenBack
    <3> QED
      BY <2>1, <3>1, <3>2
  <2>3. Looping'
    BY <1>0, <2>1 DEF Looping
  <2> QED
    BY <2>1, <2>2, <2>3 DEF Counted
<1>7. CASE EndDrop
  <2>1. /\ phase = "drop" /\ entry - 1 = Len(old_pat) /\ phase' = "idle" /\ old_pat' = <<>>
        /\ pat' = pat /\ table' = table /\ program' = program
    BY <1>0, <1>7 DEF EndDrop, Looping, programVars
  <2>2. ASSUME NEW n \in Programs PROVE Refs(n)' = Refs(n)
    <3>1. Refs(n) = Named(pat, n, Len(pat)) + Named(old_pat, n, Len(old_pat))
                      - Named(old_pat, n, Len(old_pat))
      BY <2>1 DEF Refs, Taken, GivenBack
    <3>2. Refs(n)' = Named(pat, n, Len(pat)) + Named(<<>>, n, Len(<<>>)) - Named(<<>>, n, 0)
      BY <2>1 DEF Refs, Taken, GivenBack
    <3>3. /\ Named(old_pat, n, Len(old_pat)) \in Nat /\ Named(pat, n, Len(pat)) \in Nat
          /\ Len(<<>>) = 0 /\ Named(<<>>, n, 0) = 0
      BY <1>0, NamedGrows
    <3> QED
      BY <3>1, <3>2, <3>3
  <2>3. Looping'
    BY <2>1 DEF Looping
  <2> QED
    BY <2>1, <2>2, <2>3 DEF Counted
<1>8. CASE DropKept
  <2> DEFINE n == old_pat[entry].program_number
             s == table[n]
  <2>1. n \in Programs
    BY <1>8, EntryTypes DEF DropKept, TypeOK
  <2>2. /\ Looping'
        /\ \A m \in Programs : Refs(m)' = Refs(m) - (IF n = m THEN 1 ELSE 0)
        /\ Refs(n) > 0
    BY <1>3, <1>8, <2>1 DEF DropKept
  <2>3. \A m \in Programs : table[m] \in Slots \cup {Null} /\ Refs(m) \in Nat
    BY RefsNat DEF TypeOK
  <2>4. s # Null /\ s \in Slots /\ program[s].patcount = Refs(n)
    BY <2>1, <2>2, <2>3 DEF Counted
  <2>5. Refs(n) > 1
    <3>1. ~(program[s].patcount <= 1)
      BY <1>8, <2>4 DEF DropKept, Unneeded, Cell
    <3> QED
      BY <2>1, <2>3, <2>4, <3>1
  <2>6. /\ table' = table
        /\ program'[s].patcount = program[s].patcount - 1
        /\ \A x \in Slots \ {s} : program'[x] = program[x]
    BY <1>8, <2>4 DEF DropKept, TypeOK, Records
  <2>7. \A m \in Programs \ {n} : table[m] # s
    BY <2>1, <2>4 DEF OwnedCells
  <2> HIDE DEF n, s
  <2>8. ASSUME NEW m \in Programs
        PROVE  /\ table'[m] = Null <=> Refs(m)' = 0
               /\ table'[m] # Null => program'[table'[m]].patcount = Refs(m)'
    <3>1. CASE m = n
      <4>1. table[n] = s
        BY DEF s
      <4> QED
        BY <2>2, <2>3, <2>4, <2>5, <2>6, <3>1, <4>1
    <3>2. CASE m # n
      <4>1. table[m] # Null => program'[table[m]] = program[table[m]]
        BY <2>3, <2>6, <2>7, <3>2
      <4>2. Refs(m)' = Refs(m)
        BY <2>2, <2>3, <3>2
      <4> QED
        BY <2>6, <4>1, <4>2 DEF Counted
    <3> QED
      BY <3>1, <3>2
  <2> QED
    BY <2>2, <2>8 DEF Counted
<1>9. ASSUME DropRemoved \/ DropStolen PROVE Looping' /\ Counted'
  <2> DEFINE n == old_pat[entry].program_number
             s == table[n]
  <2>1. n \in Programs
    BY <1>9, EntryTypes DEF DropRemoved, DropStolen, TypeOK
  <2>2. /\ Looping'
        /\ \A m \in Programs : Refs(m)' = Refs(m) - (IF n = m THEN 1 ELSE 0)
        /\ Refs(n) > 0
    BY <1>3, <1>9, <2>1 DEF DropRemoved, DropStolen
  <2>3. \A m \in Programs : table[m] \in Slots \cup {Null} /\ Refs(m) \in Nat
    BY RefsNat DEF TypeOK
  <2>4. s # Null /\ s \in Slots /\ program[s].patcount = Refs(n)
    BY <2>1, <2>2, <2>3 DEF Counted
  <2>5. Refs(n) = 1
    <3>1. program[s].patcount <= 1
      BY <1>9, <2>4 DEF DropRemoved, DropStolen, Unneeded, Cell
    <3> QED
      BY <2>1, <2>2, <2>3, <2>4, <3>1
  <2>6. /\ table' = [table EXCEPT ![n] = Null]
        /\ \A x \in Slots \ {s} : program'[x] = program[x]
    BY <1>9 DEF DropRemoved, DropStolen, TypeOK
  <2>7. \A m \in Programs \ {n} : table[m] # s
    BY <2>1, <2>4 DEF OwnedCells
  <2>8. table'[n] = Null /\ \A m \in Programs \ {n} : table'[m] = table[m]
    BY <2>1, <2>6 DEF TypeOK
  <2> HIDE DEF n, s
  <2>9. ASSUME NEW m \in Programs
        PROVE  /\ table'[m] = Null <=> Refs(m)' = 0
               /\ table'[m] # Null => program'[table'[m]].patcount = Refs(m)'
    <3>1. CASE m = n
      BY <2>2, <2>5, <2>8, <3>1
    <3>2. CASE m # n
      <4>1. table[m] # Null => program'[table[m]] = program[table[m]]
        BY <2>3, <2>6, <2>7, <3>2
      <4>2. Refs(m)' = Refs(m)
        BY <2>2, <2>3, <3>2
      <4> QED
        BY <2>8, <3>2, <4>1, <4>2 DEF Counted
    <3> QED
      BY <3>1, <3>2
  <2> QED
    BY <2>2, <2>9 DEF Counted
<1>10. ASSUME NEW n \in Programs, NEW pid \in PmtPids, NEW t \in Pmts, ApplyPmt(n, pid, t)
       PROVE Looping' /\ Counted'
  <2> DEFINE old == table[n]
  <2>1. pid \in Pids
    BY BaseAssumption
  <2>2. old \in Slots /\ old # Null /\ program[old] \in Records
    BY <1>10 DEF ApplyPmt, FirstPmt, ReplaceProgram, ReplaceCurrent, UpdateProgram, Starts,
           ToApply, TypeOK
  <2>3. program[old].patcount \in Int
    BY <2>2 DEF Records
  <2>4. NewProgram(pid, program[old].patcount) \in Records /\ Freed \in Records
        /\ NewProgram(pid, program[old].patcount).patcount = program[old].patcount
    BY <2>1, <2>3, RecordTypes DEF NewProgram
  <2>5. old \in live /\ old # previous /\ \A m \in Programs \ {n} : table[m] # old
    BY <2>2 DEF OwnedCells
  <2>6. UNCHANGED patVars
    BY <1>10 DEF ApplyPmt, FirstPmt, ReplaceProgram, ReplaceCurrent, UpdateProgram, Activate
  <2>7. CASE FirstPmt(n, pid, t)
    <3>1. Activate(old, n, pid, t, table, program, is_pes, known_psi, previous, program_number,
                   live)
      BY <2>7 DEF FirstPmt
    <3>2. \A m \in Programs : table[m] # Null => table[m] # previous
      BY DEF OwnedCells
    <3>3. /\ table \in [Programs -> Slots \cup {Null}] /\ program \in [Slots -> Records]
          /\ previous \in Slots \cup {Null}
      BY DEF TypeOK
    <3>4. table[n] = old
      OBVIOUS
    <3> HIDE DEF old
    <3>5. Counted'
      BY <2>2, <3>1, <3>2, <3>3, <3>4, ActivateCounted
    <3> QED
      BY <2>6, <3>5, RefsKept
  <2>8. ASSUME NEW s \in Slots \ live, ReplaceProgram(s, n, pid, t) PROVE Looping' /\ Counted'
    <3> DEFINE used == UsedPids([table EXCEPT ![n] = Null], program)
               tab == [table EXCEPT ![n] = s]
               heap == [program EXCEPT ![old] = Freed,
                                       ![s] = NewProgram(pid, program[old].patcount)]
               cells == (live \ {old}) \cup {s}
               pes == is_pes \ (PesBack(program[old]) \ used)
               psi == known_psi \ (PsiBack(program[old]) \ used)
    <3>1. Activate(s, n, pid, t, tab, heap, pes, psi, previous, program_number, cells)
      BY <2>8 DEF ReplaceProgram
    <3>2. s # old /\ s # previous /\ s # Null
      BY <2>5, BaseAssumption DEF OwnedCells
    <3>3. /\ heap \in [Slots -> Records]
          /\ heap[s] = NewProgram(pid, program[old].patcount)
          /\ \A x \in Slots \ {s, old} : heap[x] = program[x]
      BY <2>2, <2>4 DEF TypeOK
    <3>4. /\ tab \in [Programs -> Slots \cup {Null}] /\ tab[n] = s
          /\ \A m \in Programs \ {n} : tab[m] = table[m] /\ table[m] # s
      BY BaseAssumption DEF OwnedCells, TypeOK
    <3>5. \A m \in Programs : tab[m] # Null => tab[m] # previous
      BY <3>2, <3>4 DEF OwnedCells
    <3>6. \A m \in Programs : table[m] \in Slots \cup {Null}
      BY DEF TypeOK
    <3>7. table[n] = old /\ previous \in Slots \cup {Null}
      BY DEF TypeOK
    <3> HIDE DEF tab, heap, cells, pes, psi, old
    <3>8. \A m \in Programs :
            /\ tab[m] = Null <=> table[m] = Null
            /\ table[m] # Null => heap[tab[m]].patcount = program[table[m]].patcount
      BY <2>2, <2>4, <2>5, <3>2, <3>3, <3>4, <3>6, <3>7
    <3>9. Counted'
      BY <3>1, <3>3, <3>4, <3>5, <3>7, <3>8, ActivateCounted
    <3> QED
      BY <2>6, <3>9, RefsKept
  <2>9. ASSUME NEW s \in Slots \ live, ReplaceCurrent(s, n, pid, t) PROVE Looping' /\ Counted'
    <3> DEFINE tab == [table EXCEPT ![n] = s]
               heap == [program EXCEPT ![s] = NewProgram(pid, program[old].patcount)]
               cells == live \cup {s}
    <3>1. Activate(s, n, pid, t, tab, heap, is_pes, known_psi, old, Null, cells)
      BY <2>9 DEF ReplaceCurrent
    <3>2. s # old /\ s # Null
      BY <2>5, BaseAssumption DEF OwnedCells
    <3>3. /\ heap \in [Slots -> Records]
          /\ heap[s] = NewProgram(pid, program[old].patcount)
          /\ \A x \in Slots \ {s} : heap[x] = program[x]
      BY <2>2, <2>4 DEF TypeOK
    <3>4. /\ tab \in [Programs -> Slots \cup {Null}] /\ tab[n] = s
          /\ \A m \in Programs \ {n} : tab[m] = table[m] /\ table[m] # s
      BY BaseAssumption DEF OwnedCells, TypeOK
    <3>5. \A m \in Programs : tab[m] # Null => tab[m] # old
      BY <2>5, <3>2, <3>4 DEF OwnedCells
    <3>6. \A m \in Programs : table[m] \in Slots \cup {Null}
      BY DEF TypeOK
    <3>7. table[n] = old /\ old \in Slots \cup {Null}
      BY <2>2
    <3> HIDE DEF tab, heap, cells, old
    <3>8. \A m \in Programs :
            /\ tab[m] = Null <=> table[m] = Null
            /\ table[m] # Null => heap[tab[m]].patcount = program[table[m]].patcount
      BY <2>2, <2>4, <3>2, <3>3, <3>4, <3>6, <3>7
    <3>9. Counted'
      BY <3>1, <3>3, <3>4, <3>5, <3>7, <3>8, ActivateCounted
    <3> QED
      BY <2>6, <3>9, RefsKept
  <2>10. CASE UpdateProgram(n, pid, t)
    <3>1. /\ table' = table
          /\ \A s \in Slots : program'[s].patcount = program[s].patcount
      BY <2>2, <2>10 DEF UpdateProgram, Updated, TypeOK, Records
    <3>2. \A m \in Programs : table[m] \in Slots \cup {Null}
      BY DEF TypeOK
    <3>3. Counted'
      BY <2>6, <3>1, <3>2, CountedKept
    <3> QED
      BY <2>6, <3>3, RefsKept
  <2> QED
    BY <1>10, <2>7, <2>8, <2>9, <2>10 DEF ApplyPmt
<1>11. CASE Reset
  <2>1. /\ phase = "idle" /\ old_pat = <<>> /\ phase' = phase /\ old_pat' = old_pat
        /\ entry' = entry /\ pat' = <<>> /\ table' = [n \in Programs |-> Null]
    BY <1>11 DEF Reset, Looping
  <2>2. ASSUME NEW n \in Programs PROVE Refs(n)' = 0
    <3>1. Refs(n)' = Named(<<>>, n, Len(<<>>)) + Named(<<>>, n, Len(<<>>)) - Named(<<>>, n, 0)
      BY <2>1 DEF Refs, Taken, GivenBack
    <3>2. Len(<<>>) = 0 /\ Named(<<>>, n, 0) = 0
      BY NamedGrows
    <3> QED
      BY <3>1, <3>2
  <2>3. Looping'
    BY <2>1 DEF Looping
  <2> QED
    BY <2>1, <2>2, <2>3 DEF Counted
<1>12. ASSUME UNCHANGED <<programVars, patVars>> PROVE Looping' /\ Counted'
  <2>1. /\ UNCHANGED patVars
        /\ \A n \in Programs :
             /\ table'[n] = Null <=> table[n] = Null
             /\ table[n] # Null => program'[table'[n]].patcount = program[table[n]].patcount
    BY <1>12 DEF programVars
  <2> QED
    BY <2>1, CountedKept, RefsKept
<1> QED
  BY <1>1, <1>4, <1>5, <1>6, <1>7, <1>8, <1>9, <1>10, <1>11, <1>12
  DEF Next, HandlePat, ParseMgt, FlushStop, SetProgramNumber, vars
-----------------------------------------------------------------------------
LEMMA CountInit == Init => OwnedCells /\ Looping /\ Counted
<1> SUFFICES ASSUME Init PROVE OwnedCells /\ Looping /\ Counted
  OBVIOUS
<1>1. OwnedCells /\ Looping
  BY DEF Init, OwnedCells, Looping
<1>2. pat = <<>> /\ old_pat = <<>> /\ phase = "idle"
  BY DEF Init
<1>3. ASSUME NEW n \in Programs PROVE Refs(n) = 0
  <2>1. Refs(n) = Named(<<>>, n, Len(<<>>)) + Named(<<>>, n, Len(<<>>)) - Named(<<>>, n, 0)
    BY <1>2 DEF Refs, Taken, GivenBack
  <2>2. Len(<<>>) = 0 /\ Named(<<>>, n, 0) = 0
    BY NamedGrows
  <2> QED
    BY <2>1, <2>2
<1> QED
  BY <1>1, <1>3 DEF Init, Counted

LEMMA CountAlways == Spec => []CountInv
<1>1. Init => CountInv
  BY TypeInit, CountInit DEF CountInv
<1>2. CountInv /\ [Next]_vars => CountInv'
  BY TypeStep, OwnedStep, CountedStep DEF CountInv
<1> QED
  BY <1>1, <1>2, PTL DEF Spec

\* A program is in the table exactly as long as a PAT refers to it, and patcount is the
\* number of those references, in the middle of apply_pat too: for any PATs, any programs.
THEOREM ProgramsAreCounted == Spec => [](TypeOK /\ Counted)
<1>1. CountInv => TypeOK /\ Counted
  BY DEF CountInv
<1> QED
  BY <1>1, CountAlways, PTL

\* In particular the table, the PATs and the PID sets keep their types, and no PID of the fixed
\* tables (PAT, TSDT, ...) is ever taken for an elementary stream.
THEOREM BaseTypes == Spec => []TypeOK
BY ProgramsAreCounted, PTL

\* Every program is owned by the table or by the demuxer, and demux->program never points to
\* memory that was freed.
THEOREM ProgramsAreOwned == Spec => []Owned
<1>1. CountInv => Owned
  BY OwnedAsCells DEF CountInv
<1> QED
  BY <1>1, CountAlways, PTL
-----------------------------------------------------------------------------
(* What is played *)

\* Activate frees at most the program that was kept, and then another one is played.
LEMMA ActivateSeamless ==
  ASSUME NEW n \in Programs, NEW s \in Slots, NEW pid, NEW t,
         NEW tab, NEW heap \in [Slots -> Records], NEW pes, NEW psi,
         NEW kept \in Slots \cup {Null}, NEW number, NEW cells \in SUBSET Slots,
         Activate(s, n, pid, t, tab, heap, pes, psi, kept, number, cells),
         s \in cells, s # kept
  PROVE  cells \ live' # {} => current' = s /\ s \in live' /\ program'[s].active
<1>1. CASE IsChosen(n, number)
  <2>1. live' = cells \ {kept} /\ current' = s
    BY <1>1 DEF Activate
  <2>2. program'[s] = Activated(heap[s], pid, t)
    BY ActivateCells
  <2>3. Activated(heap[s], pid, t).active
    BY ActivatedFields
  <2> QED
    BY <2>1, <2>2, <2>3
<1>2. CASE ~IsChosen(n, number)
  <2>1. live' = cells
    BY <1>2, BaseAssumption DEF Activate
  <2> QED
    BY <2>1
<1> QED
  BY <1>1, <1>2

\* The demuxer's program is freed.
Goes == current \in live /\ current \notin live'

LEMMA SeamlessStep ==
  ASSUME CountInv, [Next]_vars, Goes
  PROVE  (current' \in live' /\ program'[current'].active) \/ table' = [n \in Programs |-> Null]
<1> USE DEF CountInv, Goes
<1>1. ~\E s \in Slots \ live : AddNew(s)
  BY DEF AddNew
<1>2. ~(AddKnown \/ DropKept \/ DropStolen)
  BY DEF AddKnown, DropKept, DropStolen
<1>3. ~DropRemoved
  BY DEF DropRemoved, CanRemove
<1>4. ASSUME NEW n \in Programs, NEW pid \in PmtPids, NEW t \in Pmts, ApplyPmt(n, pid, t)
      PROVE  current' \in live' /\ program'[current'].active
  <2> DEFINE old == table[n]
  <2>1. pid \in Pids
    BY BaseAssumption
  <2>2. old \in Slots /\ old # Null /\ program[old] \in Records
    BY <1>4 DEF ApplyPmt, FirstPmt, ReplaceProgram, ReplaceCurrent, UpdateProgram, Starts,
           ToApply, TypeOK
  <2>3. NewProgram(pid, program[old].patcount) \in Records /\ Freed \in Records
    BY <2>1, <2>2, RecordTypes DEF Records
  <2>4. old \in live /\ old # previous
    BY <2>2 DEF OwnedCells
  <2>5. /\ program \in [Slots -> Records] /\ previous \in Slots \cup {Null}
        /\ live \in SUBSET Slots
    BY DEF TypeOK
  <2>6. CASE FirstPmt(n, pid, t)
    <3>1. Activate(old, n, pid, t, table, program, is_pes, known_psi, previous, program_number,
                   live)
      BY <2>6 DEF FirstPmt
    <3> HIDE DEF old
    <3> QED
      BY <2>2, <2>4, <2>5, <3>1, ActivateSeamless
  <2>7. ASSUME NEW s \in Slots \ live, ReplaceProgram(s, n, pid, t)
        PROVE  current' \in live' /\ program'[current'].active
    <3> DEFINE used == UsedPids([table EXCEPT ![n] = Null], program)
               tab == [table EXCEPT ![n] = s]
               heap == [program EXCEPT ![old] = Freed,
                                       ![s] = NewProgram(pid, program[old].patcount)]
               cells == (live \ {old}) \cup {s}
               pes == is_pes \ (PesBack(program[old]) \ used)
               psi == known_psi \ (PsiBack(program[old]) \ used)
    <3>1. Activate(s, n, pid, t, tab, heap, pes, psi, previous, program_number, cells)
      BY <2>7 DEF ReplaceProgram
    <3>2. current # old
      BY <2>7 DEF ReplaceProgram, CanRemove
    <3>3. s # previous
      BY BaseAssumption DEF OwnedCells
    <3>4. heap \in [Slots -> Records] /\ cells \in SUBSET Slots /\ s \in cells /\ current \in cells
      BY <2>3, <2>5, <3>2
    <3> HIDE DEF tab, heap, cells, pes, psi, old
    <3> QED
      BY <2>5, <3>1, <3>3, <3>4, ActivateSeamless
  <2>8. ASSUME NEW s \in Slots \ live, ReplaceCurrent(s, n, pid, t)
        PROVE  current' \in live' /\ program'[current'].active
    <3> DEFINE tab == [table EXCEPT ![n] = s]
               heap == [program EXCEPT ![s] = NewProgram(pid, program[old].patcount)]
               cells == live \cup {s}
    <3>1. Activate(s, n, pid, t, tab, heap, is_pes, known_psi, old, Null, cells)
      BY <2>8 DEF ReplaceCurrent
    <3>2. s # old
      BY <2>4
    <3>3. heap \in [Slots -> Records] /\ cells \in SUBSET Slots /\ s \in cells /\ current \in cells
      BY <2>3, <2>5
    <3> HIDE DEF tab, heap, cells, old
    <3> QED
      BY <2>2, <3>1, <3>2, <3>3, ActivateSeamless
  <2>9. ~UpdateProgram(n, pid, t)
    BY DEF UpdateProgram
  <2> QED
    BY <1>4, <2>6, <2>7, <2>8, <2>9 DEF ApplyPmt
<1>5. CASE Reset
  BY <1>5 DEF Reset
<1>6. live' # live
  OBVIOUS
<1> QED
  BY <1>1, <1>2, <1>3, <1>4, <1>5, <1>6
  DEF Next, HandlePat, ApplyPat, EndAdd, EndDrop, ParseMgt, FlushStop, SetProgramNumber, vars,
      programVars

\* What the demuxer plays is freed only when another program has started, or by a reset, in
\* whatever order PATs and PMTs come and programs are asked for.
THEOREM ProgramsChangeSeamlessly == Spec => Seamless
<1>1. CountInv /\ [Next]_vars =>
        [\A s \in Slots : current = s /\ s \in live /\ s \notin live' =>
           (current' \in live' /\ program'[current'].active) \/ table' = [n \in Programs |-> Null]]_vars
  BY SeamlessStep DEF Goes
<1> QED
  BY <1>1, CountAlways, PTL DEF Spec, Seamless
-----------------------------------------------------------------------------
(* Delivery *)

\* The packets of program p reach the demuxer, and its PIDs are known to be in use.
Heeded(p, pes) == PesOf(p.pmt) \cup {p.pmt.pcr} \subseteq pes \cap StreamsOf(p)

Delivery(tab, heap, pes) ==
  \A n \in Programs : tab[n] # Null /\ heap[tab[n]].active => Heeded(heap[tab[n]], pes)

DeliveryInv == ~streams_aware => Delivery(table, program, is_pes)

\* PIDs are given back unless a program uses them.
LEMMA GiveBack ==
  ASSUME NEW tab, NEW heap, NEW pes, NEW back, Delivery(tab, heap, pes)
  PROVE  Delivery(tab, heap, pes \ (back \ UsedPids(tab, heap)))
<1> SUFFICES ASSUME NEW n \in Programs, tab[n] # Null, heap[tab[n]].active
             PROVE  Heeded(heap[tab[n]], pes \ (back \ UsedPids(tab, heap)))
  BY DEF Delivery
<1>1. Heeded(heap[tab[n]], pes)
  BY DEF Delivery
<1>2. StreamsOf(heap[tab[n]]) \subseteq UsedPids(tab, heap)
  BY Zenon DEF UsedPids
<1> QED
  BY <1>1, <1>2 DEF Heeded

\* A program that starts has the streams of its PMT, and the PCR.
LEMMA ActivatedHeeded ==
  ASSUME NEW p \in Records, NEW pid \in Pids, NEW t \in Pmts, NEW pes
  PROVE  Heeded(Activated(p, pid, t), PesActivated(pes, t))
<1> DEFINE q == Activated(p, pid, t)
           pcr == [NoStreams EXCEPT ![t.pcr] = PcrOnly]
<1>1. q.pmt = t /\ q.streams = WithStreams(WithStreams(p.streams, t.streams), pcr)
  BY ActivatedFields
<1>2. t.pcr \in Pids /\ pcr[t.pcr] = PcrOnly /\ PcrOnly # NoStream
  BY BaseAssumption DEF NoStreams
<1>3. \A x \in Pids : t.streams[x] # NoStream \/ pcr[x] # NoStream =>
        WithStreams(WithStreams(p.streams, t.streams), pcr)[x] # NoStream
  BY DEF WithStreams
<1> HIDE DEF q, pcr
<1>4. PesOf(t) \cup {t.pcr} \subseteq StreamsOf(q)
  BY <1>1, <1>2, <1>3 DEF PesOf, StreamsOf
<1>5. PesOf(t) \cup {t.pcr} \subseteq PesActivated(pes, t)
  BY DEF PesActivated
<1> QED
  BY <1>1, <1>4, <1>5 DEF Heeded, q

\* Activate delivers the program it starts and goes on delivering the others.
LEMMA ActivateDelivery ==
  ASSUME TypeOK,
         NEW n \in Programs, NEW s \in Slots, NEW pid \in Pids, NEW t \in Pmts,
         NEW tab \in [Programs -> Slots \cup {Null}], NEW heap \in [Slots -> Records],
         NEW pes, NEW psi, NEW kept \in Slots \cup {Null}, NEW number, NEW cells,
         Activate(s, n, pid, t, tab, heap, pes, psi, kept, number, cells),
         tab[n] = s,
         \A m \in Programs \ {n} : tab[m] # s,
         \A m \in Programs : tab[m] # Null => tab[m] # kept,
         \A m \in Programs \ {n} :
           tab[m] # Null /\ heap[tab[m]].active => Heeded(heap[tab[m]], pes)
  PROVE  Delivery(table, program, is_pes)'
<1> DEFINE out == IF IsChosen(n, number) THEN kept ELSE Null
           started == [heap EXCEPT ![s] = Activated(heap[s], pid, t)]
           used == UsedPids(tab, started)
           back == PesBack(Cell(started, out))
<1>1. /\ s # kept /\ table' = tab
      /\ is_pes' = PesActivated(pes, t) \ (back \ used)
  BY BaseAssumption DEF Activate
<1>2. /\ program'[s] = Activated(heap[s], pid, t)
      /\ \A x \in Slots \ {s, kept} : program'[x] = heap[x]
  BY <1>1, ActivateCells
<1>3. started[s] = Activated(heap[s], pid, t) /\ \A x \in Slots \ {s} : started[x] = heap[x]
  OBVIOUS
<1> HIDE DEF out, started, back
<1>4. ASSUME NEW m \in Programs, tab[m] # Null, started[tab[m]].active
      PROVE  Heeded(started[tab[m]], PesActivated(pes, t))
  <2>1. CASE m = n
    <3>1. heap[s] \in Records
      OBVIOUS
    <3> QED
      BY <1>3, <2>1, <3>1, ActivatedHeeded
  <2>2. CASE m # n
    <3>1. tab[m] \in Slots \ {s}
      BY <1>4, <2>2
    <3>2. started[tab[m]] = heap[tab[m]]
      BY <1>3, <3>1
    <3>3. Heeded(heap[tab[m]], pes)
      BY <1>4, <2>2, <3>2
    <3>4. pes \subseteq PesActivated(pes, t)
      BY DEF PesActivated
    <3> QED
      BY <3>2, <3>3, <3>4 DEF Heeded
  <2> QED
    BY <2>1, <2>2
<1>5. Delivery(tab, started, PesActivated(pes, t))
  BY <1>4 DEF Delivery
<1>6. Delivery(tab, started, is_pes')
  BY <1>1, <1>5, GiveBack
<1>7. \A m \in Programs : tab[m] # Null => program'[tab[m]] = started[tab[m]]
  BY <1>2, <1>3
<1> QED
  BY <1>1, <1>6, <1>7 DEF Delivery

LEMMA DeliveryStep == CountInv /\ DeliveryInv /\ [Next]_vars => DeliveryInv'
<1> SUFFICES ASSUME CountInv, DeliveryInv, [Next]_vars PROVE DeliveryInv'
  OBVIOUS
<1> USE DEF CountInv
<1>1. ASSUME NEW s \in Slots \ live, AddNew(s) PROVE DeliveryInv'
  <2> DEFINE n == pat[entry].program_number
  <2>1. n \in Programs /\ pat[entry].pid \in Pids
    BY <1>1, EntryTypes DEF AddNew, TypeOK
  <2>2. /\ table' = [table EXCEPT ![n] = s]
        /\ program' = [program EXCEPT ![s] = NewProgram(pat[entry].pid, 1)]
        /\ is_pes' = is_pes /\ streams_aware' = streams_aware
    BY <1>1 DEF AddNew
  <2>3. \A m \in Programs \ {n} : table'[m] = table[m] /\ table[m] # s
    BY <2>2, BaseAssumption DEF OwnedCells, TypeOK
  <2>4. ~program'[s].active /\ \A x \in Slots \ {s} : program'[x] = program[x]
    BY <2>2 DEF NewProgram, TypeOK
  <2>5. table'[n] = s /\ \A m \in Programs : table[m] \in Slots \cup {Null}
    BY <2>1, <2>2 DEF TypeOK
  <2> HIDE DEF n
  <2> SUFFICES ASSUME ~streams_aware, NEW m \in Programs, table'[m] # Null,
                      program'[table'[m]].active
               PROVE  Heeded(program'[table'[m]], is_pes)
    BY <2>2 DEF DeliveryInv, Delivery
  <2>6. m # n
    BY <2>4, <2>5
  <2>7. table'[m] = table[m] /\ program'[table[m]] = program[table[m]]
    BY <2>3, <2>4, <2>5, <2>6
  <2> QED
    BY <2>7 DEF DeliveryInv, Delivery
<1>2. ASSUME AddKnown \/ DropKept \/ DropStolen PROVE DeliveryInv'
  <2>1. is_pes' = is_pes /\ streams_aware' = streams_aware
    BY <1>2 DEF AddKnown, DropKept, DropStolen, pidVars
  <2>2. \A m \in Programs : table'[m] = table[m] \/ table'[m] = Null
    BY <1>2 DEF AddKnown, DropKept, DropStolen, TypeOK
  <2>3. \A x \in Slots : /\ program'[x].active = program[x].active
                         /\ program'[x].pmt = program[x].pmt
                         /\ program'[x].streams = program[x].streams
    <3>1. CASE AddKnown
      <4> DEFINE x == table[pat[entry].program_number]
      <4>1. pat[entry].program_number \in Programs /\ pat[entry].pid \in Pids
        BY <3>1, EntryTypes DEF AddKnown, TypeOK
      <4>2. x \in Slots /\ program[x] \in Records
        BY <3>1, <4>1 DEF AddKnown, TypeOK
      <4> QED
        BY <3>1, <4>1, <4>2, ListedFields DEF AddKnown, TypeOK
    <3>2. CASE DropKept
      BY <3>2 DEF DropKept, TypeOK, Records
    <3>3. CASE DropStolen
      <4> DEFINE x == table[old_pat[entry].program_number]
      <4>1. old_pat[entry].program_number \in Programs
        BY <3>3, EntryTypes DEF DropStolen, TypeOK
      <4>2. x \in Slots /\ program[x] \in Records
        BY <3>3, <4>1 DEF DropStolen, Unneeded, TypeOK
      <4> QED
        BY <3>3, <4>2 DEF DropStolen, TypeOK, Records
    <3> QED
      BY <1>2, <3>1, <3>2, <3>3
  <2>4. \A m \in Programs : table[m] \in Slots \cup {Null}
    BY DEF TypeOK
  <2> QED
    BY <2>1, <2>2, <2>3, <2>4 DEF DeliveryInv, Delivery, Heeded, StreamsOf
<1>3. CASE DropRemoved
  <2> DEFINE n == old_pat[entry].program_number
             rest == [table EXCEPT ![n] = Null]
             back == PesBack(program[table[n]])
  <2>1. n \in Programs
    BY <1>3, EntryTypes DEF DropRemoved, TypeOK
  <2>2. /\ table' = rest /\ streams_aware' = streams_aware
        /\ is_pes' = is_pes \ (back \ UsedPids(rest, program))
        /\ \A x \in Slots \ {table[n]} : program'[x] = program[x]
    BY <1>3 DEF DropRemoved, TypeOK
  <2>3. table[n] # Null
    BY <1>3 DEF DropRemoved, Unneeded
  <2>4. rest[n] = Null /\ \A m \in Programs \ {n} : rest[m] = table[m] /\ table[m] # table[n]
    BY <2>1, <2>3 DEF OwnedCells, TypeOK
  <2>5. \A m \in Programs : table[m] \in Slots \cup {Null}
    BY DEF TypeOK
  <2> HIDE DEF n, rest, back
  <2>6. ASSUME ~streams_aware PROVE Delivery(rest, program, is_pes)
    BY <2>4, <2>6 DEF DeliveryInv, Delivery
  <2>7. ASSUME ~streams_aware PROVE Delivery(rest, program, is_pes')
    BY <2>2, <2>6, <2>7, GiveBack
  <2>8. \A m \in Programs : rest[m] # Null => program'[rest[m]] = program[rest[m]]
    BY <2>2, <2>4, <2>5
  <2> QED
    BY <2>2, <2>7, <2>8 DEF DeliveryInv, Delivery

<1>4. ASSUME NEW n \in Programs, NEW pid \in PmtPids, NEW t \in Pmts, ApplyPmt(n, pid, t)
      PROVE DeliveryInv'
  <2> DEFINE old == table[n]
  <2>1. pid \in Pids
    BY BaseAssumption
  <2>2. old \in Slots /\ old # Null /\ program[old] \in Records
    BY <1>4 DEF ApplyPmt, FirstPmt, ReplaceProgram, ReplaceCurrent, UpdateProgram, Starts,
           ToApply, TypeOK
  <2>3. NewProgram(pid, program[old].patcount) \in Records /\ Freed \in Records
    BY <2>1, <2>2, RecordTypes DEF Records
  <2>4. old \in live /\ old # previous /\ \A m \in Programs \ {n} : table[m] # old
    BY <2>2 DEF OwnedCells
  <2>5. CASE FirstPmt(n, pid, t)
    <3>1. /\ Activate(old, n, pid, t, table, program, is_pes, known_psi, previous,
                      program_number, live)
          /\ streams_aware' = streams_aware
      BY <2>5 DEF FirstPmt, Activate
    <3>2. \A m \in Programs : table[m] # Null => table[m] # previous
      BY DEF OwnedCells
    <3>3. /\ table \in [Programs -> Slots \cup {Null}] /\ program \in [Slots -> Records]
          /\ previous \in Slots \cup {Null}
      BY DEF TypeOK
    <3>4. table[n] = old
      OBVIOUS
    <3>5. ASSUME ~streams_aware
          PROVE  \A m \in Programs \ {n} : table[m] # Null /\ program[table[m]].active
                                            => Heeded(program[table[m]], is_pes)
      BY <3>5 DEF DeliveryInv, Delivery
    <3> HIDE DEF old
    <3>6. ASSUME ~streams_aware PROVE Delivery(table, program, is_pes)'
      BY <2>1, <2>2, <2>4, <3>1, <3>2, <3>3, <3>4, <3>5, <3>6, ActivateDelivery
    <3> QED
      BY <3>1, <3>6 DEF DeliveryInv
  <2>6. ASSUME NEW s \in Slots \ live, ReplaceProgram(s, n, pid, t) PROVE DeliveryInv'
    <3> DEFINE bare == [table EXCEPT ![n] = Null]
               tab == [table EXCEPT ![n] = s]
               heap == [program EXCEPT ![old] = Freed,
                                       ![s] = NewProgram(pid, program[old].patcount)]
               cells == (live \ {old}) \cup {s}
               pes == is_pes \ (PesBack(program[old]) \ UsedPids(bare, program))
               psi == known_psi \ (PsiBack(program[old]) \ UsedPids(bare, program))
    <3>1. /\ Activate(s, n, pid, t, tab, heap, pes, psi, previous, program_number, cells)
          /\ streams_aware' = streams_aware
      BY <2>6 DEF ReplaceProgram, Activate
    <3>2. s # old /\ s # previous /\ s # Null
      BY <2>4, BaseAssumption DEF OwnedCells
    <3>3. /\ heap \in [Slots -> Records]
          /\ \A x \in Slots \ {s, old} : heap[x] = program[x]
      BY <2>2, <2>3 DEF TypeOK
    <3>4. /\ tab \in [Programs -> Slots \cup {Null}] /\ tab[n] = s
          /\ \A m \in Programs \ {n} : tab[m] = table[m] /\ table[m] # s
      BY BaseAssumption DEF OwnedCells, TypeOK
    <3>5. \A m \in Programs : tab[m] # Null => tab[m] # previous
      BY <3>2, <3>4 DEF OwnedCells
    <3>6. /\ \A m \in Programs : table[m] \in Slots \cup {Null}
          /\ previous \in Slots \cup {Null}
      BY DEF TypeOK
    <3>7. bare[n] = Null /\ \A m \in Programs \ {n} : bare[m] = table[m]
      BY DEF TypeOK
    <3>8. ASSUME ~streams_aware PROVE Delivery(bare, program, pes)
      <4> HIDE DEF bare
      <4>1. Delivery(bare, program, is_pes)
        BY <3>7, <3>8 DEF DeliveryInv, Delivery
      <4> QED
        BY <4>1, GiveBack
    <3> HIDE DEF bare, tab, heap, cells, pes, psi, old
    <3>9. ASSUME ~streams_aware
          PROVE  \A m \in Programs \ {n} : tab[m] # Null /\ heap[tab[m]].active
                                            => Heeded(heap[tab[m]], pes)
      <4> SUFFICES ASSUME NEW m \in Programs \ {n}, tab[m] # Null, heap[tab[m]].active
                   PROVE  Heeded(heap[tab[m]], pes)
        OBVIOUS
      <4>1. tab[m] = bare[m] /\ tab[m] \in Slots \ {s, old}
        BY <2>4, <3>4, <3>6, <3>7
      <4>2. heap[tab[m]] = program[bare[m]]
        BY <3>3, <4>1
      <4> QED
        BY <3>8, <3>9, <4>1, <4>2 DEF Delivery
    <3>10. ASSUME ~streams_aware PROVE Delivery(table, program, is_pes)'
      BY <2>1, <3>1, <3>3, <3>4, <3>5, <3>6, <3>9, <3>10, ActivateDelivery
    <3> QED
      BY <3>1, <3>10 DEF DeliveryInv
  <2>7. ASSUME NEW s \in Slots \ live, ReplaceCurrent(s, n, pid, t) PROVE DeliveryInv'
    <3> DEFINE tab == [table EXCEPT ![n] = s]
               heap == [program EXCEPT ![s] = NewProgram(pid, program[old].patcount)]
               cells == live \cup {s}
    <3>1. /\ Activate(s, n, pid, t, tab, heap, is_pes, known_psi, old, Null, cells)
          /\ streams_aware' = streams_aware
      BY <2>7 DEF ReplaceCurrent, Activate
    <3>2. s # old /\ s # Null
      BY <2>4, BaseAssumption DEF OwnedCells
    <3>3. /\ heap \in [Slots -> Records]
          /\ \A x \in Slots \ {s} : heap[x] = program[x]
      BY <2>2, <2>3 DEF TypeOK
    <3>4. /\ tab \in [Programs -> Slots \cup {Null}] /\ tab[n] = s
          /\ \A m \in Programs \ {n} : tab[m] = table[m] /\ table[m] # s
      BY BaseAssumption DEF OwnedCells, TypeOK
    <3>5. \A m \in Programs : tab[m] # Null => tab[m] # old
      BY <2>4, <3>2, <3>4 DEF OwnedCells
    <3>6. \A m \in Programs : table[m] \in Slots \cup {Null}
      BY DEF TypeOK
    <3> HIDE DEF tab, heap, cells, old
    <3>7. ASSUME ~streams_aware
          PROVE  \A m \in Programs \ {n} : tab[m] # Null /\ heap[tab[m]].active
                                            => Heeded(heap[tab[m]], is_pes)
      <4> SUFFICES ASSUME NEW m \in Programs \ {n}, tab[m] # Null, heap[tab[m]].active
                   PROVE  Heeded(heap[tab[m]], is_pes)
        OBVIOUS
      <4>1. tab[m] = table[m] /\ tab[m] \in Slots \ {s}
        BY <3>4, <3>6
      <4>2. heap[tab[m]] = program[table[m]]
        BY <3>3, <4>1
      <4> QED
        BY <3>7, <4>1, <4>2 DEF DeliveryInv, Delivery
    <3>8. ASSUME ~streams_aware PROVE Delivery(table, program, is_pes)'
      BY <2>1, <2>2, <3>1, <3>3, <3>4, <3>5, <3>7, <3>8, ActivateDelivery
    <3> QED
      BY <3>1, <3>8 DEF DeliveryInv
  <2>8. CASE UpdateProgram(n, pid, t)
    BY <2>8 DEF UpdateProgram, Updates, DeliveryInv
  <2> QED
    BY <1>4, <2>5, <2>6, <2>7, <2>8 DEF ApplyPmt
<1>5. CASE Reset
  BY <1>5 DEF Reset, DeliveryInv, Delivery
<1>6. ASSUME UNCHANGED <<programVars, is_pes, streams_aware>> PROVE DeliveryInv'
  BY <1>6 DEF programVars, DeliveryInv
<1> QED
  BY <1>1, <1>2, <1>3, <1>4, <1>5, <1>6
  DEF Next, HandlePat, ApplyPat, EndAdd, EndDrop, ParseMgt, FlushStop, SetProgramNumber, vars,
      pidVars

\* Unless the bin is streams-aware, the streams and the PCR of every active program stay PES
\* PIDs, however programs that share PIDs with it come, change and go.
THEOREM StreamsAreDelivered == Spec => []DeliveredUnaware
<1>1. Init => CountInv /\ DeliveryInv
  BY TypeInit, CountInit DEF CountInv, Init, DeliveryInv, Delivery
<1>2. CountInv /\ DeliveryInv /\ [Next]_vars => (CountInv /\ DeliveryInv)'
  BY TypeStep, OwnedStep, CountedStep, DeliveryStep DEF CountInv
<1>3. CountInv /\ DeliveryInv => DeliveredUnaware
  <2> SUFFICES ASSUME CountInv, DeliveryInv, ~streams_aware PROVE Delivered
    BY DEF DeliveredUnaware
  <2> SUFFICES ASSUME NEW p \in ActivePrograms PROVE PesOf(p.pmt) \cup {p.pmt.pcr} \subseteq is_pes
    BY DEF Delivered
  <2>1. PICK n \in Programs : table[n] # Null /\ program[table[n]].active /\ p = program[table[n]]
    BY DEF ActivePrograms, InTable
  <2>2. Heeded(p, is_pes)
    BY <2>1 DEF DeliveryInv, Delivery
  <2> QED
    BY <2>2 DEF Heeded
<1> QED
  BY <1>1, <1>2, <1>3, PTL DEF Spec
-----------------------------------------------------------------------------
(* No bit stays *)

\* A program that is active has the streams of one PMT and its PCR, any other has none.
Tidy(p) ==
  /\ p.active => /\ p.pmt \in Pmts /\ p.pcr_pid = p.pmt.pcr
                 /\ StreamsOf(p) = StreamsOf(p.pmt) \cup {p.pmt.pcr}
                 /\ \A x \in StreamsOf(p.pmt) : p.streams[x] = p.pmt.streams[x]
  /\ ~p.active => p.streams = NoStreams /\ p.pcr_pid = NoPid

Covered(cells, heap, pes) ==
  \A x \in pes : \E s \in cells : heap[s].active /\ x \in PesBack(heap[s])

StaleInv ==
  ~streams_aware =>
    /\ \A s \in Slots : Tidy(program[s])
    /\ OneClassPerPid => Covered(live, program, is_pes)

LEMMA NewTidy == ASSUME NEW pid, NEW count PROVE Tidy(NewProgram(pid, count))
  BY DEF Tidy, NewProgram

LEMMA ActivatedTidy ==
  ASSUME NEW p \in Records, p.streams = NoStreams, NEW pid, NEW t \in Pmts
  PROVE  Tidy(Activated(p, pid, t)) /\ PesBack(Activated(p, pid, t)) = PesOf(t) \cup {t.pcr}
<1> DEFINE q == Activated(p, pid, t)
           pcr == [NoStreams EXCEPT ![t.pcr] = PcrOnly]
<1>1. q.active /\ q.pmt = t /\ q.streams = WithStreams(WithStreams(p.streams, t.streams), pcr)
  BY ActivatedFields
<1>2. q.pcr_pid = t.pcr
  BY DEF Activated, Records
<1>3. /\ t.pcr \in Pids /\ pcr[t.pcr] = PcrOnly /\ PcrOnly # NoStream
      /\ \A x \in Pids \ {t.pcr} : pcr[x] = NoStream
  BY BaseAssumption DEF NoStreams
<1>4. \A x \in Pids : WithStreams(WithStreams(p.streams, t.streams), pcr)[x] # NoStream
                        <=> t.streams[x] # NoStream \/ pcr[x] # NoStream
  BY DEF WithStreams, NoStreams
<1>5. \A x \in Pids : t.streams[x] # NoStream =>
        WithStreams(WithStreams(p.streams, t.streams), pcr)[x] = t.streams[x]
  BY DEF WithStreams, NoStreams
<1> HIDE DEF q, pcr
<1>6. StreamsOf(q) = StreamsOf(t) \cup {t.pcr}
  BY <1>1, <1>3, <1>4 DEF StreamsOf
<1>7. \A x \in StreamsOf(t) : q.streams[x] = t.streams[x]
  BY <1>1, <1>5 DEF StreamsOf
<1> QED
  BY <1>1, <1>2, <1>6, <1>7 DEF Tidy, PesBack, q

\* On a PID of packets no program has sections.
LEMMA OneClass ==
  ASSUME OneClassPerPid, NEW p, NEW q, p.active, q.active, Tidy(p), Tidy(q),
         NEW x \in PesBack(p), x \in StreamsOf(q)
  PROVE  x \in PesBack(q)
  BY DEF OneClassPerPid, Tidy, PesBack, PesOf

\* The PIDs of a program that goes are given back, or another program has them.
LEMMA GiveBackCovered ==
  ASSUME OneClassPerPid, NEW cells \in SUBSET Slots, NEW heap, \A s \in cells : Tidy(heap[s]),
         NEW pes, Covered(cells, heap, pes), NEW out,
         NEW tab, \A m \in Programs : tab[m] # Null => tab[m] \in cells \ {out}
  PROVE  Covered(cells \ {out}, heap, pes \ (PesBack(heap[out]) \ UsedPids(tab, heap)))
<1> SUFFICES ASSUME NEW x \in pes \ (PesBack(heap[out]) \ UsedPids(tab, heap))
             PROVE  \E s \in cells \ {out} : heap[s].active /\ x \in PesBack(heap[s])
  BY DEF Covered
<1>1. PICK s \in cells : heap[s].active /\ x \in PesBack(heap[s])
  BY DEF Covered
<1>2. CASE s # out
  BY <1>1, <1>2
<1>3. CASE s = out
  <2>1. x \in UsedPids(tab, heap)
    BY <1>1, <1>3
  <2>2. PICK m \in Programs : tab[m] # Null /\ heap[tab[m]].active /\ x \in StreamsOf(heap[tab[m]])
    BY <2>1, Zenon DEF UsedPids
  <2> QED
    BY <1>1, <2>2, OneClass
<1> QED
  BY <1>2, <1>3

LEMMA ActivateTidy ==
  ASSUME NEW n \in Programs, NEW s \in Slots, NEW pid \in Pids, NEW t \in Pmts,
         NEW tab \in [Programs -> Slots \cup {Null}], NEW heap \in [Slots -> Records],
         NEW pes, NEW psi, NEW kept \in Slots \cup {Null}, NEW number,
         NEW cells \in SUBSET Slots,
         Activate(s, n, pid, t, tab, heap, pes, psi, kept, number, cells),
         s \in cells, s # kept, heap[s].streams = NoStreams, ~heap[s].active,
         \A m \in Programs : tab[m] # Null => tab[m] \in cells /\ tab[m] # kept,
         \A x \in Slots : Tidy(heap[x])
  PROVE  /\ \A x \in Slots : Tidy(program'[x])
         /\ OneClassPerPid /\ Covered(cells, heap, pes) => Covered(live, program, is_pes)'
<1> DEFINE out == IF IsChosen(n, number) THEN kept ELSE Null
           started == [heap EXCEPT ![s] = Activated(heap[s], pid, t)]
           used == UsedPids(tab, started)
<1>1. /\ live' = cells \ {out}
      /\ is_pes' = PesActivated(pes, t) \ (PesBack(Cell(started, out)) \ used)
      /\ program' = [x \in Slots |-> IF x = out THEN Freed ELSE started[x]]
  BY DEF Activate
<1>2. /\ started[s] = Activated(heap[s], pid, t)
      /\ \A x \in Slots \ {s} : started[x] = heap[x]
  OBVIOUS
<1>3. Tidy(started[s]) /\ PesBack(started[s]) = PesOf(t) \cup {t.pcr} /\ started[s].active
  <2> DEFINE q == Activated(heap[s], pid, t)
  <2>1. heap[s] \in Records
    OBVIOUS
  <2>2. Tidy(q) /\ PesBack(q) = PesOf(t) \cup {t.pcr}
    BY <2>1, ActivatedTidy
  <2>3. q.active
    BY <2>1, ActivatedFields
  <2>4. started[s] = q
    BY <1>2
  <2> HIDE DEF q, started
  <2> QED
    BY <2>2, <2>3, <2>4
<1>4. \A x \in Slots : Tidy(started[x])
  BY <1>2, <1>3
<1>5. out = Null \/ (out \in Slots /\ out = kept)
  OBVIOUS
<1> HIDE DEF out, started, used
<1>6. \A x \in Slots : Tidy(program'[x])
  BY <1>1, <1>4, NewTidy DEF Freed
<1>7. ASSUME OneClassPerPid, Covered(cells, heap, pes) PROVE Covered(live, program, is_pes)'
  <2>1. Covered(cells, started, PesActivated(pes, t))
    BY <1>2, <1>3, <1>7 DEF Covered, PesActivated
  <2>2. \A x \in cells \ {out} : program'[x] = started[x]
    BY <1>1
  <2>3. CASE out = Null
    <3>1. live' = cells /\ is_pes' \subseteq PesActivated(pes, t)
      BY <1>1, <2>3, BaseAssumption
    <3> QED
      BY <2>1, <2>2, <2>3, <3>1, BaseAssumption DEF Covered
  <2>4. CASE out # Null
    <3>1. Cell(started, out) = started[out]
      BY <2>4 DEF Cell
    <3>2. \A m \in Programs : tab[m] # Null => tab[m] \in cells \ {out}
      BY <1>5, <2>4
    <3>3. Covered(cells \ {out}, started, is_pes')
      BY <1>1, <1>4, <1>7, <2>1, <3>1, <3>2, GiveBackCovered DEF used
    <3> QED
      BY <1>1, <2>2, <3>3 DEF Covered
  <2> QED
    BY <2>3, <2>4
<1> QED
  BY <1>6, <1>7

\* What a PAT entry does to a program that stays.
SameButReferences ==
  \A x \in Slots : /\ program'[x].active = program[x].active
                   /\ program'[x].pmt = program[x].pmt
                   /\ program'[x].pcr_pid = program[x].pcr_pid
                   /\ program'[x].streams = program[x].streams

LEMMA OnlyReferences == TypeOK /\ (AddKnown \/ DropKept \/ DropStolen) => SameButReferences
<1> SUFFICES ASSUME TypeOK, AddKnown \/ DropKept \/ DropStolen PROVE SameButReferences
  OBVIOUS
<1> USE DEF SameButReferences
<1>1. CASE AddKnown
  <2> DEFINE x == table[pat[entry].program_number]
  <2>1. pat[entry].program_number \in Programs /\ pat[entry].pid \in Pids
    BY <1>1, EntryTypes DEF AddKnown, TypeOK
  <2>2. x \in Slots /\ program[x] \in Records
    BY <1>1, <2>1 DEF AddKnown, TypeOK
  <2> QED
    BY <1>1, <2>1, <2>2, ListedFields DEF AddKnown, TypeOK
<1>2. CASE DropKept
  BY <1>2 DEF DropKept, TypeOK, Records
<1>3. CASE DropStolen
  <2> DEFINE x == table[old_pat[entry].program_number]
  <2>1. old_pat[entry].program_number \in Programs
    BY <1>3, EntryTypes DEF DropStolen, TypeOK
  <2>2. x \in Slots /\ program[x] \in Records
    BY <1>3, <2>1 DEF DropStolen, Unneeded, TypeOK
  <2> QED
    BY <1>3, <2>2 DEF DropStolen, TypeOK, Records
<1> QED
  BY <1>1, <1>2, <1>3

LEMMA StaleStep == CountInv /\ StaleInv /\ [Next]_vars => StaleInv'
<1> SUFFICES ASSUME CountInv, StaleInv, [Next]_vars PROVE StaleInv'
  OBVIOUS
<1> USE DEF CountInv
<1>1. ASSUME NEW s \in Slots \ live, AddNew(s) PROVE StaleInv'
  <2>1. /\ live' = live \cup {s} /\ is_pes' = is_pes /\ streams_aware' = streams_aware
        /\ program'[s] = NewProgram(pat[entry].pid, 1)
        /\ \A x \in Slots \ {s} : program'[x] = program[x]
    BY <1>1 DEF AddNew, TypeOK
  <2>2. Tidy(program'[s])
    BY <2>1, NewTidy
  <2> QED
    BY <2>1, <2>2 DEF StaleInv, Covered, TypeOK
<1>2. ASSUME AddKnown \/ DropKept \/ DropStolen PROVE StaleInv'
  <2>1. is_pes' = is_pes /\ live' = live /\ streams_aware' = streams_aware
    BY <1>2 DEF AddKnown, DropKept, DropStolen, pidVars
  <2>2. SameButReferences
    BY <1>2, OnlyReferences
  <2>3. \A x \in Slots : /\ Tidy(program[x]) => Tidy(program'[x])
                         /\ PesBack(program'[x]) = PesBack(program[x])
    BY <2>2 DEF SameButReferences, Tidy, PesBack, StreamsOf
  <2> QED
    BY <2>1, <2>2, <2>3 DEF SameButReferences, StaleInv, Covered, TypeOK
<1>3. CASE DropRemoved
  <2> DEFINE n == old_pat[entry].program_number
             s == table[n]
             rest == [table EXCEPT ![n] = Null]
  <2>1. n \in Programs
    BY <1>3, EntryTypes DEF DropRemoved, TypeOK
  <2>2. /\ live' = live \ {s} /\ streams_aware' = streams_aware
        /\ is_pes' = is_pes \ (PesBack(program[s]) \ UsedPids(rest, program))
        /\ program' = [program EXCEPT ![s] = Freed]
    BY <1>3 DEF DropRemoved
  <2>3. s # Null
    BY <1>3 DEF DropRemoved, Unneeded
  <2>4. \A m \in Programs : rest[m] # Null => rest[m] \in live \ {s}
    BY <2>1, <2>3 DEF OwnedCells, TypeOK
  <2>5. live \in SUBSET Slots /\ program \in [Slots -> Records]
    BY DEF TypeOK
  <2> HIDE DEF n, s, rest
  <2> SUFFICES ASSUME ~streams_aware
               PROVE  /\ \A x \in Slots : Tidy(program'[x])
                      /\ OneClassPerPid => Covered(live', program', is_pes')
    BY <2>2 DEF StaleInv
  <2>6. \A x \in Slots : Tidy(program[x])
    BY DEF StaleInv
  <2>7. \A x \in Slots : Tidy(program'[x])
    BY <2>2, <2>5, <2>6, NewTidy DEF Freed
  <2>8. ASSUME OneClassPerPid PROVE Covered(live', program', is_pes')
    <3>1. Covered(live, program, is_pes)
      BY <2>8 DEF StaleInv
    <3>2. Covered(live', program, is_pes')
      BY <2>2, <2>4, <2>5, <2>6, <2>8, <3>1, GiveBackCovered
    <3>3. \A x \in live' : program'[x] = program[x]
      BY <2>2, <2>5
    <3> QED
      BY <3>2, <3>3 DEF Covered
  <2> QED
    BY <2>7, <2>8
<1>4. ASSUME NEW n \in Programs, NEW pid \in PmtPids, NEW t \in Pmts, ApplyPmt(n, pid, t)
      PROVE StaleInv'
  <2> DEFINE old == table[n]
  <2>1. pid \in Pids
    BY BaseAssumption
  <2>2. old \in Slots /\ old # Null /\ program[old] \in Records
    BY <1>4 DEF ApplyPmt, FirstPmt, ReplaceProgram, ReplaceCurrent, UpdateProgram, Starts,
           ToApply, TypeOK
  <2>3. NewProgram(pid, program[old].patcount) \in Records /\ Freed \in Records
    BY <2>1, <2>2, RecordTypes DEF Records
  <2>4. old \in live /\ old # previous /\ \A m \in Programs \ {n} : table[m] # old
    BY <2>2 DEF OwnedCells
  <2>5. /\ program \in [Slots -> Records] /\ live \in SUBSET Slots
        /\ previous \in Slots \cup {Null} /\ table \in [Programs -> Slots \cup {Null}]
    BY DEF TypeOK
  <2>6. ~streams_aware => \A x \in Slots : Tidy(program[x])
    BY DEF StaleInv
  <2>7. \A m \in Programs : table[m] # Null => table[m] \in live /\ table[m] # previous
    BY DEF OwnedCells
  <2>8. Tidy(Freed) /\ Tidy(NewProgram(pid, program[old].patcount))
    BY NewTidy DEF Freed
  <2>9. CASE FirstPmt(n, pid, t)
    <3>1. /\ Activate(old, n, pid, t, table, program, is_pes, known_psi, previous,
                      program_number, live)
          /\ streams_aware' = streams_aware /\ ~program[old].active
      BY <2>9 DEF FirstPmt, Activate
    <3> HIDE DEF old
    <3> SUFFICES ASSUME ~streams_aware
                 PROVE  /\ \A x \in Slots : Tidy(program'[x])
                        /\ OneClassPerPid => Covered(live, program, is_pes)'
      BY <3>1 DEF StaleInv
    <3>2. program[old].streams = NoStreams
      BY <2>2, <2>6, <3>1 DEF Tidy
    <3>3. OneClassPerPid => Covered(live, program, is_pes)
      BY DEF StaleInv
    <3>4. \A x \in Slots : Tidy(program[x])
      BY <2>6
    <3>5. /\ \A x \in Slots : Tidy(program'[x])
          /\ OneClassPerPid /\ Covered(live, program, is_pes) => Covered(live, program, is_pes)'
      BY <2>1, <2>2, <2>4, <2>5, <2>7, <3>1, <3>2, <3>4, ActivateTidy
    <3> QED
      BY <3>3, <3>5
  <2>10. ASSUME NEW s \in Slots \ live, ReplaceProgram(s, n, pid, t) PROVE StaleInv'
    <3> DEFINE bare == [table EXCEPT ![n] = Null]
               tab == [table EXCEPT ![n] = s]
               heap == [program EXCEPT ![old] = Freed,
                                       ![s] = NewProgram(pid, program[old].patcount)]
               cells == (live \ {old}) \cup {s}
               pes == is_pes \ (PesBack(program[old]) \ UsedPids(bare, program))
               psi == known_psi \ (PsiBack(program[old]) \ UsedPids(bare, program))
    <3>1. /\ Activate(s, n, pid, t, tab, heap, pes, psi, previous, program_number, cells)
          /\ streams_aware' = streams_aware
      BY <2>10 DEF ReplaceProgram, Activate
    <3>2. s # old /\ s # previous /\ s # Null
      BY <2>4, BaseAssumption DEF OwnedCells
    <3>3. /\ heap \in [Slots -> Records] /\ heap[old] = Freed
          /\ heap[s] = NewProgram(pid, program[old].patcount)
          /\ \A x \in Slots \ {s, old} : heap[x] = program[x]
      BY <2>2, <2>3, <3>2 DEF TypeOK
    <3>4. heap[s].streams = NoStreams /\ ~heap[s].active
      BY <3>3 DEF NewProgram
    <3>5. /\ tab \in [Programs -> Slots \cup {Null}] /\ cells \in SUBSET Slots /\ s \in cells
          /\ \A m \in Programs : tab[m] # Null => tab[m] \in cells /\ tab[m] # previous
      BY <2>4, <2>5, <2>7, <3>2
    <3>6. \A m \in Programs : bare[m] # Null => bare[m] \in live \ {old}
      BY <2>4, <2>5, <2>7
    <3>7. pes = is_pes \ (PesBack(program[old]) \ UsedPids(bare, program))
      OBVIOUS
    <3>8. \A x \in live \ {old} : heap[x] = program[x] /\ x \in cells
      BY <2>5, <3>3
    <3> HIDE DEF bare, tab, heap, cells, pes, psi, old
    <3> SUFFICES ASSUME ~streams_aware
                 PROVE  /\ \A x \in Slots : Tidy(program'[x])
                        /\ OneClassPerPid => Covered(live, program, is_pes)'
      BY <3>1 DEF StaleInv
    <3>9. \A x \in Slots : Tidy(heap[x])
      BY <2>6, <2>8, <3>3
    <3>10. ASSUME OneClassPerPid PROVE Covered(cells, heap, pes)
      <4>1. Covered(live, program, is_pes)
        BY <3>10 DEF StaleInv
      <4>2. Covered(live \ {old}, program, pes)
        BY <2>5, <2>6, <3>6, <3>7, <3>10, <4>1, GiveBackCovered
      <4> QED
        BY <3>8, <4>2 DEF Covered
    <3> QED
      BY <2>1, <2>5, <3>1, <3>2, <3>3, <3>4, <3>5, <3>9, <3>10, ActivateTidy
  <2>11. ASSUME NEW s \in Slots \ live, ReplaceCurrent(s, n, pid, t) PROVE StaleInv'
    <3> DEFINE tab == [table EXCEPT ![n] = s]
               heap == [program EXCEPT ![s] = NewProgram(pid, program[old].patcount)]
               cells == live \cup {s}
    <3>1. /\ Activate(s, n, pid, t, tab, heap, is_pes, known_psi, old, Null, cells)
          /\ streams_aware' = streams_aware
      BY <2>11 DEF ReplaceCurrent, Activate
    <3>2. s # old /\ s # Null
      BY <2>4, BaseAssumption DEF OwnedCells
    <3>3. /\ heap \in [Slots -> Records]
          /\ heap[s] = NewProgram(pid, program[old].patcount)
          /\ \A x \in Slots \ {s} : heap[x] = program[x]
      BY <2>2, <2>3 DEF TypeOK
    <3>4. heap[s].streams = NoStreams /\ ~heap[s].active
      BY <3>3 DEF NewProgram
    <3>5. /\ tab \in [Programs -> Slots \cup {Null}] /\ cells \in SUBSET Slots /\ s \in cells
          /\ \A m \in Programs : tab[m] # Null => tab[m] \in cells /\ tab[m] # old
      BY <2>4, <2>5, <2>7, <3>2
    <3>6. \A x \in live : heap[x] = program[x] /\ x \in cells
      BY <2>5, <3>3
    <3> HIDE DEF tab, heap, cells, old
    <3> SUFFICES ASSUME ~streams_aware
                 PROVE  /\ \A x \in Slots : Tidy(program'[x])
                        /\ OneClassPerPid => Covered(live, program, is_pes)'
      BY <3>1 DEF StaleInv
    <3>7. \A x \in Slots : Tidy(heap[x])
      BY <2>6, <2>8, <3>3
    <3>8. OneClassPerPid => Covered(cells, heap, is_pes)
      BY <3>6 DEF StaleInv, Covered
    <3> QED
      BY <2>1, <2>2, <3>1, <3>2, <3>3, <3>4, <3>5, <3>7, <3>8, ActivateTidy
  <2>12. CASE UpdateProgram(n, pid, t)
    BY <2>12 DEF UpdateProgram, Updates, StaleInv
  <2> QED
    BY <1>4, <2>9, <2>10, <2>11, <2>12 DEF ApplyPmt
<1>5. CASE Reset
  <2>1. live' = {} /\ is_pes' = {} /\ program' = [s \in Slots |-> Freed]
    BY <1>5 DEF Reset
  <2> QED
    BY <2>1, NewTidy DEF StaleInv, Covered, Freed
<1>6. ASSUME UNCHANGED <<programVars, is_pes, streams_aware>> PROVE StaleInv'
  BY <1>6 DEF programVars, StaleInv
<1> QED
  BY <1>1, <1>2, <1>3, <1>4, <1>5, <1>6
  DEF Next, HandlePat, ApplyPat, EndAdd, EndDrop, ParseMgt, FlushStop, SetProgramNumber, vars,
      pidVars

LEMMA StaleAlways == Spec => []StaleInv
<1>1. Init => StaleInv
  BY NewTidy DEF Init, StaleInv, Covered, Freed
<1> QED
  BY <1>1, CountAlways, StaleStep, PTL DEF Spec

\* Unless the bin is streams-aware, a PID is a PES PID only while a program that is active or
\* kept has it, if no PID changes its class between PMTs: sections on it can be heard again.
THEOREM NoBitStays == Spec => []NoStalePes
<1>1. CountInv /\ StaleInv => NoStalePes
  <2> SUFFICES ASSUME CountInv, StaleInv, ~streams_aware, OneClassPerPid, NEW x \in is_pes
               PROVE  x \in UNION {StreamsOf(p) : p \in ActivePrograms \cup {Cell(program, previous)}}
    BY DEF NoStalePes
  <2>1. PICK s \in live : program[s].active /\ x \in PesBack(program[s])
    BY DEF StaleInv, Covered
  <2>2. x \in StreamsOf(program[s])
    <3>1. Tidy(program[s])
      BY DEF StaleInv, CountInv, TypeOK
    <3> QED
      BY <2>1, <3>1 DEF Tidy, PesBack, PesOf
  <2>3. s \in Slots /\ s # Null
    BY BaseAssumption DEF CountInv, TypeOK
  <2>4. program[s] \in ActivePrograms \cup {Cell(program, previous)}
    <3>1. CASE s = previous
      BY <2>3, <3>1 DEF Cell
    <3>2. CASE s # previous
      BY <2>1, <2>3, <3>2 DEF CountInv, OwnedCells, ActivePrograms, InTable
    <3> QED
      BY <3>1, <3>2
  <2> QED
    BY <2>2, <2>4
<1> QED
  BY <1>1, CountAlways, StaleAlways, PTL
-----------------------------------------------------------------------------
(* The packetizer's tables *)

\* What is on the air.
WireOK ==
  wire \in [Programs \cup {Pat} -> [content : Pats \cup Pmts, version : Nat]]
    /\ wire[Pat].content \in Pats /\ \A n \in Programs : wire[n].content \in Pmts

LEMMA WireStep == WireOK /\ [TablesNext]_allVars => WireOK'
<1> SUFFICES ASSUME WireOK, [TablesNext]_allVars PROVE WireOK'
  OBVIOUS
<1>0. Pat \notin Programs
  BY TablesAssumption
<1>1. ASSUME NEW p \in Pats, ChangePat(p) PROVE WireOK'
  BY <1>0, <1>1 DEF ChangePat, Next1, WireOK
<1>2. ASSUME NEW n \in Programs, NEW t \in Pmts, ChangePmt(n, t) PROVE WireOK'
  BY <1>0, <1>2 DEF ChangePmt, Next1, WireOK
<1>3. ASSUME UNCHANGED wire PROVE WireOK'
  BY <1>3 DEF WireOK
<1>4. HearPat \/ PatStep => UNCHANGED wire
  BY DEF HearPat, PatStep, tableVars
<1>5. ASSUME NEW n \in Programs, NEW x \in PmtPids, HearPmt(n, x) PROVE UNCHANGED wire
  BY <1>5 DEF HearPmt, TakePmt, SkipPmt, EarlyPmt
<1>6. FlushStopped \/ Discont \/ ResetAll => UNCHANGED wire
  BY DEF FlushStopped, Discont, ResetAll, tableVars
<1>7. UNCHANGED allVars => UNCHANGED wire
  BY DEF allVars, tableVars
<1> QED
  BY <1>1, <1>2, <1>3, <1>4, <1>5, <1>6, <1>7 DEF TablesNext

\* Every step of the composition is one of the base class, or it leaves that alone.
LEMMA BaseStep == WireOK /\ [TablesNext]_allVars => [Next]_vars
<1> SUFFICES ASSUME WireOK, [TablesNext]_allVars PROVE [Next]_vars
  OBVIOUS
<1>1. ASSUME NEW p \in Pats, ChangePat(p) PROVE UNCHANGED vars
  BY <1>1 DEF ChangePat
<1>2. ASSUME NEW n \in Programs, NEW t \in Pmts, ChangePmt(n, t) PROVE UNCHANGED vars
  BY <1>2 DEF ChangePmt
<1>3. HearPat => HandlePat
  BY DEF HearPat, HandlePat, WireOK
<1>4. PatStep => HandlePat
  BY DEF PatStep, HandlePat
<1>5. ASSUME NEW n \in Programs, NEW x \in PmtPids, HearPmt(n, x)
      PROVE  UNCHANGED vars \/ \E t \in Pmts : ApplyPmt(n, x, t)
  BY <1>5 DEF HearPmt, TakePmt, SkipPmt, EarlyPmt, WireOK
<1>6. FlushStopped => FlushStop
  BY DEF FlushStopped
<1>7. Discont => UNCHANGED vars
  BY DEF Discont
<1>8. ResetAll => Reset
  BY DEF ResetAll
<1>9. UNCHANGED allVars => UNCHANGED vars
  BY DEF allVars
<1> QED
  BY <1>1, <1>2, <1>3, <1>4, <1>5, <1>6, <1>7, <1>8, <1>9 DEF TablesNext, Next

LEMMA WireInit == TablesInit => WireOK
<1> SUFFICES ASSUME TablesInit PROVE WireOK
  OBVIOUS
<1>1. PICK p \in Pats, f \in [Programs -> Pmts] :
        wire = [e \in Programs \cup {Pat} |->
                  [content |-> IF e = Pat THEN p ELSE f[e], version |-> 0]]
  BY DEF TablesInit
<1> QED
  BY <1>1, TablesAssumption DEF WireOK

\* MpegTSTables implements MpegTSBase: mpegts_base_handle_psi behind the packetizer's list of
\* sections it has seen goes through states that it could go through on its own.
THEOREM TablesImplementBase == TablesSpec => Spec
<1>1. TablesInit => Init
  BY DEF TablesInit
<1> QED
  BY <1>1, WireInit, WireStep, BaseStep, PTL DEF TablesSpec, Spec

\* So the tables that are repeated, changed and forgotten keep the base class's promises.
THEOREM TablesAreSafe ==
  TablesSpec => []Counted /\ []Owned /\ []DeliveredUnaware /\ []NoStalePes /\ Seamless
BY TablesImplementBase, ProgramsAreCounted, ProgramsAreOwned, StreamsAreDelivered, NoBitStays,
   ProgramsChangeSeamlessly, PTL
-----------------------------------------------------------------------------
(* What the section parser hears *)

Entries == UNION {Listings(p) : p \in Pats}

\* A PID that carries PMTs carries no elementary stream and no PCR.
PmtPidsApart == \A t \in Pmts : (StreamsOf(t) \cup {t.pcr}) \cap PmtPids = {}

\* A PAT lists a program once.
OneEntryPerProgram ==
  \A p \in Pats : \A i, j \in 1 .. Len(p) : p[i].program_number = p[j].program_number => i = j

\* The entries of the PAT in force that apply_pat has been through.
Reached(i) == i \in 1 .. Len(pat) /\ (phase = "add" => i < entry)

\* A program's PMTs come where some PAT lists them.
WhereListed ==
  \A n \in Programs :
    table[n] # Null => [program_number |-> n, pid |-> program[table[n]].pmt_pid] \in Entries

HeardInv ==
  /\ is_pes \cap PmtPids = {}
  /\ \A i : Reached(i) => pat[i].pid \in known_psi
  /\ WhereListed
  /\ \A n \in Programs : table[n] # Null => program[table[n]].pmt_pid \in known_psi

\* The PID by which a PMT came is kept with the program.
LEMMA PmtPidFields ==
  /\ \A p \in Records : \A pid, t : Activated(p, pid, t).pmt_pid = pid
  /\ \A p \in Records : \A t : Updated(p, t).pmt_pid = p.pmt_pid
  /\ \A p \in Records : \A pid : Listed(p, pid).pmt_pid = pid
  /\ \A pid, count : NewProgram(pid, count).pmt_pid = pid
<1>1. \A p \in Records : \A pid, t : Activated(p, pid, t).pmt_pid = pid
  BY DEF Activated, Records
<1>2. \A p \in Records : \A t : Updated(p, t).pmt_pid = p.pmt_pid
  BY DEF Updated, Records
<1>3. ASSUME NEW p \in Records, NEW pid PROVE Listed(p, pid).pmt_pid = pid
  <2> DEFINE count == p.patcount + 1
  <2>1. Listed(p, pid) = [p EXCEPT !.pmt_pid = pid, !.patcount = count]
    BY DEF Listed
  <2> HIDE DEF count
  <2> QED
    BY <2>1 DEF Records
<1>4. \A pid, count : NewProgram(pid, count).pmt_pid = pid
  BY DEF NewProgram
<1> QED
  BY <1>1, <1>2, <1>3, <1>4

\* An entry of a PAT is on a PMT PID, and PATs are made of entries.
LEMMA EntryPids ==
  ASSUME NEW p \in Pats \cup {<<>>}, NEW i \in 1 .. Len(p)
  PROVE  /\ p \in Pats
         /\ p[i].pid \in PmtPids /\ p[i].program_number \in Programs
         /\ p[i] \in Entries
         /\ p[i] = [program_number |-> p[i].program_number, pid |-> p[i].pid]
<1>1. p \in Pats
  <2>1. CASE p = <<>>
    BY <2>1
  <2> QED
    BY <2>1
<1>2. p[i] \in [program_number : Programs, pid : Pids]
  BY <1>1, BaseAssumption, ElementOfSeq
<1>3. p[i] \in Entries
  BY <1>1 DEF Entries, Listings
<1> QED
  BY <1>1, <1>2, <1>3, TablesAssumption

LEMMA EntriesAreOnPmtPids == \A n, x : [program_number |-> n, pid |-> x] \in Entries => x \in PmtPids
<1> SUFFICES ASSUME NEW n, NEW x, [program_number |-> n, pid |-> x] \in Entries PROVE x \in PmtPids
  OBVIOUS
<1>1. PICK p \in Pats : [program_number |-> n, pid |-> x] \in Listings(p)
  BY DEF Entries
<1>2. PICK i \in 1 .. Len(p) : p[i] = [program_number |-> n, pid |-> x]
  BY <1>1 DEF Listings
<1> QED
  BY <1>2, EntryPids

\* A PID given back by a program that goes is never one of the PMTs'.
LEMMA BackApart ==
  ASSUME PmtPidsApart, NEW p \in Records
  PROVE  PsiBack(p) \cap PmtPids = {}
<1>1. CASE p.pmt = NoPmt
  <2>1. PrivateOf(NoPmt) = {}
    BY BaseAssumption DEF PrivateOf, NoPmt, NoStreams
  <2> QED
    BY <1>1, <2>1 DEF PsiBack
<1>2. CASE p.pmt \in Pmts
  <2>1. PrivateOf(p.pmt) \subseteq StreamsOf(p.pmt)
    BY BaseAssumption DEF PrivateOf, StreamsOf
  <2> QED
    BY <1>2, <2>1 DEF PsiBack, PmtPidsApart
<1> QED
  BY <1>1, <1>2 DEF Records

\* A step of a program table leaves the PMT PIDs alone, and its programs where some PAT lists
\* them.
KeepsHearing(pes, psi) ==
  /\ pes \cap PmtPids = {} => is_pes' \cap PmtPids = {}
  /\ \A x \in PmtPids : x \in psi => x \in known_psi'
  /\ WhereListed'
  /\ \A m \in Programs : table'[m] # Null => program'[table'[m]].pmt_pid \in known_psi'

\* Where the programs of a table send their PMTs.
PmtsComeBy(ns, tab, heap, psi) ==
  \A m \in ns : tab[m] # Null =>
    /\ [program_number |-> m, pid |-> heap[tab[m]].pmt_pid] \in Entries
    /\ heap[tab[m]].pmt_pid \in psi

\* Activate leaves the PMT PIDs alone, and moves its program to the PID the PMT came by.
LEMMA ActivateHeard ==
  ASSUME PmtPidsApart,
         NEW n \in Programs, NEW s \in Slots, NEW pid \in Pids, NEW t \in Pmts,
         NEW tab \in [Programs -> Slots \cup {Null}], NEW heap \in [Slots -> Records],
         NEW pes, NEW psi,
         NEW kept \in Slots \cup {Null}, NEW number, NEW cells,
         Activate(s, n, pid, t, tab, heap, pes, psi, kept, number, cells),
         \A m, o \in Programs : tab[m] = tab[o] /\ tab[m] # Null => m = o,
         \A m \in Programs : tab[m] # Null => tab[m] # kept,
         tab[n] = s,
         [program_number |-> n, pid |-> pid] \in Entries,
         pid \in psi,
         PmtsComeBy(Programs \ {n}, tab, heap, psi)
  PROVE  KeepsHearing(pes, psi)
<1> DEFINE out == IF IsChosen(n, number) THEN kept ELSE Null
           started == [heap EXCEPT ![s] = Activated(@, pid, t)]
           used == UsedPids(tab, started)
           gone == Cell(started, out)
<1>1. gone \in Records
  <2>1. started \in [Slots -> Records]
    BY ActivatedType
  <2>2. out \in Slots \cup {Null}
    OBVIOUS
  <2> HIDE DEF started, out
  <2> QED
    BY <2>1, <2>2, RecordTypes
<1>2. /\ is_pes' = PesActivated(pes, t) \ (PesBack(gone) \ used)
      /\ known_psi' = PsiActivated(psi, t) \ (PsiBack(gone) \ used)
      /\ table' = tab
  BY DEF Activate
<1> HIDE DEF out, started, used, gone
<1>3. (PesOf(t) \cup {t.pcr}) \cap PmtPids = {}
  BY DEF PmtPidsApart, PesOf
<1>4. pes \cap PmtPids = {} => is_pes' \cap PmtPids = {}
  BY <1>2, <1>3 DEF PesActivated
<1>5. \A x \in PmtPids : x \in psi => x \in known_psi'
  BY <1>1, <1>2, <1>3, BackApart DEF PsiActivated
<1>6. s # kept
  BY BaseAssumption
<1>7. program'[s].pmt_pid = pid
  <2>1. program'[s] = Activated(heap[s], pid, t)
    BY <1>6, ActivateCells
  <2> QED
    BY <2>1, PmtPidFields
<1>8. \A x \in Slots \ {s, kept} : program'[x] = heap[x]
  BY <1>6, ActivateCells
<1>9. \A m \in Programs \ {n} : tab[m] # Null => program'[tab[m]] = heap[tab[m]]
  <2>1. \A m \in Programs \ {n} : tab[m] # Null => tab[m] \in Slots \ {s, kept}
    BY BaseAssumption
  <2> QED
    BY <1>8, <2>1
<1>10. ASSUME NEW m \in Programs, tab[m] # Null
       PROVE  /\ [program_number |-> m, pid |-> program'[tab[m]].pmt_pid] \in Entries
              /\ program'[tab[m]].pmt_pid \in known_psi'
  <2>1. /\ [program_number |-> m, pid |-> program'[tab[m]].pmt_pid] \in Entries
        /\ program'[tab[m]].pmt_pid \in psi
    BY <1>7, <1>9, <1>10 DEF PmtsComeBy
  <2> QED
    BY <1>5, <2>1, EntriesAreOnPmtPids
<1> QED
  BY <1>2, <1>4, <1>5, <1>10 DEF WhereListed, KeepsHearing

\* The loop of apply_pat over the new PAT.  The PID it stops listening to, the old PMT PID of
\* the program, is in no other entry, and no other program's.
LEMMA AddHeard ==
  ASSUME OneEntryPerProgram, PmtPidsOwned, CountInv, HeardInv,
         AddKnown \/ \E s \in Slots \ live : AddNew(s)
  PROVE  HeardInv'
<1> DEFINE e == pat[entry]
           n == e.program_number
<1>1. entry \in 1 .. Len(pat) /\ phase = "add" /\ phase' = phase
  <2>1. Len(pat) \in Nat /\ entry \in Nat \ {0}
    BY PatLengths DEF CountInv, TypeOK
  <2> QED
    BY <2>1 DEF AddNew, AddKnown
<1>2. /\ pat \in Pats /\ e.pid \in PmtPids /\ n \in Programs
      /\ e \in Entries /\ e = [program_number |-> n, pid |-> e.pid]
  BY <1>1, EntryPids DEF CountInv, TypeOK
<1>3. /\ pat' = pat /\ entry' = entry + 1 /\ is_pes' = is_pes
  BY DEF AddNew, AddKnown
<1>4. \A i : Reached(i)' => Reached(i) \/ i = entry
  BY <1>1, <1>3 DEF Reached
<1>5. /\ table \in [Programs -> Slots \cup {Null}] /\ live \subseteq Slots
      /\ program \in [Slots -> Records]
  BY DEF CountInv, TypeOK
<1> HIDE DEF e, n
<1>6. CASE AddKnown
  <2> DEFINE s == table[n]
             old == program[s].pmt_pid
  <2>1. s \in Slots /\ s # Null /\ program[s] \in Records
    BY <1>2, <1>5, <1>6 DEF AddKnown, e, n
  <2>2. [program_number |-> n, pid |-> old] \in Entries /\ old \in known_psi
    BY <1>2, <2>1 DEF HeardInv, WhereListed
  <2>3. known_psi' = IF old = e.pid THEN known_psi ELSE (known_psi \ {old}) \cup {e.pid}
    BY <1>6 DEF AddKnown, e, n
  <2>4. table' = table /\ program' = [program EXCEPT ![s] = Listed(program[s], e.pid)]
    BY <1>6 DEF AddKnown, e, n
  <2> HIDE DEF s
  <2>5. program'[s].pmt_pid = e.pid /\ \A x \in Slots \ {s} : program'[x] = program[x]
    BY <1>5, <2>1, <2>4, PmtPidFields
  <2>6. \A m \in Programs \ {n} : table[m] # Null => table[m] \in Slots \ {s}
    BY <1>2, <1>5, <2>1 DEF s, CountInv, OwnedCells
  <2> HIDE DEF old
  <2>7. \A m, x : [program_number |-> m, pid |-> x] \in Entries /\ x = old => m = n
    BY <2>2 DEF PmtPidsOwned, Entries
  <2>8. \A i \in 1 .. Len(pat) : i # entry => pat[i].pid # old
    <3> SUFFICES ASSUME NEW i \in 1 .. Len(pat), i # entry, pat[i].pid = old PROVE FALSE
      OBVIOUS
    <3>1. /\ pat[i] \in Entries
          /\ pat[i] = [program_number |-> pat[i].program_number, pid |-> pat[i].pid]
      BY <1>2, EntryPids
    <3>2. pat[i].program_number = n
      BY <2>7, <3>1
    <3> QED
      BY <1>1, <1>2, <3>2 DEF OneEntryPerProgram, n, e
  <2>9. \A i : Reached(i)' => pat'[i].pid \in known_psi'
    <3> SUFFICES ASSUME NEW i, Reached(i)' PROVE pat[i].pid \in known_psi'
      BY <1>3
    <3>1. CASE i = entry
      BY <2>2, <2>3, <3>1 DEF e
    <3>2. CASE i # entry
      <4>1. i \in 1 .. Len(pat) /\ Reached(i)
        BY <1>4, <3>2 DEF Reached
      <4> QED
        BY <2>3, <2>8, <3>2, <4>1 DEF HeardInv
    <3> QED
      BY <3>1, <3>2
  <2>10. ASSUME NEW m \in Programs, table'[m] # Null
         PROVE  /\ [program_number |-> m, pid |-> program'[table'[m]].pmt_pid] \in Entries
                /\ program'[table'[m]].pmt_pid \in known_psi'
    <3>1. CASE m = n
      BY <1>2, <2>2, <2>3, <2>4, <2>5, <3>1 DEF s
    <3>2. CASE m # n
      <4>1. program'[table'[m]] = program[table[m]]
        BY <2>4, <2>5, <2>6, <2>10, <3>2
      <4>2. /\ [program_number |-> m, pid |-> program[table[m]].pmt_pid] \in Entries
            /\ program[table[m]].pmt_pid \in known_psi
        BY <2>4, <2>10 DEF HeardInv, WhereListed
      <4>3. program[table[m]].pmt_pid # old
        BY <2>7, <3>2, <4>2
      <4> QED
        BY <2>3, <4>1, <4>2, <4>3
    <3> QED
      BY <3>1, <3>2
  <2> QED
    BY <1>3, <2>9, <2>10 DEF HeardInv, WhereListed
<1>7. ASSUME NEW s \in Slots \ live, AddNew(s) PROVE HeardInv'
  <2>1. /\ known_psi' = known_psi \cup {e.pid} /\ table' = [table EXCEPT ![n] = s]
        /\ program' = [program EXCEPT ![s] = NewProgram(e.pid, 1)]
    BY <1>7 DEF AddNew, e, n
  <2>2. s # Null /\ \A m \in Programs : table[m] # s
    BY <1>5, BaseAssumption DEF CountInv, OwnedCells
  <2>3. \A i : Reached(i)' => pat'[i].pid \in known_psi'
    BY <1>3, <1>4, <2>1 DEF HeardInv, e
  <2>4. program'[s].pmt_pid = e.pid /\ \A x \in Slots \ {s} : program'[x] = program[x]
    BY <1>5, <2>1, PmtPidFields
  <2>5. table'[n] = s /\ \A m \in Programs \ {n} : table'[m] = table[m]
    BY <1>2, <1>5, <2>1
  <2>6. ASSUME NEW m \in Programs, table'[m] # Null
        PROVE  /\ [program_number |-> m, pid |-> program'[table'[m]].pmt_pid] \in Entries
               /\ program'[table'[m]].pmt_pid \in known_psi'
    <3>1. CASE m = n
      BY <1>2, <2>1, <2>4, <2>5, <3>1
    <3>2. CASE m # n
      <4>1. table[m] \in Slots \ {s}
        BY <1>5, <2>2, <2>5, <2>6, <3>2
      <4> QED
        BY <2>1, <2>4, <2>5, <2>6, <3>2, <4>1 DEF HeardInv, WhereListed
    <3> QED
      BY <3>1, <3>2
  <2> QED
    BY <1>3, <2>3, <2>6 DEF HeardInv, WhereListed
<1> QED
  BY <1>6, <1>7

\* The loop over the old PAT only takes programs from the table, and PIDs that carry no PMT.
LEMMA DropHeard ==
  ASSUME PmtPidsApart, CountInv, HeardInv, DropKept \/ DropRemoved \/ DropStolen
  PROVE  HeardInv'
<1>1. /\ table \in [Programs -> Slots \cup {Null}] /\ program \in [Slots -> Records]
  BY DEF CountInv, TypeOK
<1>2. pat' = pat /\ phase' = phase /\ phase = "drop"
  BY DEF DropKept, DropRemoved, DropStolen
<1>3. \A i : Reached(i)' => Reached(i)
  BY <1>2 DEF Reached
<1>4. \A i : Reached(i) => pat[i].pid \in PmtPids
  BY EntryPids DEF Reached, CountInv, TypeOK
<1> DEFINE n == old_pat[entry].program_number
           s == table[n]
<1>5. \A m \in Programs : table'[m] # Null => table'[m] = table[m]
  BY <1>1 DEF DropKept, DropRemoved, DropStolen
<1>6. \A m \in Programs : table'[m] # Null => program'[table'[m]].pmt_pid = program[table[m]].pmt_pid
  <2> SUFFICES ASSUME NEW m \in Programs, table'[m] # Null
               PROVE  program'[table[m]].pmt_pid = program[table[m]].pmt_pid
    BY <1>5
  <2>1. table[m] \in Slots
    BY <1>1, <1>5, BaseAssumption
  <2>2. program[table[m]] \in Records
    BY <1>1, <2>1
  <2>3. CASE DropKept
    BY <1>1, <2>1, <2>2, <2>3 DEF DropKept, Records
  <2>4. CASE DropRemoved
    <3>1. n \in Programs /\ s # Null
      <4>1. entry \in 1 .. Len(old_pat) /\ old_pat \in Pats \cup {<<>>}
        BY <2>4, PatLengths DEF DropRemoved, CountInv, TypeOK
      <4> QED
        BY <2>4, <4>1, EntryPids DEF DropRemoved, Unneeded
    <3>2. m # n
      BY <1>1, <2>4, <3>1 DEF DropRemoved
    <3>3. table[m] # s
      BY <3>1, <3>2 DEF CountInv, OwnedCells
    <3>4. program' = [program EXCEPT ![s] = Freed]
      BY <2>4 DEF DropRemoved
    <3> HIDE DEF s
    <3> QED
      BY <1>1, <2>1, <3>3, <3>4
  <2>5. CASE DropStolen
    <3>1. program' = [program EXCEPT ![s] = [program[s] EXCEPT !.patcount = @ - 1]]
      BY <2>5 DEF DropStolen
    <3> HIDE DEF s
    <3> QED
      BY <1>1, <2>1, <2>2, <3>1 DEF Records
  <2> QED
    BY <2>3, <2>4, <2>5
<1>7. is_pes' \subseteq is_pes
  BY DEF DropKept, DropRemoved, DropStolen, pidVars
<1>8. \A x \in PmtPids : x \in known_psi => x \in known_psi'
  <2>1. CASE DropKept
    BY <2>1 DEF DropKept, pidVars
  <2>2. CASE DropStolen
    BY <2>2 DEF DropStolen
  <2>3. CASE DropRemoved
    <3>1. s \in Slots
      <4>1. entry \in 1 .. Len(old_pat) /\ old_pat \in Pats \cup {<<>>}
        BY <2>3, PatLengths DEF DropRemoved, CountInv, TypeOK
      <4> QED
        BY <1>1, <2>3, <4>1, EntryPids DEF DropRemoved, Unneeded
    <3>2. PsiBack(program[s]) \cap PmtPids = {}
      BY <1>1, <3>1, BackApart
    <3> QED
      BY <2>3, <3>2 DEF DropRemoved
  <2> QED
    BY <2>1, <2>2, <2>3
<1>9. \A i : Reached(i)' => pat'[i].pid \in known_psi'
  BY <1>2, <1>3, <1>4, <1>8 DEF HeardInv
<1>10. ASSUME NEW m \in Programs, table'[m] # Null
       PROVE  /\ [program_number |-> m, pid |-> program'[table'[m]].pmt_pid] \in Entries
              /\ program'[table'[m]].pmt_pid \in known_psi'
  <2>1. /\ [program_number |-> m, pid |-> program[table[m]].pmt_pid] \in Entries
        /\ program[table[m]].pmt_pid \in known_psi
    BY <1>5, <1>10 DEF HeardInv, WhereListed
  <2> QED
    BY <1>6, <1>8, <1>10, <2>1, EntriesAreOnPmtPids
<1> QED
  BY <1>7, <1>9, <1>10 DEF HeardInv, WhereListed

\* A PMT, which comes by a PID that a PAT gives its program.
LEMMA PmtHeard ==
  ASSUME PmtPidsApart, CountInv, HeardInv,
         NEW n \in Programs, NEW pid \in PmtPids, NEW t \in Pmts, ApplyPmt(n, pid, t),
         [program_number |-> n, pid |-> pid] \in Entries
  PROVE  HeardInv'
<1> DEFINE old == table[n]
           listed(m, x) == [program_number |-> m, pid |-> x] \in Entries
<1>1. /\ table \in [Programs -> Slots \cup {Null}] /\ program \in [Slots -> Records]
      /\ live \subseteq Slots /\ previous \in Slots \cup {Null} /\ pid \in Pids
  BY BaseAssumption DEF CountInv, TypeOK
<1>2. old # Null /\ pid \in known_psi
  BY DEF ApplyPmt, FirstPmt, ReplaceProgram, ReplaceCurrent, UpdateProgram, Starts, ToApply, Heard
<1>3. old \in Slots /\ program[old] \in Records
  BY <1>1, <1>2
<1>4. /\ pat' = pat /\ phase' = phase /\ entry' = entry
  BY DEF ApplyPmt, FirstPmt, ReplaceProgram, ReplaceCurrent, UpdateProgram, Activate, patVars
<1>5. \A i : Reached(i)' => Reached(i) /\ pat'[i] = pat[i] /\ pat[i].pid \in PmtPids
  BY <1>4, EntryPids DEF Reached, CountInv, TypeOK
<1>6. \A m \in Programs : table[m] # Null =>
        /\ listed(m, program[table[m]].pmt_pid) /\ program[table[m]].pmt_pid \in known_psi
        /\ program[table[m]].pmt_pid \in PmtPids /\ table[m] \in Slots
  BY <1>1, EntriesAreOnPmtPids DEF HeardInv, WhereListed
<1>7. /\ \A m, o \in Programs : table[m] = table[o] /\ table[m] # Null => m = o
      /\ \A m \in Programs : table[m] # Null => table[m] \in live /\ table[m] # previous
      /\ previous # Null => previous \in live /\ current = previous
  BY DEF CountInv, OwnedCells
<1>8. program[old].patcount \in Int
  BY <1>3 DEF Records
<1>9. NewProgram(pid, program[old].patcount) \in Records /\ Freed \in Records
  BY <1>1, <1>8, RecordTypes
<1>10. SUFFICES KeepsHearing(is_pes, known_psi)
  BY <1>5 DEF HeardInv, KeepsHearing
<1>11. is_pes \cap PmtPids = {}
  BY DEF HeardInv
<1>12. CASE FirstPmt(n, pid, t)
  <2>1. Activate(old, n, pid, t, table, program, is_pes, known_psi, previous, program_number, live)
    BY <1>12 DEF FirstPmt
  <2>2. table[n] = old
    OBVIOUS
  <2>3. PmtsComeBy(Programs \ {n}, table, program, known_psi)
    BY <1>6 DEF PmtsComeBy
  <2> HIDE DEF old, listed
  <2> QED
    BY <1>1, <1>2, <1>3, <1>7, <2>1, <2>2, <2>3, ActivateHeard
<1>13. ASSUME NEW s \in Slots \ live, ReplaceProgram(s, n, pid, t) PROVE KeepsHearing(is_pes, known_psi)
  <2> DEFINE used == UsedPids([table EXCEPT ![n] = Null], program)
             tab == [table EXCEPT ![n] = s]
             heap == [program EXCEPT ![old] = Freed,
                                     ![s] = NewProgram(pid, program[old].patcount)]
             cells == (live \ {old}) \cup {s}
             pes == is_pes \ (PesBack(program[old]) \ used)
             psi == known_psi \ (PsiBack(program[old]) \ used)
  <2>1. Activate(s, n, pid, t, tab, heap, pes, psi, previous, program_number, cells)
    BY <1>13 DEF ReplaceProgram
  <2>2. s # old /\ s # previous /\ s # Null
    BY <1>2, <1>7, <1>1, BaseAssumption
  <2>3. heap \in [Slots -> Records] /\ tab \in [Programs -> Slots \cup {Null}] /\ tab[n] = s
    BY <1>1, <1>9
  <2>4. \A m, o \in Programs : tab[m] = tab[o] /\ tab[m] # Null => m = o
    BY <1>1, <1>7
  <2>5. \A m \in Programs : tab[m] # Null => tab[m] # previous
    BY <1>1, <1>7, <2>2
  <2>6. \A x \in PmtPids : x \in known_psi => x \in psi
    BY <1>3, BackApart
  <2>7. pes \cap PmtPids = {}
    BY <1>11
  <2>8. PmtsComeBy(Programs \ {n}, tab, heap, psi)
    <3> SUFFICES ASSUME NEW m \in Programs \ {n}, tab[m] # Null
                 PROVE  listed(m, heap[tab[m]].pmt_pid) /\ heap[tab[m]].pmt_pid \in psi
      BY DEF PmtsComeBy
    <3>1. tab[m] = table[m] /\ table[m] # s /\ table[m] # old
      BY <1>1, <1>2, <1>7
    <3>2. heap[tab[m]] = program[table[m]]
      BY <1>1, <1>6, <3>1
    <3> HIDE DEF heap, tab, psi
    <3> QED
      BY <1>6, <2>6, <3>1, <3>2
  <2> HIDE DEF tab, heap, cells, pes, psi, old, listed
  <2>9. pid \in psi
    BY <1>2, <2>6
  <2>10. KeepsHearing(pes, psi)
    BY <1>1, <2>1, <2>3, <2>4, <2>5, <2>8, <2>9, ActivateHeard
  <2> QED
    BY <2>6, <2>7, <2>10 DEF KeepsHearing
<1>14. ASSUME NEW s \in Slots \ live, ReplaceCurrent(s, n, pid, t) PROVE KeepsHearing(is_pes, known_psi)
  <2> DEFINE tab == [table EXCEPT ![n] = s]
             heap == [program EXCEPT ![s] = NewProgram(pid, program[old].patcount)]
             cells == live \cup {s}
  <2>1. Activate(s, n, pid, t, tab, heap, is_pes, known_psi, old, Null, cells)
    BY <1>14 DEF ReplaceCurrent
  <2>2. s # old /\ s # Null
    BY <1>2, <1>7, <1>1, BaseAssumption
  <2>3. heap \in [Slots -> Records] /\ tab \in [Programs -> Slots \cup {Null}] /\ tab[n] = s
    BY <1>1, <1>9
  <2>4. \A m, o \in Programs : tab[m] = tab[o] /\ tab[m] # Null => m = o
    BY <1>1, <1>7
  <2>5. \A m \in Programs : tab[m] # Null => tab[m] # old
    BY <1>1, <1>2, <1>7, <2>2
  <2>8. PmtsComeBy(Programs \ {n}, tab, heap, known_psi)
    <3> SUFFICES ASSUME NEW m \in Programs \ {n}, tab[m] # Null
                 PROVE  listed(m, heap[tab[m]].pmt_pid) /\ heap[tab[m]].pmt_pid \in known_psi
      BY DEF PmtsComeBy
    <3>1. tab[m] = table[m] /\ table[m] # s
      BY <1>1, <1>7
    <3>2. heap[tab[m]] = program[table[m]]
      BY <1>1, <1>6, <3>1
    <3> HIDE DEF heap, tab
    <3> QED
      BY <1>6, <3>1, <3>2
  <2> HIDE DEF tab, heap, cells, old, listed
  <2> QED
    BY <1>1, <1>2, <1>3, <2>1, <2>3, <2>4, <2>5, <2>8, ActivateHeard
<1>15. CASE UpdateProgram(n, pid, t)
  <2>1. /\ table' = table /\ is_pes' = is_pes /\ known_psi' = known_psi
        /\ program' = [program EXCEPT ![old] = Updated(program[old], t)]
    BY <1>15 DEF UpdateProgram, pidVars
  <2>2. \A x \in Slots : program'[x].pmt_pid = program[x].pmt_pid
    BY <1>1, <1>3, <2>1, PmtPidFields
  <2>3. \A m \in Programs : table'[m] # Null => program'[table'[m]].pmt_pid = program[table[m]].pmt_pid
    BY <1>6, <2>1, <2>2
  <2>4. WhereListed'
    BY <2>1, <2>3 DEF HeardInv, WhereListed
  <2>5. \A m \in Programs : table'[m] # Null => program'[table'[m]].pmt_pid \in known_psi'
    BY <2>1, <2>3 DEF HeardInv
  <2> QED
    BY <2>1, <2>4, <2>5 DEF KeepsHearing
<1> QED
  BY <1>12, <1>13, <1>14, <1>15 DEF ApplyPmt

LEMMA HeardStep ==
  PmtPidsApart /\ OneEntryPerProgram /\ PmtPidsOwned /\ WireOK /\ CountInv /\ HeardInv
    /\ [TablesNext]_allVars => HeardInv'
<1> SUFFICES ASSUME PmtPidsApart, OneEntryPerProgram, PmtPidsOwned, WireOK, CountInv, HeardInv,
                    [TablesNext]_allVars
             PROVE  HeardInv'
  OBVIOUS
<1>1. ASSUME UNCHANGED vars PROVE HeardInv'
  <2>1. /\ table' = table /\ program' = program /\ pat' = pat /\ phase' = phase /\ entry' = entry
        /\ known_psi' = known_psi /\ is_pes' = is_pes
    BY <1>1 DEF vars, programVars, patVars, pidVars
  <2> QED
    BY <2>1 DEF HeardInv, WhereListed, Reached
<1>2. CASE HearPat
  <2>1. /\ table' = table /\ program' = program /\ known_psi' = known_psi /\ is_pes' = is_pes
        /\ phase' = "add" /\ entry' = 1
    BY <1>2 DEF HearPat, ApplyPat, programVars, pidVars
  <2>2. \A i : ~Reached(i)'
    BY <2>1 DEF Reached
  <2> QED
    BY <2>1, <2>2 DEF HeardInv, WhereListed
<1>3. CASE PatStep
  <2>1. CASE EndAdd \/ EndDrop
    <3>1. /\ table' = table /\ program' = program /\ known_psi' = known_psi /\ is_pes' = is_pes
          /\ pat' = pat
      BY <2>1 DEF EndAdd, EndDrop, programVars, pidVars
    <3>2. \A i : Reached(i)' => Reached(i)
      <4>1. entry \in Nat /\ Len(pat) \in Nat
        BY PatLengths DEF CountInv, TypeOK
      <4> QED
        BY <2>1, <3>1, <4>1 DEF EndAdd, EndDrop, Reached
    <3> QED
      BY <3>1, <3>2 DEF HeardInv, WhereListed
  <2> QED
    BY <1>3, <2>1, AddHeard, DropHeard DEF PatStep
<1>4. ASSUME NEW n \in Programs, NEW x \in PmtPids, HearPmt(n, x) PROVE HeardInv'
  <2>1. CASE TakePmt(n, x)
    <3>1. wire[n].content \in Pmts /\ ApplyPmt(n, x, wire[n].content)
      BY <2>1 DEF TakePmt, WireOK
    <3>2. [program_number |-> n, pid |-> x] \in Entries
      <4>1. PICK i \in 1 .. Len(wire[Pat].content) :
              wire[Pat].content[i] = [program_number |-> n, pid |-> x]
        BY <2>1 DEF TakePmt, NewPmt, Carries
      <4> QED
        BY <4>1, EntryPids DEF WireOK
    <3> QED
      BY <3>1, <3>2, PmtHeard
  <2>2. CASE SkipPmt(n, x) \/ EarlyPmt(n, x)
    BY <1>1, <2>2 DEF SkipPmt, EarlyPmt
  <2> QED
    BY <1>4, <2>1, <2>2 DEF HearPmt
<1>5. CASE FlushStopped
  BY <1>5 DEF FlushStopped, FlushStop, programVars, patVars, pidVars, HeardInv, WhereListed, Reached
<1>6. CASE ResetAll
  <2>1. /\ pat' = <<>> /\ is_pes' = {} /\ table' = [n \in Programs |-> Null]
    BY <1>6 DEF ResetAll, Reset
  <2> QED
    BY <2>1 DEF HeardInv, WhereListed, Reached
<1>7. (\E p \in Pats : ChangePat(p)) \/ (\E n \in Programs, t \in Pmts : ChangePmt(n, t)) \/ Discont
        => UNCHANGED vars
  BY DEF ChangePat, ChangePmt, Discont
<1>8. UNCHANGED allVars => UNCHANGED vars
  BY DEF allVars
<1> QED
  BY <1>1, <1>2, <1>3, <1>4, <1>5, <1>6, <1>7, <1>8 DEF TablesNext

LEMMA HeardInit == TablesInit => HeardInv
  BY DEF TablesInit, Init, HeardInv, WhereListed, Reached

LEMMA TablesAlways == TablesSpec => [](WireOK /\ CountInv)
BY WireInit, WireStep, CountAlways, TablesImplementBase, PTL DEF TablesSpec

\* The PMTs of every program of the PAT in force reach the section parser: known_psi has their
\* PIDs and is_pes does not, whatever programs were listed, moved to other PMT PIDs, replaced
\* and removed before.  It takes three things of the multiplex, as it is meant to be: a PMT PID
\* belongs to one program (PmtPidsOwned, in the property), carries no elementary stream or PCR
\* of a PMT, and a PAT lists a program once.  Without the last one apply_pat itself stops
\* listening to the first of two PMT PIDs that one PAT gives a program.
THEOREM PmtsAreHeard ==
  ASSUME PmtPidsApart, OneEntryPerProgram
  PROVE  TablesSpec => []PmtsHeard
<1>1. CASE PmtPidsOwned
  <2>1. HeardInv /\ CountInv => PmtsHeard
    <3> SUFFICES ASSUME HeardInv, CountInv, phase = "idle", NEW e \in Listings(pat)
                 PROVE  Heard(e.pid)
      BY DEF PmtsHeard, Idle
    <3>1. PICK i \in 1 .. Len(pat) : e = pat[i]
      BY DEF Listings
    <3>2. e.pid \in known_psi
      BY <3>1 DEF HeardInv, Reached
    <3>3. e.pid \in PmtPids
      BY <3>1, EntryPids DEF CountInv, TypeOK
    <3> QED
      BY <3>2, <3>3 DEF HeardInv, Heard
  <2>2. WireOK /\ CountInv /\ HeardInv /\ [TablesNext]_allVars => HeardInv'
    BY <1>1, HeardStep
  <2> QED
    BY <2>1, <2>2, HeardInit, TablesAlways, PTL DEF TablesSpec
<1>2. CASE ~PmtPidsOwned
  <2>1. PmtsHeard
    BY <1>2 DEF PmtsHeard
  <2> QED
    BY <2>1, PTL
<1> QED
  BY <1>1, <1>2
-----------------------------------------------------------------------------
(* What the packetizer has seen *)

\* Program n plays what PMT t says.
Plays(n, t) == table[n] # Null /\ program[table[n]].active /\ program[table[n]].pmt = t

\* A program of which no PMT has come has no streams, however the bin handles streams.
Blank == \A s \in Slots : ~program[s].active => program[s].streams = NoStreams

\* A PMT that is an update finds an active program.
LEMMA UpdatesActive ==
  ASSUME NEW p \in Records, ~p.active => p.streams = NoStreams, NEW pid, NEW t \in Pmts,
         IsProgramUpdate(p, pid, t)
  PROVE  p.active
<1>1. PICK x \in PesOf(t) : p.streams[x] = t.streams[x]
  BY DEF IsProgramUpdate
<1>2. x \in Pids /\ t.streams[x] # NoStream
  BY DEF PesOf, StreamsOf
<1> QED
  BY <1>1, <1>2 DEF NoStreams

LEMMA ActivatedPlays ==
  \A p \in Records : \A pid, t : Activated(p, pid, t).active /\ Activated(p, pid, t).pmt = t
BY DEF Activated, Records

\* Activate: its program plays the PMT, the others go on.
LEMMA ActivatePlays ==
  ASSUME NEW n \in Programs, NEW s \in Slots, NEW pid \in Pids, NEW t \in Pmts,
         NEW tab \in [Programs -> Slots \cup {Null}], NEW heap \in [Slots -> Records],
         NEW pes, NEW psi,
         NEW kept \in Slots \cup {Null}, NEW number, NEW cells,
         Activate(s, n, pid, t, tab, heap, pes, psi, kept, number, cells),
         \A m, o \in Programs : tab[m] = tab[o] /\ tab[m] # Null => m = o,
         \A m \in Programs : tab[m] # Null => tab[m] # kept,
         tab[n] = s,
         \A x \in Slots : ~heap[x].active => heap[x].streams = NoStreams
  PROVE  /\ Plays(n, t)'
         /\ table' = tab
         /\ \A m \in Programs \ {n} : tab[m] # Null => program'[tab[m]] = heap[tab[m]]
         /\ Blank'
<1>1. table' = tab
  BY DEF Activate
<1>2. s # kept /\ s # Null
  BY BaseAssumption
<1>3. program'[s] = Activated(heap[s], pid, t) /\ \A x \in Slots \ {s, kept} : program'[x] = heap[x]
  BY <1>2, ActivateCells
<1>4. program'[s].active /\ program'[s].pmt = t
  <2>1. heap[s] \in Records
    OBVIOUS
  <2> QED
    BY <1>3, <2>1, ActivatedPlays
<1>5. \A m \in Programs \ {n} : tab[m] # Null => program'[tab[m]] = heap[tab[m]]
  <2>1. \A m \in Programs \ {n} : tab[m] # Null => tab[m] \in Slots \ {s, kept}
    BY <1>2
  <2> QED
    BY <1>3, <2>1
<1>6. kept \in Slots => program'[kept] = Freed \/ program'[kept] = heap[kept]
  BY <1>2 DEF Activate
<1>7. Freed.streams = NoStreams
  BY DEF Freed, NewProgram
<1>8. \A x \in Slots : ~program'[x].active => program'[x].streams = NoStreams
  BY <1>3, <1>4, <1>6, <1>7
<1>9. Plays(n, t)'
  BY <1>1, <1>2, <1>4 DEF Plays
<1> QED
  BY <1>1, <1>5, <1>8, <1>9 DEF Blank

\* A PMT of one program.
LEMMA PmtPlays ==
  ASSUME CountInv, Blank, NEW n \in Programs, NEW pid \in PmtPids, NEW t \in Pmts,
         ApplyPmt(n, pid, t)
  PROVE  /\ Plays(n, t)'
         /\ \A m \in Programs : table[m] # Null => table'[m] # Null
         /\ \A m \in Programs \ {n} : \A u : Plays(m, u) => Plays(m, u)'
         /\ Blank'
<1> DEFINE old == table[n]
           Result == /\ Plays(n, t)'
                     /\ \A m \in Programs : table[m] # Null => table'[m] # Null
                     /\ \A m \in Programs \ {n} : table[m] # Null =>
                          table'[m] = table[m] /\ program'[table[m]] = program[table[m]]
                     /\ Blank'
<1>1. /\ table \in [Programs -> Slots \cup {Null}] /\ program \in [Slots -> Records]
      /\ live \subseteq Slots /\ previous \in Slots \cup {Null} /\ pid \in Pids
  BY BaseAssumption DEF CountInv, TypeOK
<1>2. old # Null
  BY DEF ApplyPmt, FirstPmt, ReplaceProgram, ReplaceCurrent, UpdateProgram, Starts, ToApply
<1>3. old \in Slots /\ program[old] \in Records
  BY <1>1, <1>2
<1>4. /\ \A m, o \in Programs : table[m] = table[o] /\ table[m] # Null => m = o
      /\ \A m \in Programs : table[m] # Null => table[m] \in live /\ table[m] # previous
  BY DEF CountInv, OwnedCells
<1>5. program[old].patcount \in Int
  BY <1>3 DEF Records
<1>6. NewProgram(pid, program[old].patcount) \in Records /\ Freed \in Records
  BY <1>1, <1>5, RecordTypes
<1>7. /\ NewProgram(pid, program[old].patcount).streams = NoStreams /\ Freed.streams = NoStreams
      /\ \A x \in Slots : ~program[x].active => program[x].streams = NoStreams
  BY DEF NewProgram, Freed, Blank
<1>8. SUFFICES Result
  BY DEF Plays
<1>9. CASE FirstPmt(n, pid, t)
  <2>1. Activate(old, n, pid, t, table, program, is_pes, known_psi, previous, program_number, live)
    BY <1>9 DEF FirstPmt
  <2>2. table[n] = old
    OBVIOUS
  <2>3. \A m \in Programs : table[m] # Null => table[m] # previous
    BY <1>4
  <2> HIDE DEF old
  <2>4. /\ Plays(n, t)'
        /\ table' = table
        /\ \A m \in Programs \ {n} : table[m] # Null => program'[table[m]] = program[table[m]]
        /\ Blank'
    BY <1>1, <1>3, <1>4, <1>7, <2>1, <2>2, <2>3, ActivatePlays
  <2> QED
    BY <2>4
<1>10. ASSUME NEW s \in Slots \ live, ReplaceProgram(s, n, pid, t) PROVE Result
  <2> DEFINE used == UsedPids([table EXCEPT ![n] = Null], program)
             tab == [table EXCEPT ![n] = s]
             heap == [program EXCEPT ![old] = Freed,
                                     ![s] = NewProgram(pid, program[old].patcount)]
             cells == (live \ {old}) \cup {s}
             pes == is_pes \ (PesBack(program[old]) \ used)
             psi == known_psi \ (PsiBack(program[old]) \ used)
  <2>1. Activate(s, n, pid, t, tab, heap, pes, psi, previous, program_number, cells)
    BY <1>10 DEF ReplaceProgram
  <2>2. s # old /\ s # previous /\ s # Null
    BY <1>1, <1>2, <1>4, BaseAssumption DEF CountInv, OwnedCells
  <2>3. heap \in [Slots -> Records] /\ tab \in [Programs -> Slots \cup {Null}] /\ tab[n] = s
    BY <1>1, <1>6
  <2>4. \A m, o \in Programs : tab[m] = tab[o] /\ tab[m] # Null => m = o
    BY <1>1, <1>4
  <2>5. \A m \in Programs : tab[m] # Null => tab[m] # previous
    BY <1>1, <1>4, <2>2
  <2>6. \A x \in Slots : ~heap[x].active => heap[x].streams = NoStreams
    BY <1>1, <1>7
  <2>7. \A m \in Programs \ {n} : table[m] # Null =>
          tab[m] = table[m] /\ heap[table[m]] = program[table[m]]
    <3> SUFFICES ASSUME NEW m \in Programs \ {n}, table[m] # Null
                 PROVE  tab[m] = table[m] /\ heap[table[m]] = program[table[m]]
      OBVIOUS
    <3>1. table[m] \in Slots /\ table[m] # s /\ table[m] # old
      BY <1>1, <1>2, <1>4
    <3> QED
      BY <1>1, <3>1
  <2> HIDE DEF tab, heap, cells, pes, psi, old
  <2>8. /\ Plays(n, t)'
        /\ table' = tab
        /\ \A m \in Programs \ {n} : tab[m] # Null => program'[tab[m]] = heap[tab[m]]
        /\ Blank'
    BY <1>1, <2>1, <2>3, <2>4, <2>5, <2>6, ActivatePlays
  <2> QED
    BY <2>2, <2>3, <2>7, <2>8
<1>11. ASSUME NEW s \in Slots \ live, ReplaceCurrent(s, n, pid, t) PROVE Result
  <2> DEFINE tab == [table EXCEPT ![n] = s]
             heap == [program EXCEPT ![s] = NewProgram(pid, program[old].patcount)]
             cells == live \cup {s}
  <2>1. Activate(s, n, pid, t, tab, heap, is_pes, known_psi, old, Null, cells)
    BY <1>11 DEF ReplaceCurrent
  <2>2. s # old /\ s # Null
    BY <1>1, <1>2, <1>4, BaseAssumption
  <2>3. heap \in [Slots -> Records] /\ tab \in [Programs -> Slots \cup {Null}] /\ tab[n] = s
    BY <1>1, <1>6
  <2>4. \A m, o \in Programs : tab[m] = tab[o] /\ tab[m] # Null => m = o
    BY <1>1, <1>4
  <2>5. \A m \in Programs : tab[m] # Null => tab[m] # old
    BY <1>1, <1>2, <1>4, <2>2
  <2>6. \A x \in Slots : ~heap[x].active => heap[x].streams = NoStreams
    BY <1>1, <1>7
  <2>7. \A m \in Programs \ {n} : table[m] # Null =>
          tab[m] = table[m] /\ heap[table[m]] = program[table[m]]
    <3> SUFFICES ASSUME NEW m \in Programs \ {n}, table[m] # Null
                 PROVE  tab[m] = table[m] /\ heap[table[m]] = program[table[m]]
      OBVIOUS
    <3>1. table[m] \in Slots /\ table[m] # s
      BY <1>1, <1>4
    <3> QED
      BY <1>1, <3>1
  <2> HIDE DEF tab, heap, cells, old
  <2>8. /\ Plays(n, t)'
        /\ table' = tab
        /\ \A m \in Programs \ {n} : tab[m] # Null => program'[tab[m]] = heap[tab[m]]
        /\ Blank'
    BY <1>1, <1>3, <2>1, <2>3, <2>4, <2>5, <2>6, ActivatePlays
  <2> QED
    BY <2>2, <2>3, <2>7, <2>8
<1>12. CASE UpdateProgram(n, pid, t)
  <2>1. table' = table /\ program' = [program EXCEPT ![old] = Updated(program[old], t)]
    BY <1>12 DEF UpdateProgram
  <2>2. program[old].active
    <3>1. IsProgramUpdate(program[old], pid, t)
      BY <1>12 DEF UpdateProgram, Updates
    <3> QED
      BY <1>3, <1>7, <3>1, UpdatesActive
  <2>3. Updated(program[old], t).active /\ Updated(program[old], t).pmt = t
    BY <1>3, <2>2 DEF Updated, Records
  <2> HIDE DEF old
  <2>4. program'[old].active /\ program'[old].pmt = t /\ \A x \in Slots \ {old} : program'[x] = program[x]
    BY <1>1, <1>3, <2>1, <2>3
  <2>5. Plays(n, t)'
    BY <1>2, <2>1, <2>4 DEF Plays, old
  <2>6. \A m \in Programs \ {n} : table[m] # Null => program'[table[m]] = program[table[m]]
    <3>1. \A m \in Programs \ {n} : table[m] # Null => table[m] \in Slots \ {old}
      BY <1>1, <1>2, <1>4 DEF old
    <3> QED
      BY <2>4, <3>1
  <2>7. Blank'
    BY <1>7, <2>4 DEF Blank
  <2> QED
    BY <2>1, <2>5, <2>6, <2>7
<1> QED
  BY <1>9, <1>10, <1>11, <1>12 DEF ApplyPmt

\* A PMT PID that is listened to belongs to a program of the table, or to one that was dropped.
ListenedTo ==
  \A x \in known_psi \cap PmtPids :
    \E m \in Programs :
      /\ [program_number |-> m, pid |-> x] \in Entries
      /\ table[m] # Null \/ m \in dropped

\* The entry an action of the loops over the new and the old PAT looks at.
LEMMA EntryAt ==
  TypeOK =>
    /\ AddKnown \/ (\E s \in Slots \ live : AddNew(s)) =>
         /\ pat[entry].program_number \in Programs /\ pat[entry].pid \in PmtPids
         /\ [program_number |-> pat[entry].program_number, pid |-> pat[entry].pid] \in Entries
    /\ DropRemoved \/ DropStolen =>
         /\ old_pat[entry].program_number \in Programs /\ old_pat[entry].pid \in PmtPids
         /\ [program_number |-> old_pat[entry].program_number, pid |-> old_pat[entry].pid]
              \in Entries
<1> SUFFICES ASSUME TypeOK
             PROVE  /\ AddKnown \/ (\E s \in Slots \ live : AddNew(s)) =>
                         /\ pat[entry].program_number \in Programs /\ pat[entry].pid \in PmtPids
                         /\ [program_number |-> pat[entry].program_number, pid |-> pat[entry].pid]
                              \in Entries
                    /\ DropRemoved \/ DropStolen =>
                         /\ old_pat[entry].program_number \in Programs
                         /\ old_pat[entry].pid \in PmtPids
                         /\ [program_number |-> old_pat[entry].program_number,
                             pid |-> old_pat[entry].pid] \in Entries
  OBVIOUS
<1>1. /\ Len(pat) \in Nat /\ Len(old_pat) \in Nat /\ entry \in Nat \ {0}
      /\ pat \in Pats \cup {<<>>} /\ old_pat \in Pats \cup {<<>>}
  BY PatLengths DEF TypeOK
<1>2. AddKnown \/ (\E s \in Slots \ live : AddNew(s)) => entry \in 1 .. Len(pat)
  BY <1>1 DEF AddKnown, AddNew
<1>3. DropRemoved \/ DropStolen => entry \in 1 .. Len(old_pat)
  BY <1>1 DEF DropRemoved, DropStolen
<1>4. entry \in 1 .. Len(pat) =>
        /\ pat[entry].program_number \in Programs /\ pat[entry].pid \in PmtPids
        /\ [program_number |-> pat[entry].program_number, pid |-> pat[entry].pid] \in Entries
  BY <1>1, EntryPids
<1>5. entry \in 1 .. Len(old_pat) =>
        /\ old_pat[entry].program_number \in Programs /\ old_pat[entry].pid \in PmtPids
        /\ [program_number |-> old_pat[entry].program_number, pid |-> old_pat[entry].pid]
             \in Entries
  BY <1>1, EntryPids
<1> QED
  BY <1>2, <1>3, <1>4, <1>5

\* The loops of apply_pat: what stays in the table plays on.
LEMMA PatPlays ==
  ASSUME CountInv, Blank, PatStep
  PROVE  /\ \A m \in Programs \ dropped' : \A t : Plays(m, t) => Plays(m, t)'
         /\ Blank'
<1>1. /\ table \in [Programs -> Slots \cup {Null}] /\ program \in [Slots -> Records]
      /\ live \subseteq Slots /\ TypeOK
  BY DEF CountInv, TypeOK
<1>2. /\ \A m, o \in Programs : table[m] = table[o] /\ table[m] # Null => m = o
      /\ \A m \in Programs : table[m] # Null => table[m] \in live /\ table[m] \in Slots
  BY <1>1 DEF CountInv, OwnedCells
<1> DEFINE Result == /\ \A m \in Programs \ dropped' : table[m] # Null =>
                          /\ table'[m] = table[m]
                          /\ program'[table[m]].active = program[table[m]].active
                          /\ program'[table[m]].pmt = program[table[m]].pmt
                     /\ Blank'
<1>3. SUFFICES Result
  BY DEF Plays
<1>4. ASSUME NEW s \in Slots \ live, AddNew(s) PROVE Result
  <2> DEFINE n == pat[entry].program_number
  <2>1. /\ table' = [table EXCEPT ![n] = s] /\ table[n] = Null
        /\ program' = [program EXCEPT ![s] = NewProgram(pat[entry].pid, 1)]
    BY <1>4 DEF AddNew
  <2>2. NewProgram(pat[entry].pid, 1).streams = NoStreams
    BY DEF NewProgram
  <2> HIDE DEF n
  <2>3. \A m \in Programs : table[m] # Null => table'[m] = table[m] /\ program'[table[m]] = program[table[m]]
    BY <1>1, <1>2, <2>1
  <2>4. Blank'
    BY <1>1, <2>1, <2>2 DEF Blank
  <2> QED
    BY <2>3, <2>4
<1>5. SameButReferences => Blank'
  BY DEF SameButReferences, Blank
<1>6. CASE AddKnown \/ DropKept
  <2>1. table' = table /\ SameButReferences
    BY <1>1, <1>6, OnlyReferences DEF AddKnown, DropKept
  <2> QED
    BY <1>2, <1>5, <2>1 DEF SameButReferences
<1>7. CASE EndAdd \/ EndDrop
  <2>1. table' = table /\ program' = program
    BY <1>7 DEF EndAdd, EndDrop, programVars
  <2> QED
    BY <2>1 DEF Blank
<1>8. ASSUME DropRemoved \/ DropStolen, dropped' = dropped \cup {old_pat[entry].program_number}
      PROVE  Result
  <2> DEFINE n == old_pat[entry].program_number
             s == table[n]
  <2>1. n \in Programs /\ s # Null
    BY <1>1, <1>8, EntryAt DEF DropRemoved, DropStolen, Unneeded
  <2>2. n \in dropped' /\ table' = [table EXCEPT ![n] = Null]
    BY <1>8 DEF DropRemoved, DropStolen
  <2>3. \A m \in Programs \ dropped' : table'[m] = table[m] /\ (table[m] # Null => table[m] # s)
    BY <1>1, <1>2, <2>1, <2>2
  <2>4. CASE DropStolen
    <3>1. SameButReferences
      BY <1>1, <2>4, OnlyReferences
    <3> QED
      BY <1>2, <1>5, <2>3, <3>1 DEF SameButReferences
  <2>5. CASE DropRemoved
    <3>1. program' = [program EXCEPT ![s] = Freed]
      BY <2>5 DEF DropRemoved
    <3>2. Freed.streams = NoStreams
      BY DEF Freed, NewProgram
    <3> HIDE DEF s
    <3>3. Blank'
      BY <1>1, <3>1, <3>2 DEF Blank
    <3> QED
      BY <1>1, <1>2, <2>3, <3>1, <3>3
  <2> QED
    BY <1>8, <2>4, <2>5
<1> QED
  BY <1>4, <1>6, <1>7, <1>8 DEF PatStep

\* The loops of apply_pat listen to the PIDs of what is in the table, or was in it.
LEMMA PatListens ==
  ASSUME CountInv, ListenedTo, PatStep
  PROVE  ListenedTo'
<1>1. table \in [Programs -> Slots \cup {Null}] /\ Null \notin Slots /\ TypeOK
  BY BaseAssumption DEF CountInv, TypeOK
<1>2. CASE AddKnown \/ \E s \in Slots \ live : AddNew(s)
  <2> DEFINE n == pat[entry].program_number
             x == pat[entry].pid
  <2>1. n \in Programs /\ [program_number |-> n, pid |-> x] \in Entries
    BY <1>1, <1>2, EntryAt
  <2>2. known_psi' \subseteq known_psi \cup {x}
    BY <1>2 DEF AddKnown, AddNew
  <2>3. table'[n] # Null /\ \A m \in Programs : table[m] # Null => table'[m] # Null
    BY <1>1, <1>2, <2>1 DEF AddKnown, AddNew
  <2>4. dropped' = dropped
    BY <1>2 DEF PatStep, tableVars, AddKnown, AddNew, DropRemoved, DropStolen
  <2> HIDE DEF n, x
  <2> QED
    BY <2>1, <2>2, <2>3, <2>4 DEF ListenedTo
<1>3. CASE EndAdd \/ EndDrop \/ DropKept
  <2>1. table' = table /\ known_psi' = known_psi
    BY <1>3 DEF EndAdd, EndDrop, DropKept, programVars, pidVars
  <2>2. dropped \subseteq dropped'
    BY DEF PatStep, tableVars
  <2> QED
    BY <2>1, <2>2 DEF ListenedTo
<1>4. ASSUME DropRemoved \/ DropStolen, dropped' = dropped \cup {old_pat[entry].program_number}
      PROVE  ListenedTo'
  <2> DEFINE n == old_pat[entry].program_number
             x == old_pat[entry].pid
  <2>1. n \in Programs /\ [program_number |-> n, pid |-> x] \in Entries
    BY <1>1, <1>4, EntryAt
  <2>2. known_psi' \subseteq known_psi \cup {x}
    BY <1>4 DEF DropRemoved, DropStolen
  <2>3. \A m \in Programs \ {n} : table'[m] = table[m]
    BY <1>1, <1>4 DEF DropRemoved, DropStolen
  <2>4. dropped' = dropped \cup {n}
    BY <1>4
  <2> HIDE DEF n, x
  <2> QED
    BY <2>1, <2>2, <2>3, <2>4 DEF ListenedTo
<1> QED
  BY <1>2, <1>3, <1>4 DEF PatStep

\* The fixed tables have PIDs of their own.
FixedTablesApart == PmtPids \cap DefaultPsi = {}

\* Every PMT has a stream that is no section stream.
EveryPmtPlays == \A t \in Pmts : PesOf(t) # {}

\* Two PMTs do not differ in the stream on the PID of the PCR alone.
PcrStreamStays ==
  \A t, u \in Pmts :
    t.pcr = u.pcr /\ (\A x \in Pids \ {t.pcr} : t.streams[x] = u.streams[x]) => t = u

\* A PMT that mpegts_base_is_same_program takes for the one the program plays is that one.
LEMMA SameIsSame ==
  ASSUME PcrStreamStays, IsFiniteSet(Pids),
         NEW p \in Records, Tidy(p), NEW pid, NEW t \in Pmts, IsSameProgram(p, pid, t)
  PROVE  p.active /\ p.pmt = t
<1>1. p.pcr_pid = t.pcr
  BY DEF IsSameProgram
<1>2. /\ t.pcr \in Pids /\ t.streams \in [Pids -> Types \cup {NoStream}]
      /\ PcrOnly # NoStream
  BY BaseAssumption
<1>3. p.active
  BY <1>1, <1>2, BaseAssumption DEF Tidy
<1>4. /\ p.pmt \in Pmts /\ p.pmt.pcr = t.pcr
      /\ StreamsOf(p) = StreamsOf(p.pmt) \cup {t.pcr}
      /\ \A x \in StreamsOf(p.pmt) : p.streams[x] = p.pmt.streams[x]
  BY <1>1, <1>3 DEF Tidy
<1>5. \A x \in StreamsOf(t) : p.streams[x] = t.streams[x]
  BY DEF IsSameProgram
<1>6. StreamsOf(t) \cup {t.pcr} \subseteq StreamsOf(p)
  BY <1>2, <1>4, <1>5 DEF StreamsOf
<1>7. StreamsOf(t) \cup {t.pcr} = StreamsOf(p)
  <2>1. IsFiniteSet(StreamsOf(p))
    BY FS_Subset DEF StreamsOf
  <2>2. Cardinality(StreamsOf(p)) = Cardinality(StreamsOf(t) \cup {t.pcr})
    BY DEF IsSameProgram
  <2> QED
    BY <1>6, <2>1, <2>2, FS_Subset
<1>8. \A x \in Pids \ {t.pcr} : p.pmt.streams[x] = t.streams[x]
  <2> SUFFICES ASSUME NEW x \in Pids \ {t.pcr} PROVE p.pmt.streams[x] = t.streams[x]
    OBVIOUS
  <2>1. CASE x \in StreamsOf(t)
    BY <1>4, <1>5, <1>6, <2>1
  <2>2. CASE x \notin StreamsOf(t)
    <3>1. x \notin StreamsOf(p.pmt)
      BY <1>4, <1>7, <2>2
    <3> QED
      BY <2>2, <3>1 DEF StreamsOf
  <2> QED
    BY <2>1, <2>2
<1> QED
  BY <1>3, <1>4, <1>8 DEF PcrStreamStays

\* The versions the packetizer has seen have been on the air.
SeenOK ==
  /\ seen \in [Pids -> [Programs \cup {Pat} -> Nat \cup {Unseen}]]
  /\ \A x \in Pids, n \in Programs : seen[x][n] # Unseen => seen[x][n] <= wire[n].version

SeenApplied ==
  \A n \in Programs \ dropped, x \in PmtPids :
    seen[x][n] = wire[n].version => Plays(n, wire[n].content)

SeenInv == SeenOK /\ Blank /\ ListenedTo /\ SeenApplied

LEMMA SeenTypes ==
  /\ Nothing \in [Programs \cup {Pat} -> Nat \cup {Unseen}]
  /\ \A n \in Programs : Nothing[n] = Unseen
  /\ Unseen \notin Nat
BY TablesAssumption DEF Nothing

\* A PMT that is taken for nothing new is what its program plays already.
LEMMA SkippedIsPlayed ==
  ASSUME PmtPidsOwned, EveryPmtPlays, PcrStreamStays, IsFiniteSet(Pids),
         WireOK, CountInv, StaleInv, ListenedTo,
         NEW n \in Programs \ dropped, NEW x \in PmtPids, SkipPmt(n, x)
  PROVE  Plays(n, wire[n].content)
<1> DEFINE t == wire[n].content
           p == program[table[n]]
<1>1. /\ Idle /\ seen_pat /\ Heard(x) /\ Carries(x, n)
      /\ ~Starts(n, x, t)
      /\ table[n] # Null => ~Updates(n, x, t)
  BY DEF SkipPmt, NewPmt
<1>2. t \in Pmts
  BY DEF WireOK
<1>3. [program_number |-> n, pid |-> x] \in Entries
  <2>1. PICK i \in 1 .. Len(wire[Pat].content) :
          wire[Pat].content[i] = [program_number |-> n, pid |-> x]
    BY <1>1 DEF Carries
  <2> QED
    BY <2>1, EntryPids DEF WireOK
<1>4. table[n] # Null
  <2>1. PICK m \in Programs : /\ [program_number |-> m, pid |-> x] \in Entries
                              /\ table[m] # Null \/ m \in dropped
    BY <1>1 DEF ListenedTo, Heard
  <2>2. m = n
    BY <1>3, <2>1 DEF PmtPidsOwned, Entries
  <2> QED
    BY <2>1, <2>2
<1>5. table[n] \in Slots /\ p \in Records
  BY <1>4 DEF CountInv, TypeOK
<1>6. IsSameProgram(p, x, t) /\ ~Updates(n, x, t)
  BY <1>1, <1>4 DEF Starts, ToApply
<1>7. ~streams_aware
  <2>1. PICK y \in PesOf(t) : TRUE
    BY <1>2 DEF EveryPmtPlays
  <2>2. p.streams[y] = t.streams[y] /\ p.pmt_pid = x
    BY <1>6, <2>1 DEF IsSameProgram, PesOf
  <2>3. IsProgramUpdate(p, x, t)
    BY <2>1, <2>2 DEF IsProgramUpdate
  <2> QED
    BY <1>6, <2>3 DEF Updates
<1>8. Tidy(p)
  BY <1>5, <1>7 DEF StaleInv
<1> HIDE DEF p, t
<1>9. p.active /\ p.pmt = t
  BY <1>2, <1>5, <1>6, <1>8, SameIsSame
<1> QED
  BY <1>4, <1>9 DEF Plays, p, t

\* A PMT adds no PMT PID to those that are listened to.
LEMMA PmtListens ==
  ASSUME PmtPidsApart, NEW n \in Programs, NEW pid \in PmtPids, NEW t \in Pmts,
         ApplyPmt(n, pid, t)
  PROVE  known_psi' \cap PmtPids \subseteq known_psi
<1>1. PrivateOf(t) \cap PmtPids = {}
  <2>1. PrivateOf(t) \subseteq StreamsOf(t)
    BY BaseAssumption DEF PrivateOf, StreamsOf
  <2> QED
    BY <2>1 DEF PmtPidsApart
<1>2. \A psi : PsiActivated(psi, t) \cap PmtPids \subseteq psi
  BY <1>1 DEF PsiActivated
<1>3. CASE FirstPmt(n, pid, t)
  BY <1>2, <1>3 DEF FirstPmt, Activate
<1>4. ASSUME NEW s \in Slots \ live, ReplaceProgram(s, n, pid, t)
      PROVE  known_psi' \cap PmtPids \subseteq known_psi
  BY <1>2, <1>4 DEF ReplaceProgram, Activate
<1>5. ASSUME NEW s \in Slots \ live, ReplaceCurrent(s, n, pid, t)
      PROVE  known_psi' \cap PmtPids \subseteq known_psi
  BY <1>2, <1>5 DEF ReplaceCurrent, Activate
<1>6. CASE UpdateProgram(n, pid, t)
  BY <1>6 DEF UpdateProgram, pidVars
<1> QED
  BY <1>3, <1>4, <1>5, <1>6 DEF ApplyPmt

\* No PMT comes from nowhere: its version was on the air.
LEMMA SeenOKStep == WireOK /\ SeenOK /\ [TablesNext]_allVars => SeenOK'
<1> SUFFICES ASSUME WireOK, SeenOK, [TablesNext]_allVars PROVE SeenOK'
  OBVIOUS
<1>0. /\ Pat \notin Programs /\ PatPid \in Pids /\ PatPid \notin PmtPids /\ PmtPids \subseteq Pids
      /\ Unseen \notin Nat
      /\ \A e \in Programs \cup {Pat} : wire[e].version \in Nat
  BY TablesAssumption, BaseAssumption DEF WireOK
<1> DEFINE fewer == /\ seen' \in [Pids -> [Programs \cup {Pat} -> Nat \cup {Unseen}]]
                    /\ \A x \in Pids, n \in Programs : seen'[x][n] \in {seen[x][n], Unseen}
<1>1. ASSUME fewer, \A n \in Programs : wire'[n].version = wire[n].version
      PROVE  SeenOK'
  BY <1>1 DEF SeenOK
<1>2. ASSUME UNCHANGED <<wire, seen>> PROVE SeenOK'
  BY <1>2 DEF SeenOK
<1>3. ASSUME NEW p \in Pats, ChangePat(p) PROVE SeenOK'
  BY <1>0, <1>3 DEF ChangePat, SeenOK, WireOK
<1>4. ASSUME NEW n \in Programs, NEW t \in Pmts, ChangePmt(n, t) PROVE SeenOK'
  <2>1. seen' = seen /\ wire' = [wire EXCEPT ![n] = Next1(@, t)]
    BY <1>4 DEF ChangePmt
  <2>2. wire'[n].version = wire[n].version + 1 /\ \A m \in Programs \ {n} : wire'[m] = wire[m]
    BY <2>1 DEF Next1, WireOK
  <2>3. ASSUME NEW x \in Pids, NEW m \in Programs, seen[x][m] # Unseen
        PROVE  seen[x][m] <= wire'[m].version
    <3>1. seen[x][m] \in Nat /\ seen[x][m] <= wire[m].version /\ wire[m].version \in Nat
      BY <1>0, <2>3 DEF SeenOK
    <3> QED
      BY <2>2, <3>1
  <2> QED
    BY <2>1, <2>3 DEF SeenOK
<1>5. ASSUME NEW x \in Pids, seen' = Forgotten(x), wire' = wire PROVE SeenOK'
  <2>1. fewer
    BY <1>5, SeenTypes DEF Forgotten, SeenOK
  <2> QED
    BY <1>1, <1>5, <2>1
<1>6. ASSUME seen' = [x \in Pids |-> Nothing], wire' = wire PROVE SeenOK'
  <2>1. fewer
    BY <1>6, SeenTypes
  <2> QED
    BY <1>1, <1>6, <2>1
<1>7. ASSUME NEW x \in Pids, NEW e \in Programs \cup {Pat}, seen' = Marked(x, e), wire' = wire
      PROVE  SeenOK'
  <2>1. seen' = [seen EXCEPT ![x][e] = wire[e].version]
    BY <1>7 DEF Marked
  <2>2. seen' \in [Pids -> [Programs \cup {Pat} -> Nat \cup {Unseen}]]
    BY <1>0, <2>1 DEF SeenOK
  <2>3. ASSUME NEW y \in Pids, NEW n \in Programs, seen'[y][n] # Unseen
        PROVE  seen'[y][n] <= wire[n].version
    BY <1>0, <2>1, <2>3 DEF SeenOK
  <2> QED
    BY <1>7, <2>2, <2>3 DEF SeenOK
<1>8. CASE HearPat
  BY <1>0, <1>7, <1>8 DEF HearPat
<1>9. CASE PatStep
  <2>1. CASE UNCHANGED tableVars
    BY <1>2, <2>1 DEF tableVars
  <2>2. ASSUME DropRemoved \/ DropStolen, seen' = Forgotten(old_pat[entry].pid), wire' = wire
        PROVE  SeenOK'
    <3>1. fewer
      BY <2>2, SeenTypes DEF Forgotten, SeenOK
    <3> QED
      BY <1>1, <2>2, <3>1
  <2> QED
    BY <1>9, <2>1, <2>2 DEF PatStep
<1>10. ASSUME NEW n \in Programs, NEW x \in PmtPids, HearPmt(n, x) PROVE SeenOK'
  BY <1>0, <1>5, <1>7, <1>10 DEF HearPmt, TakePmt, SkipPmt, EarlyPmt
<1>11. FlushStopped => UNCHANGED <<wire, seen>>
  BY DEF FlushStopped, tableVars
<1>12. Discont \/ ResetAll => SeenOK'
  BY <1>6 DEF Discont, ResetAll
<1>13. UNCHANGED allVars => UNCHANGED <<wire, seen>>
  BY DEF allVars, tableVars
<1> QED
  BY <1>2, <1>3, <1>4, <1>8, <1>9, <1>10, <1>11, <1>12, <1>13 DEF TablesNext

\* What the multiplex and the base class do to what is played, what was seen and what is
\* listened to.
LEMMA SeenStep ==
  ASSUME FixedTablesApart, PmtPidsApart, PmtPidsOwned, EveryPmtPlays, PcrStreamStays,
         IsFiniteSet(Pids)
  PROVE  WireOK /\ CountInv /\ StaleInv /\ SeenInv /\ [TablesNext]_allVars
           => Blank' /\ ListenedTo' /\ SeenApplied'
<1> SUFFICES ASSUME WireOK, CountInv, StaleInv, SeenInv, [TablesNext]_allVars
             PROVE  Blank' /\ ListenedTo' /\ SeenApplied'
  OBVIOUS
<1>0. /\ Pat \notin Programs /\ PatPid \in Pids /\ PatPid \notin PmtPids /\ PmtPids \subseteq Pids
      /\ Unseen \notin Nat
      /\ \A n \in Programs : wire[n].version \in Nat
      /\ seen \in [Pids -> [Programs \cup {Pat} -> Nat \cup {Unseen}]]
      /\ Blank /\ ListenedTo /\ SeenApplied
  BY TablesAssumption, BaseAssumption DEF WireOK, SeenInv, SeenOK
\* Steps that leave the programs, and of what was seen only forget.
<1>1. ASSUME UNCHANGED programVars PROVE Blank' /\ \A n, t : Plays(n, t)' <=> Plays(n, t)
  BY <1>0, <1>1 DEF programVars, Blank, Plays
<1>2. ASSUME \A x \in PmtPids, n \in Programs : seen'[x][n] \in {seen[x][n], Unseen},
             wire' = wire, dropped \subseteq dropped',
             \A n \in Programs \ dropped' : \A t : Plays(n, t) => Plays(n, t)'
      PROVE  SeenApplied'
  <2> SUFFICES ASSUME NEW n \in Programs \ dropped', NEW x \in PmtPids,
                      seen'[x][n] = wire[n].version
               PROVE  Plays(n, wire[n].content)'
    BY <1>2 DEF SeenApplied
  <2>1. seen[x][n] = wire[n].version
    BY <1>0, <1>2
  <2>2. Plays(n, wire[n].content)
    BY <1>0, <1>2, <2>1 DEF SeenApplied
  <2>3. \A t : Plays(n, t) => Plays(n, t)'
    BY <1>2
  <2> QED
    BY <1>2, <2>2, <2>3
<1>3. ASSUME UNCHANGED <<vars, dropped>> PROVE Blank' /\ ListenedTo' /\ \A n, t : Plays(n, t)' <=> Plays(n, t)
  BY <1>0, <1>1, <1>3 DEF vars, programVars, pidVars, ListenedTo
<1>4. ASSUME NEW p \in Pats, ChangePat(p) PROVE Blank' /\ ListenedTo' /\ SeenApplied'
  <2>1. UNCHANGED <<vars, dropped, seen>> /\ \A n \in Programs : wire'[n] = wire[n]
    BY <1>0, <1>4 DEF ChangePat, WireOK
  <2>2. SeenApplied'
    BY <1>0, <1>3, <2>1 DEF SeenApplied
  <2> QED
    BY <1>3, <2>1, <2>2
<1>5. ASSUME NEW n \in Programs, NEW t \in Pmts, ChangePmt(n, t)
      PROVE  Blank' /\ ListenedTo' /\ SeenApplied'
  <2>1. UNCHANGED <<vars, dropped, seen>> /\ wire' = [wire EXCEPT ![n] = Next1(@, t)]
    BY <1>5 DEF ChangePmt
  <2>2. wire'[n].version = wire[n].version + 1 /\ \A m \in Programs \ {n} : wire'[m] = wire[m]
    BY <1>0, <2>1 DEF Next1, WireOK
  <2>3. \A x \in PmtPids : seen[x][n] # wire[n].version + 1
    <3> SUFFICES ASSUME NEW x \in PmtPids, seen[x][n] = wire[n].version + 1 PROVE FALSE
      OBVIOUS
    <3>1. wire[n].version \in Nat /\ seen[x][n] # Unseen
      BY <1>0
    <3>2. seen[x][n] <= wire[n].version
      BY <1>0, <3>1 DEF SeenInv, SeenOK
    <3> QED
      BY <3>1, <3>2
  <2>4. SeenApplied'
    BY <1>0, <1>3, <2>1, <2>2, <2>3 DEF SeenApplied
  <2> QED
    BY <1>3, <2>1, <2>4
<1>6. CASE HearPat
  <2>1. /\ UNCHANGED programVars /\ wire' = wire /\ dropped' = dropped /\ known_psi' = known_psi
        /\ seen' = [seen EXCEPT ![PatPid][Pat] = wire[Pat].version]
    BY <1>6 DEF HearPat, ApplyPat, Marked, pidVars
  <2>2. \A x \in PmtPids : seen'[x] = seen[x]
    BY <1>0, <2>1
  <2>3. SeenApplied'
    BY <1>1, <1>2, <2>1, <2>2
  <2>4. ListenedTo'
    BY <1>0, <2>1 DEF programVars, ListenedTo
  <2> QED
    BY <1>1, <2>1, <2>3, <2>4
<1>7. CASE PatStep
  <2>1. Blank' /\ ListenedTo' /\ \A m \in Programs \ dropped' : \A t : Plays(m, t) => Plays(m, t)'
    BY <1>0, <1>7, PatPlays, PatListens
  <2>2. wire' = wire /\ dropped \subseteq dropped'
    BY <1>7 DEF PatStep, tableVars
  <2>3. \A x \in PmtPids, n \in Programs : seen'[x][n] \in {seen[x][n], Unseen}
    <3>1. seen' = seen \/ seen' = Forgotten(old_pat[entry].pid)
      BY <1>7 DEF PatStep, tableVars
    <3> QED
      BY <1>0, <3>1, SeenTypes DEF Forgotten
  <2> QED
    BY <1>2, <2>1, <2>2, <2>3
<1>8. ASSUME NEW n \in Programs, NEW x \in PmtPids, TakePmt(n, x)
      PROVE  Blank' /\ ListenedTo' /\ SeenApplied'
  <2>0. PICK t \in Pmts : t = wire[n].content
    BY DEF WireOK
  <2>1. /\ ApplyPmt(n, x, t)
        /\ wire' = wire /\ dropped' = dropped /\ seen' = [seen EXCEPT ![x][n] = wire[n].version]
    BY <1>8, <2>0 DEF TakePmt, Marked
  <2>2. /\ Plays(n, t)' /\ Blank'
        /\ \A m \in Programs : table[m] # Null => table'[m] # Null
        /\ \A m \in Programs \ {n} : \A u : Plays(m, u) => Plays(m, u)'
    BY <1>0, <2>1, PmtPlays
  <2>3. ListenedTo'
    <3>1. known_psi' \cap PmtPids \subseteq known_psi
      BY <2>1, PmtListens
    <3> QED
      BY <1>0, <2>1, <2>2, <3>1 DEF ListenedTo
  <2>4. SeenApplied'
    <3> SUFFICES ASSUME NEW m \in Programs \ dropped, NEW y \in PmtPids,
                        seen'[y][m] = wire[m].version
                 PROVE  Plays(m, wire[m].content)'
      BY <2>1 DEF SeenApplied
    <3>1. CASE m = n
      BY <2>0, <2>1, <2>2, <3>1
    <3>2. CASE m # n
      <4>1. seen[y][m] = wire[m].version
        BY <1>0, <2>1, <3>2
      <4>2. Plays(m, wire[m].content)
        BY <1>0, <4>1 DEF SeenApplied
      <4>3. \A u : Plays(m, u) => Plays(m, u)'
        BY <2>2, <3>2
      <4> QED
        BY <2>1, <4>2, <4>3
    <3> QED
      BY <3>1, <3>2
  <2> QED
    BY <2>2, <2>3, <2>4
<1>9. ASSUME NEW n \in Programs, NEW x \in PmtPids, SkipPmt(n, x)
      PROVE  Blank' /\ ListenedTo' /\ SeenApplied'
  <2>1. /\ UNCHANGED <<vars, dropped>> /\ wire' = wire
        /\ seen' = [seen EXCEPT ![x][n] = wire[n].version]
    BY <1>9 DEF SkipPmt, Marked
  <2>2. n \notin dropped => Plays(n, wire[n].content)
    BY <1>0, <1>9, SkippedIsPlayed
  <2>3. SeenApplied'
    <3> SUFFICES ASSUME NEW m \in Programs \ dropped, NEW y \in PmtPids,
                        seen'[y][m] = wire[m].version
                 PROVE  Plays(m, wire[m].content)'
      BY <2>1 DEF SeenApplied
    <3>1. Plays(m, wire[m].content)
      BY <1>0, <2>1, <2>2 DEF SeenApplied
    <3> QED
      BY <1>3, <2>1, <3>1
  <2> QED
    BY <1>3, <2>1, <2>3
<1>10. ASSUME NEW x \in PmtPids, UNCHANGED <<vars, dropped, wire>>, seen' = Forgotten(x)
       PROVE  Blank' /\ ListenedTo' /\ SeenApplied'
  <2>1. \A y \in PmtPids, n \in Programs : seen'[y][n] \in {seen[y][n], Unseen}
    BY <1>0, <1>10, SeenTypes DEF Forgotten
  <2>2. SeenApplied'
    BY <1>2, <1>3, <1>10, <2>1
  <2> QED
    BY <1>3, <1>10, <2>2
<1>11. ASSUME seen' = [x \in Pids |-> Nothing], wire' = wire PROVE SeenApplied'
  <2>1. \A x \in PmtPids, n \in Programs : seen'[x][n] # wire[n].version
    BY <1>0, <1>11, SeenTypes
  <2> QED
    BY <1>11, <2>1 DEF SeenApplied
<1>12. CASE FlushStopped
  <2>1. UNCHANGED programVars /\ wire' = wire /\ dropped' = dropped /\ seen' = seen
        /\ known_psi' = known_psi
    BY <1>12 DEF FlushStopped, FlushStop, tableVars, pidVars
  <2>2. ListenedTo'
    BY <1>0, <2>1 DEF programVars, ListenedTo
  <2>3. SeenApplied'
    BY <1>1, <1>2, <2>1
  <2> QED
    BY <1>1, <2>1, <2>2, <2>3
<1>13. CASE Discont
  BY <1>3, <1>11, <1>13 DEF Discont
<1>14. CASE ResetAll
  <2>1. program' = [s \in Slots |-> Freed] /\ known_psi' = DefaultPsi
    BY <1>14 DEF ResetAll, Reset
  <2>2. Blank'
    BY <2>1 DEF Blank, Freed, NewProgram
  <2>3. ListenedTo'
    BY <2>1 DEF ListenedTo, FixedTablesApart
  <2> QED
    BY <1>11, <1>14, <2>2, <2>3 DEF ResetAll
<1>15. CASE UNCHANGED allVars
  <2>1. UNCHANGED <<vars, dropped, wire, seen>>
    BY <1>15 DEF allVars, tableVars
  <2>2. SeenApplied'
    BY <1>2, <1>3, <2>1
  <2> QED
    BY <1>3, <2>1, <2>2
<1>16. ASSUME NEW n \in Programs, NEW x \in PmtPids, HearPmt(n, x)
       PROVE  Blank' /\ ListenedTo' /\ SeenApplied'
  BY <1>8, <1>9, <1>10, <1>16 DEF HearPmt, EarlyPmt
<1> QED
  BY <1>4, <1>5, <1>6, <1>7, <1>12, <1>13, <1>14, <1>15, <1>16 DEF TablesNext

LEMMA SeenInit == FixedTablesApart /\ TablesInit => SeenInv
<1> SUFFICES ASSUME FixedTablesApart, TablesInit PROVE SeenInv
  OBVIOUS
<1>1. /\ seen = [x \in Pids |-> Nothing] /\ program = [s \in Slots |-> Freed]
      /\ known_psi = DefaultPsi
  BY DEF TablesInit, Init
<1>2. WireOK
  BY WireInit
<1>3. SeenOK
  BY <1>1, SeenTypes DEF SeenOK
<1>4. Blank /\ ListenedTo
  BY <1>1 DEF Blank, ListenedTo, FixedTablesApart, Freed, NewProgram
<1>5. \A x \in PmtPids, n \in Programs : seen[x][n] # wire[n].version
  BY <1>1, <1>2, SeenTypes, BaseAssumption DEF WireOK
<1> QED
  BY <1>3, <1>4, <1>5 DEF SeenInv, SeenApplied

\* A PMT that the packetizer will not report again, because it was seen, is the one its program
\* plays; not only between two sections but in the middle of apply_pat too, on every PMT PID.
\* The multiplex is one whose fixed tables, PMTs and streams have PIDs of their own, each PMT
\* PID one program (PmtPidsOwned, in the property) and each PMT a stream to play; and that
\* never changes a PMT by nothing but the stream on the PID of the PCR.  Without the last one
\* the code fails: mpegts_base_is_same_program takes a PMT that drops that stream for the same.
THEOREM SeenPmtsAreApplied ==
  ASSUME FixedTablesApart, PmtPidsApart, EveryPmtPlays, PcrStreamStays, IsFiniteSet(Pids)
  PROVE  TablesSpec => []SeenIsApplied
<1>1. CASE PmtPidsOwned
  <2>1. SeenInv => SeenIsApplied
    BY DEF SeenInv, SeenApplied, SeenIsApplied, IsApplied, Plays
  <2>2. WireOK /\ CountInv /\ StaleInv /\ SeenInv /\ [TablesNext]_allVars => SeenInv'
    BY <1>1, SeenOKStep, SeenStep DEF SeenInv
  <2>3. TablesInit => SeenInv
    BY SeenInit
  <2> QED
    BY <2>1, <2>2, <2>3, TablesAlways, StaleAlways, TablesImplementBase, PTL DEF TablesSpec
<1>2. CASE ~PmtPidsOwned
  <2>1. SeenIsApplied
    BY <1>2 DEF SeenIsApplied
  <2> QED
    BY <2>1, PTL
<1> QED
  BY <1>1, <1>2
=============================================================================
