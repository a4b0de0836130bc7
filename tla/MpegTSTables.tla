---------------------------- MODULE MpegTSTables ----------------------------
(***************************************************************************)
(* The base class (MpegTSBase) behind its packetizer, and a multiplex that *)
(* repeats one PAT and one PMT per program for ever and changes them now   *)
(* and then.  The packetizer reports a section once and not again until    *)
(* its version changes (TsSections), so what the base class drops comes    *)
(* back only if the packetizer is told to forget it.  A table is one       *)
(* section here, which arrives whole.                                      *)
(***************************************************************************)
EXTENDS MpegTSBase

CONSTANTS
  PatPid,
  Pat,         \* the subtable of the PAT, next to those of the programs' PMTs
  Unseen,
  MaxChanges   \* how often the multiplex changes a table

ASSUME TablesAssumption ==
  /\ PatPid \in DefaultPsi \ PmtPids /\ Pat \notin Programs
  /\ MaxChanges \in Nat /\ Unseen \notin Nat
  /\ \A p \in Pats : \A i \in 1 .. Len(p) : p[i].pid \in PmtPids

VARIABLES
  wire,     \* the tables in force: their content and version
  changes,
  seen,     \* per PID and subtable the version the packetizer has seen
  dropped   \* programs that left the table and were not forgotten (history)

tableVars == <<wire, changes, seen, dropped>>
allVars == <<vars, tableVars>>
-----------------------------------------------------------------------------
Nothing == [e \in Programs \cup {Pat} |-> Unseen]

Next1(entry1, content) == [content |-> content, version |-> entry1.version + 1]

ChangePat(p) ==
  /\ changes < MaxChanges
  /\ changes' = changes + 1
  /\ wire' = [wire EXCEPT ![Pat] = Next1(@, p)]
  /\ UNCHANGED <<vars, seen, dropped>>

ChangePmt(n, t) ==
  /\ changes < MaxChanges /\ wire[n].content # t
  /\ changes' = changes + 1
  /\ wire' = [wire EXCEPT ![n] = Next1(@, t)]
  /\ UNCHANGED <<vars, seen, dropped>>

\* PID x carries the PMTs of the programs that the PAT lists there.
Carries(x, n) ==
  \E i \in 1 .. Len(wire[Pat].content) : wire[Pat].content[i] = [program_number |-> n, pid |-> x]

Marked(x, e) == [seen EXCEPT ![x][e] = wire[e].version]

\* mpegts_packetizer_remove_stream
Forgotten(x) == [seen EXCEPT ![x] = Nothing]

HearPat ==
  /\ seen[PatPid][Pat] # wire[Pat].version
  /\ ApplyPat(wire[Pat].content)
  /\ seen' = Marked(PatPid, Pat)
  /\ UNCHANGED <<wire, changes, dropped>>

\* The loops of apply_pat.  The stream of a PMT PID is removed with the program.
PatStep ==
  \/ /\ (\E s \in Slots \ live : AddNew(s)) \/ AddKnown \/ EndAdd \/ DropKept \/ EndDrop
     /\ UNCHANGED tableVars
  \/ /\ DropRemoved \/ DropStolen
     /\ seen' = Forgotten(old_pat[entry].pid)
     /\ dropped' = dropped \cup {old_pat[entry].program_number}
     /\ UNCHANGED <<wire, changes>>

NewPmt(n, x) == Idle /\ Heard(x) /\ Carries(x, n) /\ seen[x][n] # wire[n].version

TakePmt(n, x) ==
  /\ NewPmt(n, x)
  /\ ApplyPmt(n, x, wire[n].content)
  /\ seen' = Marked(x, n)
  /\ UNCHANGED <<wire, changes, dropped>>

\* The same program again, or none that the PAT listed.
SkipPmt(n, x) ==
  /\ NewPmt(n, x) /\ seen_pat
  /\ ~Starts(n, x, wire[n].content)
  /\ table[n] # Null => ~Updates(n, x, wire[n].content)
  /\ seen' = Marked(x, n)
  /\ UNCHANGED <<vars, wire, changes, dropped>>

\* mutant: the PMT is dropped and that is all
EarlyPmtKept(n, x) ==
  /\ NewPmt(n, x) /\ ~seen_pat
  /\ seen' = Marked(x, n)
  /\ UNCHANGED <<vars, wire, changes, dropped>>

\* 'remove the stream since we won't get another PMT otherwise'
EarlyPmt(n, x) ==
  /\ NewPmt(n, x) /\ ~seen_pat
  /\ seen' = Forgotten(x)
  /\ UNCHANGED <<vars, wire, changes, dropped>>

\* mpegts_packetizer_flush keeps what was seen.
FlushStopped == FlushStop /\ UNCHANGED tableVars

\* A buffer with the DISCONT flag in a TIME segment: mpegts_packetizer_clear.
Discont ==
  /\ Idle
  /\ seen' = [x \in Pids |-> Nothing]
  /\ UNCHANGED <<vars, wire, changes, dropped>>

ResetAll ==
  /\ Reset
  /\ seen' = [x \in Pids |-> Nothing] /\ dropped' = {}
  /\ UNCHANGED <<wire, changes>>

TablesInit ==
  /\ Init
  /\ \E p \in Pats, f \in [Programs -> Pmts] :
       wire = [e \in Programs \cup {Pat} |->
                 [content |-> IF e = Pat THEN p ELSE f[e], version |-> 0]]
  /\ changes = 0
  /\ seen = [x \in Pids |-> Nothing] /\ dropped = {}

HearPmt(n, x) == TakePmt(n, x) \/ SkipPmt(n, x) \/ EarlyPmt(n, x)

TablesNext ==
  \/ \E p \in Pats : ChangePat(p)
  \/ \E n \in Programs, t \in Pmts : ChangePmt(n, t)
  \/ HearPat \/ PatStep
  \/ \E n \in Programs, x \in PmtPids : HearPmt(n, x)
  \/ FlushStopped \/ Discont \/ ResetAll

TablesSpec == TablesInit /\ [][TablesNext]_allVars

\* The multiplex repeats every table, and the streaming thread takes what it is given.
TablesFairness ==
  /\ WF_allVars(HearPat) /\ WF_allVars(PatStep)
  /\ \A n \in Programs, x \in PmtPids : WF_allVars(HearPmt(n, x))
-----------------------------------------------------------------------------
Listings(p) == {p[i] : i \in 1 .. Len(p)}

\* A PMT PID is never given to another program; a program may move to a new one.
PmtPidsOwned ==
  \A e, f \in UNION {Listings(p) : p \in Pats} :
     e.pid = f.pid => e.program_number = f.program_number

IsApplied(n) ==
  /\ table[n] # Null
  /\ program[table[n]].active /\ program[table[n]].pmt = wire[n].content

\* The two caches agree: when the packetizer will not report a PMT again because it was seen,
\* the base class has applied it.  Not so for a program that the PAT dropped and lists again:
\* its PMT PID is still listened to, so its PMT may come before the PAT and is used up.
SeenIsApplied ==
  Idle /\ PmtPidsOwned =>
    \A n \in Programs \ dropped, x \in PmtPids :
       seen[x][n] = wire[n].version /\ seen[PatPid][Pat] = wire[Pat].version /\ Carries(x, n)
         => IsApplied(n)

\* While no PMT PID is given to another program, the PMTs of every program in the PAT reach
\* the section parser.
PmtsHeard ==
  Idle /\ PmtPidsOwned => \A e \in Listings(pat) : Heard(e.pid)

\* Once the multiplex rests and no flush makes the base class wait for a PAT, every program
\* that was not dropped before plays what its PMT says.
TablesApplied ==
  PmtPidsOwned /\ <>[](seen_pat /\ Idle /\ pat = wire[Pat].content)
     => <>[](\A n \in Programs \ dropped : (\E x \in PmtPids : Carries(x, n)) => IsApplied(n))
=============================================================================
