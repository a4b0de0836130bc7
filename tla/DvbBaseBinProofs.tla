-------------------------- MODULE DvbBaseBinProofs --------------------------
(***************************************************************************)
(* Theorems about DvbBaseBin, for any number of programs and PIDs, any     *)
(* PATs and PMTs: the list of PMTs holds exactly the PMTs of the active    *)
(* programs; the CAM is told that list unless it was touched during the    *)
(* walk, a CA PMT got lost or the CAM was reopened; no stream has fewer    *)
(* references than are relied on, and what the selected programs need is   *)
(* filtered.                                                               *)
(***************************************************************************)
EXTENDS DvbBaseBin, FiniteSetTheorems, SequenceTheorems, TLAPS

(* Lists *)

\* A list without its i-th entry.
LEMMA WithoutType ==
  ASSUME NEW S, NEW s \in Seq(S), NEW i \in 1..Len(s)
  PROVE  /\ Without(s, i) \in Seq(S) /\ Len(Without(s, i)) = Len(s) - 1
         /\ \A j \in 1..(Len(s) - 1) :
               Without(s, i)[j] = IF j < i THEN s[j] ELSE s[j + 1]
<1>1. Len(s) \in Nat /\ \A j \in 1..(Len(s) - 1) : j \in 1..Len(s) /\ j + 1 \in 1..Len(s)
  BY LenProperties
<1>2. \A j \in 1..(Len(s) - 1) : (IF j < i THEN s[j] ELSE s[j + 1]) \in S
  BY <1>1, ElementOfSeq
<1>3. Without(s, i) \in [1..(Len(s) - 1) -> S]
  BY <1>2 DEF Without
<1>4. Len(s) - 1 \in Nat
  BY <1>1
<1>5. QED
  BY <1>3, <1>4 DEF Without

\* Removing an entry other than m neither removes m nor duplicates it.
LEMMA WithoutKeeps ==
  ASSUME NEW S, NEW s \in Seq(S), NEW i \in 1..Len(s), NEW m, s[i] # m
  PROVE  /\ On(m, Without(s, i)) <=> On(m, s)
         /\ Once(m, s) => Once(m, Without(s, i))
<1> DEFINE w == Without(s, i)
<1>1. Len(s) \in Nat /\ Len(w) = Len(s) - 1
      /\ \A j \in 1..Len(w) : w[j] = IF j < i THEN s[j] ELSE s[j + 1]
  BY WithoutType, LenProperties
<1> HIDE DEF w
<1>2. ASSUME NEW j \in 1..Len(w), w[j] = m PROVE \E k \in 1..Len(s) : s[k] = m
  BY <1>1, <1>2
<1>3. ASSUME NEW k \in 1..Len(s), s[k] = m PROVE \E j \in 1..Len(w) : w[j] = m
  <2>1. CASE k < i
    BY <1>1, <1>3, <2>1
  <2>2. CASE k > i
    <3>1. k - 1 \in 1..Len(w) /\ w[k - 1] = s[k]
      BY <1>1, <2>2
    <3>2. QED
      BY <1>3, <3>1
  <2>3. QED
    BY <1>1, <1>3, <2>1, <2>2
<1>4. ASSUME \A j, k \in 1..Len(s) : s[j] = m /\ s[k] = m => j = k,
             NEW j \in 1..Len(w), NEW k \in 1..Len(w), w[j] = m, w[k] = m
      PROVE  j = k
  <2> DEFINE old(x) == IF x < i THEN x ELSE x + 1
  <2>1. old(j) \in 1..Len(s) /\ old(k) \in 1..Len(s) /\ s[old(j)] = m /\ s[old(k)] = m
    BY <1>1, <1>4
  <2>2. old(j) = old(k)
    BY <1>4, <2>1
  <2>3. QED
    BY <1>1, <2>2
<1>5. QED
  BY <1>2, <1>3, <1>4 DEF w, On, Once

\* Appending e puts it on the list, only once if it was not there, and nothing else.
LEMMA AppendedOn ==
  ASSUME NEW S, NEW s \in Seq(S), NEW e \in S, NEW m
  PROVE  /\ On(m, Append(s, e)) <=> (On(m, s) \/ m = e)
         /\ Once(m, s) /\ (m = e => ~On(e, s)) => Once(m, Append(s, e))
<1> DEFINE w == Append(s, e)
<1>1. /\ Len(s) \in Nat /\ Len(w) = Len(s) + 1 /\ w[Len(s) + 1] = e
      /\ \A j \in 1..Len(s) : w[j] = s[j]
  BY AppendProperties, LenProperties
<1> HIDE DEF w
<1>2. \A j \in 1..Len(w) : j \in 1..Len(s) \/ j = Len(s) + 1
  BY <1>1
<1>3. On(m, s) => On(m, w)
  BY <1>1 DEF On
<1>4. On(e, w)
  BY <1>1 DEF On
<1>5. On(m, w) => On(m, s) \/ m = e
  BY <1>1, <1>2 DEF On
<1>6. ASSUME Once(m, s), m = e => ~On(e, s),
             NEW j \in 1..Len(w), NEW k \in 1..Len(w), w[j] = m, w[k] = m
      PROVE  j = k
  <2>1. CASE m = e
    BY <1>1, <1>2, <1>6, <2>1 DEF On
  <2>2. CASE m # e
    BY <1>1, <1>2, <1>6, <2>2 DEF Once
  <2>3. QED
    BY <2>1, <2>2
<1>7. Once(m, s) /\ (m = e => ~On(e, s)) => Once(m, w)
  BY <1>6 DEF Once
<1>8. QED
  BY <1>3, <1>4, <1>5, <1>7 DEF w

\* Deleting the only node that holds an entry takes the entry off the list.
LEMMA WithoutRemoves ==
  ASSUME NEW S, NEW s \in Seq(S), NEW i \in 1..Len(s), Once(s[i], s)
  PROVE  ~On(s[i], Without(s, i))
<1> DEFINE w == Without(s, i)
<1>1. Len(s) \in Nat /\ Len(w) = Len(s) - 1
      /\ \A j \in 1..Len(w) : w[j] = IF j < i THEN s[j] ELSE s[j + 1]
  BY WithoutType, LenProperties
<1> HIDE DEF w
<1>2. \A k \in 1..Len(s) : s[k] = s[i] => k = i
  BY DEF Once
<1>3. ASSUME NEW j \in 1..Len(w), w[j] = s[i] PROVE FALSE
  <2>1. CASE j < i
    BY <1>1, <1>2, <1>3, <2>1
  <2>2. CASE ~(j < i)
    <3>1. j + 1 \in 1..Len(s) /\ s[j + 1] = s[i]
      BY <1>1, <1>3, <2>2
    <3>2. j + 1 = i
      BY <1>2, <3>1
    <3>3. QED
      BY <1>1, <2>2, <3>2
  <2>3. QED
    BY <2>1, <2>2
<1>4. QED
  BY <1>3 DEF w, On
-----------------------------------------------------------------------------
\* The streaming thread handles one PMT at a time, of a selected program, and the CAM task
\* keeps no node of the list between two walks.
Handling ==
  /\ handler = "idle" <=> updating = {}
  /\ \A p, q \in updating : p = q
  /\ updating \subseteq selected
  /\ handler = "publish" => updating \subseteq pmt_active
  /\ \A p \in active \cup updating : pmt[p] \in Pmts
  /\ task # "walk" => walk = "head"
  /\ state = "READY" => task = "stopped"
  /\ task = "walk" => pmtlist_changed
  /\ pmtlist_changed => active # {}

ListInv == TypeOK /\ ListMatchesPrograms /\ Handling

-----------------------------------------------------------------------------
(* Reference counts and Next *)

\* Releasing and taking references keeps the counts natural numbers.
LEMMA CountTypes ==
  ASSUME NEW count \in [AllPids -> Nat]
  PROVE  /\ \A m : WithoutStreams(count, m) \in [AllPids -> Nat]
         /\ \A m : WithStreams(count, m) \in [AllPids -> Nat]
         /\ \A p, m : PcrMoved(count, p, m) \in [AllPids -> Nat]
         /\ \A p : WithPmtPid(count, p) \in [AllPids -> Nat]
<1>1. \A c : One(c) \in Nat
  BY DEF One
<1>2. \A c, n \in Nat : Unref(c, n) \in Nat
  BY DEF Unref
<1>3. \A m : WithoutStreams(count, m) \in [AllPids -> Nat]
  BY <1>1, <1>2 DEF WithoutStreams
<1>4. \A m : WithStreams(count, m) \in [AllPids -> Nat]
  BY <1>1 DEF WithStreams
<1>5. ASSUME NEW p, NEW m PROVE PcrMoved(count, p, m) \in [AllPids -> Nat]
  <2>1. ASSUME NEW x \in AllPids
        PROVE  Unref(count[x], One(x # NoPid /\ x = pcr_pid[p] /\ x # m.pcr)) + One(x = m.pcr)
                 \in Nat
    <3>1. One(x # NoPid /\ x = pcr_pid[p] /\ x # m.pcr) \in Nat /\ One(x = m.pcr) \in Nat
      BY <1>1
    <3>2. Unref(count[x], One(x # NoPid /\ x = pcr_pid[p] /\ x # m.pcr)) \in Nat
      BY <1>2, <3>1
    <3>3. QED
      BY <3>1, <3>2
  <2>2. QED
    BY <2>1 DEF PcrMoved
<1>6. \A p : WithPmtPid(count, p) \in [AllPids -> Nat]
  BY <1>1 DEF WithPmtPid
<1>7. QED
  BY <1>3, <1>4, <1>5, <1>6

\* A PAT leaves the counts natural numbers and the PMT PIDs well typed.
LEMMA PatTypes ==
  ASSUME TypeOK, NEW pat \in Pats, PatInfo(pat)
  PROVE  /\ usecount' \in [AllPids -> Nat] /\ filter' \subseteq AllPids
         /\ pmt_pid' \in [Programs -> AllPids] /\ selected' \subseteq known'
         /\ known' \subseteq Programs
<1> DEFINE mine == DOMAIN pat \cap selected
           left(x) == {p \in mine : x # NoPid /\ x = pmt_pid[p] /\ x # pat[p]}
           taken(x) == {p \in mine : x = pat[p]}
<1>1. DOMAIN pat \subseteq Programs /\ \A p \in DOMAIN pat : pat[p] \in AllPids
  BY BaseBinAssumption DEF AllPids
<1>2. \A x : left(x) \subseteq Programs /\ taken(x) \subseteq Programs
  BY <1>1
<1>3. \A S : S \subseteq Programs => Cardinality(S) \in Nat
  BY BaseBinAssumption, FS_Subset, FS_CardinalityType
<1>4. \A x : Cardinality(left(x)) \in Nat /\ Cardinality(taken(x)) \in Nat
  BY <1>2, <1>3
<1>5. \A c, n \in Nat : Unref(c, n) \in Nat
  BY DEF Unref
<1>6. usecount' = [x \in AllPids |->
                     Unref(usecount[x], Cardinality(left(x))) + Cardinality(taken(x))]
      /\ filter' = IF mine # {} THEN Filtered(usecount') ELSE filter
  BY DEF PatInfo
<1>7. usecount \in [AllPids -> Nat] /\ filter \subseteq AllPids
  BY DEF TypeOK
<1>8. usecount' \in [AllPids -> Nat]
  <2> HIDE DEF left, taken
  <2>1. \A x \in AllPids :
          Unref(usecount[x], Cardinality(left(x))) + Cardinality(taken(x)) \in Nat
    <3> SUFFICES ASSUME NEW x \in AllPids
                 PROVE  Unref(usecount[x], Cardinality(left(x))) + Cardinality(taken(x)) \in Nat
      OBVIOUS
    <3>1. usecount[x] \in Nat /\ Cardinality(left(x)) \in Nat /\ Cardinality(taken(x)) \in Nat
      BY <1>4, <1>7
    <3>2. Unref(usecount[x], Cardinality(left(x))) \in Nat
      BY <1>5, <3>1
    <3>3. QED
      BY <3>1, <3>2
  <2>2. QED
    BY <1>6, <2>1
<1>9. filter' \subseteq AllPids
  BY <1>6, <1>7 DEF Filtered
<1>10. pmt_pid' \in [Programs -> AllPids] /\ selected' \subseteq known' /\ known' \subseteq Programs
  BY <1>1 DEF PatInfo, TypeOK
<1>11. QED
  BY <1>8, <1>9, <1>10

\* The budget stays well typed.
LEMMA SpendType ==
  ASSUME TypeOK, NEW what \in {"sections", "faults", "restarts"}, Spend(what)
  PROVE  budget' \in [{"sections", "faults", "restarts"} -> Nat]
  BY DEF TypeOK, Spend

\* A CA PMT for a node of the list.
LEMMA CaPmtType ==
  ASSUME ListInv, NEW i \in 1..Len(pmtlist)
  PROVE  pmtlist[i] \in Programs /\ CaPmtAt(i) \in CaPmt
<1>1. pmtlist[i] \in Programs
  BY ElementOfSeq DEF ListInv, TypeOK
<1>2. On(pmtlist[i], pmtlist)
  BY DEF On
<1>3. pmt[pmtlist[i]] \in Pmts
  BY <1>1, <1>2 DEF ListInv, ListMatchesPrograms, Handling
<1>4. FlagAt(i) \in Flag
  BY DEF FlagAt, Flag
<1>5. QED
  BY <1>1, <1>3, <1>4 DEF CaPmtAt, CaPmt

\* What Unlinked leaves.
LEMMA UnlinkedList ==
  ASSUME pmtlist \in Seq(Programs), NEW p \in Programs, Once(p, pmtlist), Unlinked(p)
  PROVE  /\ pmtlist' \in Seq(Programs) /\ ~On(p, pmtlist')
         /\ \A q \in Programs \ {p} :
              /\ On(q, pmtlist') <=> On(q, pmtlist)
              /\ Once(q, pmtlist) => Once(q, pmtlist')
<1>1. CASE ~On(p, pmtlist) /\ UNCHANGED pmtlist
  BY <1>1
<1>2. CASE \E i \in 1..Len(pmtlist) : pmtlist[i] = p /\ pmtlist' = Without(pmtlist, i)
  <2>1. PICK i \in 1..Len(pmtlist) : pmtlist[i] = p /\ pmtlist' = Without(pmtlist, i)
    BY <1>2
  <2>2. pmtlist' \in Seq(Programs)
    BY <2>1, WithoutType
  <2>3. ~On(p, pmtlist')
    BY <2>1, WithoutRemoves
  <2>4. ASSUME NEW q \in Programs \ {p}
        PROVE  /\ On(q, pmtlist') <=> On(q, pmtlist)
               /\ Once(q, pmtlist) => Once(q, pmtlist')
    BY <2>1, WithoutKeeps
  <2>5. QED
    BY <2>2, <2>3, <2>4
<1>3. QED
  BY <1>1, <1>2 DEF Unlinked

-----------------------------------------------------------------------------
(* The list matches the programs *)

LEMMA TypeStep == ListInv /\ [Next]_vars => TypeOK'
<1> SUFFICES ASSUME ListInv, [Next]_vars PROVE TypeOK'
  OBVIOUS
<1> USE DEF ListInv
<1>1. CASE \E pat \in Pats : PatInfo(pat)
  <2>1. PICK pat \in Pats : PatInfo(pat)
    BY <1>1
  <2>2. budget' \in [{"sections", "faults", "restarts"} -> Nat]
    BY <2>1, SpendType DEF PatInfo, Streaming
  <2>3. /\ usecount' \in [AllPids -> Nat] /\ filter' \subseteq AllPids
        /\ pmt_pid' \in [Programs -> AllPids] /\ selected' \subseteq known'
        /\ known' \subseteq Programs
    BY <2>1, PatTypes
  <2>4. UNCHANGED <<selected, pcr_pid, pmt, pmt_active, active, listVars, handlerVars, state,
                    camVars, missed>>
    BY <2>1 DEF PatInfo
  <2>5. QED
    BY <2>2, <2>3, <2>4 DEF TypeOK, listVars, handlerVars, camVars
<1>2. CASE \E p \in Programs, m \in Pmts : PmtStored(p, m)
  <2>1. PICK p \in Programs, m \in Pmts : PmtStored(p, m)
    BY <1>2
  <2>2. budget' \in [{"sections", "faults", "restarts"} -> Nat]
    BY <2>1, SpendType DEF PmtStored, Streaming
  <2>3. pmt' \in [Programs -> Pmts \cup {NoPmt}]
    BY <2>1 DEF PmtStored, TypeOK
  <2>4. QED
    BY <2>1, <2>2, <2>3 DEF PmtStored, TypeOK, streamVars, listVars, handlerVars, camVars
<1>3. CASE \E p \in Programs, m \in Pmts : PmtInfo(p, m)
  <2>1. PICK p \in Programs, m \in Pmts : PmtInfo(p, m)
    BY <1>3
  <2>2. budget' \in [{"sections", "faults", "restarts"} -> Nat]
    BY <2>1, SpendType DEF PmtInfo, Streaming
  <2>3. pmt' \in [Programs -> Pmts \cup {NoPmt}]
    BY <2>1 DEF PmtInfo, TypeOK
  <2>4. usecount' \in [AllPids -> Nat]
    BY <2>1, CountTypes DEF PmtInfo, TypeOK
  <2>5. pmtlist' \in Seq(Programs)
    BY <2>1, UnlinkedList DEF PmtInfo, TypeOK, ListMatchesPrograms
  <2>6. walk' \in Position /\ missed' \in BOOLEAN
    BY <2>1 DEF PmtInfo, TypeOK, Position
  <2>7. QED
    BY <2>1, <2>2, <2>3, <2>4, <2>5, <2>6 DEF PmtInfo, TypeOK
<1>4. CASE \E p \in Programs : Activate(p)
  <2>1. PICK p \in Programs : Activate(p)
    BY <1>4
  <2>2. usecount' \in [AllPids -> Nat]
    BY <2>1, CountTypes DEF Activate, TypeOK
  <2>3. p \in selected /\ pmt[p] \in Pmts
    BY <2>1 DEF Activate, Handling
  <2>4. pcr_pid' \in [Programs -> AllPids]
    BY <2>1, <2>3, BaseBinAssumption DEF Activate, TypeOK, AllPids
  <2>5. pmtlist' \in Seq(Programs)
    BY <2>1, AppendProperties DEF Activate, TypeOK
  <2>6. pmt_active' \subseteq selected' /\ active' \subseteq pmt_active'
    BY <2>1, <2>3 DEF Activate, TypeOK
  <2>7. missed' \in BOOLEAN
    BY <2>1 DEF Activate, TypeOK
  <2>8. QED
    BY <2>1, <2>2, <2>4, <2>5, <2>6, <2>7 DEF Activate, TypeOK, camVars
<1>5. CASE Publish
  <2>1. active' \subseteq pmt_active'
    BY <1>5 DEF Publish, TypeOK, Handling
  <2>2. filter' \subseteq AllPids
    BY <1>5 DEF Publish, Filtered
  <2>3. QED
    BY <1>5, <2>1, <2>2 DEF Publish, TypeOK, camVars
<1>6. CASE TaskBegins \/ TaskStops \/ TaskPolls \/ StartWalk \/ EndWalk
  BY <1>6 DEF TaskBegins, TaskStops, TaskPolls, StartWalk, EndWalk, TypeOK, programVars,
     streamVars, listVars, handlerVars, Position
<1>7. CASE \E i \in 1..Len(pmtlist) : SendPmt(i)
  <2>1. PICK i \in 1..Len(pmtlist) : SendPmt(i)
    BY <1>7
  <2>2. pmtlist[i] \in Programs /\ CaPmtAt(i) \in CaPmt
    BY CaPmtType
  <2>3. walk' \in Position
    BY <2>1, <2>2 DEF SendPmt, Position
  <2>4. told' \in Seq(CaPmt)
    <3>1. <<CaPmtAt(i)>> \in Seq(CaPmt) /\ Append(told, CaPmtAt(i)) \in Seq(CaPmt)
      BY <2>2, AppendProperties DEF TypeOK
    <3> DEFINE pdu == CaPmtAt(i)
    <3> HIDE DEF pdu
    <3>2. told' \in {<<pdu>>, Append(told, pdu), told}
      BY <2>1 DEF SendPmt, pdu
    <3>3. QED
      BY <3>1, <3>2 DEF TypeOK, pdu
  <2>5. missed' \in BOOLEAN /\ budget' \in [{"sections", "faults", "restarts"} -> Nat]
    BY <2>1, SpendType DEF SendPmt, TypeOK
  <2>6. QED
    BY <2>1, <2>3, <2>4, <2>5
    DEF SendPmt, TypeOK, programVars, streamVars, listVars, handlerVars
<1>8. CASE \E ps \in SUBSET Programs : SetProgramNumbers(ps)
  BY <1>8 DEF SetProgramNumbers, TypeOK, streamVars, listVars, handlerVars, camVars
<1>9. CASE ReadyToPaused
  <2>1. budget' \in [{"sections", "faults", "restarts"} -> Nat]
    BY <1>9, SpendType DEF ReadyToPaused
  <2>2. QED
    BY <1>9, <2>1
    DEF ReadyToPaused, TypeOK, programVars, streamVars, listVars, handlerVars
<1>10. CASE PausedToReady \/ Reset
  <2>1. told' \in Seq(CaPmt)
    <3>1. told' = told \/ told' = <<>>
      BY <1>10 DEF PausedToReady, Reset, camVars
    <3>2. told \in Seq(CaPmt) /\ <<>> \in Seq(CaPmt)
      BY DEF TypeOK
    <3>3. QED
      BY <3>1, <3>2, Zenon
  <2>2. missed' \in BOOLEAN
    BY <1>10 DEF PausedToReady, Reset, TypeOK
  <2>3. CASE PausedToReady
    BY <2>1, <2>2, <2>3 DEF PausedToReady, TypeOK, programVars, streamVars, listVars,
       handlerVars, camVars
  <2>4. CASE Reset
    BY <2>1, <2>2, <2>4 DEF Reset, TypeOK, programVars, streamVars, listVars, handlerVars
  <2>5. QED
    BY <1>10, <2>3, <2>4
<1>11. CASE UNCHANGED vars
  BY <1>11 DEF vars, TypeOK, programVars, streamVars, listVars, handlerVars, camVars
<1>12. QED
  BY <1>1, <1>2, <1>3, <1>4, <1>5, <1>6, <1>7, <1>8, <1>9, <1>10, <1>11
  DEF Next, StreamingThread, CamTask, User

\* The steps of the CAM task and of the application, and the two that handle no PMT of a
\* selected program, leave the list and the program being handled alone.
LEMMA OtherSteps ==
  ASSUME ListInv, [Next]_vars
  PROVE  \/ \E p \in Programs, m \in Pmts : PmtInfo(p, m)
         \/ \E p \in Programs : Activate(p)
         \/ Publish
         \/ /\ UNCHANGED <<pmtlist, active, updating, handler, pmt_active>>
            /\ selected \subseteq selected'
            /\ \A p \in selected : pmt'[p] = pmt[p]
            /\ task' # "walk" => walk' = "head"
            /\ state' = "READY" => task' = "stopped"
            /\ task' = "walk" => pmtlist_changed'
            /\ pmtlist_changed' => pmtlist_changed
<1> USE DEF ListInv, Handling, vars, programVars, streamVars, listVars, handlerVars, camVars
<1>1. CASE \E pat \in Pats : PatInfo(pat)
  BY <1>1 DEF PatInfo
<1>2. CASE \E p \in Programs, m \in Pmts : PmtStored(p, m)
  BY <1>2 DEF PmtStored, TypeOK
<1>3. CASE TaskBegins \/ TaskStops \/ TaskPolls \/ StartWalk \/ EndWalk
  BY <1>3 DEF TaskBegins, TaskStops, TaskPolls, StartWalk, EndWalk
<1>4. CASE \E i \in 1..Len(pmtlist) : SendPmt(i)
  BY <1>4 DEF SendPmt
<1>5. CASE \E ps \in SUBSET Programs : SetProgramNumbers(ps)
  BY <1>5 DEF SetProgramNumbers
<1>6. CASE ReadyToPaused \/ PausedToReady \/ Reset
  BY <1>6 DEF ReadyToPaused, PausedToReady, Reset
<1>7. CASE UNCHANGED vars
  BY <1>7
<1>8. QED
  BY <1>1, <1>2, <1>3, <1>4, <1>5, <1>6, <1>7 DEF Next, StreamingThread, CamTask, User

LEMMA HandlingStep == ListInv /\ [Next]_vars => Handling'
<1> SUFFICES ASSUME ListInv, [Next]_vars PROVE Handling'
  OBVIOUS
<1> USE DEF ListInv
<1>1. CASE \E p \in Programs, m \in Pmts : PmtInfo(p, m)
  <2>1. PICK p \in Programs, m \in Pmts : PmtInfo(p, m)
    BY <1>1
  <2>2. pmt' = [pmt EXCEPT ![p] = m] /\ updating' = {p} /\ updating = {} /\ p \in selected
    BY <2>1 DEF PmtInfo, Streaming, Handling
  <2>3. \A q \in active' \cup updating' : pmt'[q] \in Pmts
    BY <2>1, <2>2 DEF PmtInfo, Handling, TypeOK
  <2>4. state = "PAUSED" /\ state' = state
    BY <2>1 DEF PmtInfo, Streaming
  <2>5. task' # "walk" => walk' = "head"
    <3>1. task' = task /\ walk' = IF walk = p THEN "freed" ELSE walk
      BY <2>1 DEF PmtInfo
    <3>2. p # "head"
      BY BaseBinAssumption
    <3>3. QED
      BY <3>1, <3>2 DEF Handling
  <2>6. QED
    BY <2>1, <2>2, <2>3, <2>4, <2>5 DEF PmtInfo, Handling
<1>2. CASE \E p \in Programs : Activate(p)
  BY <1>2 DEF Activate, Handling, camVars
<1>3. CASE Publish
  BY <1>3 DEF Publish, Handling, camVars
<1>4. CASE /\ UNCHANGED <<pmtlist, active, updating, handler, pmt_active>>
           /\ selected \subseteq selected'
           /\ \A p \in selected : pmt'[p] = pmt[p]
           /\ task' # "walk" => walk' = "head"
           /\ state' = "READY" => task' = "stopped"
           /\ task' = "walk" => pmtlist_changed'
           /\ pmtlist_changed' => pmtlist_changed
  <2>1. \A p \in active \cup updating : pmt'[p] \in Pmts
    BY <1>4 DEF Handling, TypeOK
  <2>2. QED
    BY <1>4, <2>1 DEF Handling
<1>5. QED
  BY <1>1, <1>2, <1>3, <1>4, OtherSteps

LEMMA MatchStep == ListInv /\ [Next]_vars => ListMatchesPrograms'
<1> SUFFICES ASSUME ListInv, [Next]_vars, NEW q \in Programs
             PROVE  /\ Once(q, pmtlist')
                    /\ On(q, pmtlist') <=>
                         q \in (active' \cup updating') /\ ~(handler' = "activate" /\ q \in updating')
  BY DEF ListMatchesPrograms, Between
<1>0. /\ Once(q, pmtlist)
      /\ On(q, pmtlist) <=> q \in (active \cup updating) /\ ~(handler = "activate" /\ q \in updating)
  BY DEF ListInv, ListMatchesPrograms, Between
<1> USE DEF ListInv
<1>1. CASE \E p \in Programs, m \in Pmts : PmtInfo(p, m)
  <2>1. PICK p \in Programs, m \in Pmts : PmtInfo(p, m)
    BY <1>1
  <2>2. /\ Unlinked(p) /\ handler' = "activate" /\ updating' = {p} /\ active' = active
        /\ handler = "idle" /\ updating = {}
    BY <2>1 DEF PmtInfo, Streaming, Handling
  <2>3. pmtlist \in Seq(Programs) /\ Once(p, pmtlist)
    BY DEF TypeOK, ListMatchesPrograms
  <2>4. CASE q = p
    <3>1. ~On(p, pmtlist')
      BY <2>2, <2>3, UnlinkedList
    <3>2. Once(p, pmtlist')
      BY <3>1 DEF On, Once
    <3>3. QED
      BY <2>2, <2>4, <3>1, <3>2
  <2>5. CASE q # p
    <3>1. (On(q, pmtlist') <=> On(q, pmtlist)) /\ (Once(q, pmtlist) => Once(q, pmtlist'))
      BY <2>2, <2>3, <2>5, UnlinkedList
    <3>2. QED
      BY <1>0, <2>2, <2>5, <3>1
  <2>6. QED
    BY <2>4, <2>5
<1>2. CASE \E p \in Programs : Activate(p)
  <2>1. PICK p \in Programs : Activate(p)
    BY <1>2
  <2>2. /\ handler = "activate" /\ p \in updating /\ updating = {p}
        /\ handler' = "publish" /\ updating' = updating /\ active' = active
        /\ pmtlist' = Append(pmtlist, p)
    BY <2>1 DEF Activate, Handling
  <2>3. ~On(p, pmtlist) /\ pmtlist \in Seq(Programs)
    BY <2>2 DEF ListMatchesPrograms, Between, TypeOK
  <2>4. /\ On(q, pmtlist') <=> (On(q, pmtlist) \/ q = p)
        /\ Once(q, pmtlist) /\ (q = p => ~On(p, pmtlist)) => Once(q, pmtlist')
    BY <2>2, <2>3, AppendedOn
  <2>5. QED
    BY <1>0, <2>2, <2>3, <2>4
<1>3. CASE Publish
  BY <1>0, <1>3 DEF Publish
<1>4. CASE UNCHANGED <<pmtlist, active, updating, handler, pmt_active>>
  BY <1>0, <1>4
<1>5. QED
  BY <1>1, <1>2, <1>3, <1>4, OtherSteps

LEMMA ListInit == Init => ListInv
<1> SUFFICES ASSUME Init PROVE ListInv
  OBVIOUS
<1>1. /\ usecount \in [AllPids -> Nat] /\ filter \subseteq AllPids
      /\ pmt_pid \in [Programs -> AllPids] /\ pcr_pid \in [Programs -> AllPids]
      /\ pmt \in [Programs -> Pmts \cup {NoPmt}]
  BY BaseBinAssumption DEF Init, AllPids, One
<1>2. pmtlist \in Seq(Programs) /\ told \in Seq(CaPmt)
  BY DEF Init
<1>3. budget \in [{"sections", "faults", "restarts"} -> Nat]
  BY BaseBinAssumption DEF Init
<1>4. TypeOK
  BY <1>1, <1>2, <1>3 DEF Init, TypeOK, Position
<1>5. ListMatchesPrograms
  BY DEF Init, ListMatchesPrograms, On, Once, Between
<1>6. Handling
  BY DEF Init, Handling
<1>7. QED
  BY <1>4, <1>5, <1>6 DEF ListInv

\* Whoever walks the list and whenever: it holds the PMTs of exactly the active programs,
\* each once, for any number of programs and any PATs and PMTs.
THEOREM ListMatches == Spec => [](TypeOK /\ ListMatchesPrograms)
<1>1. ListInv /\ [Next]_vars => ListInv'
  BY TypeStep, MatchStep, HandlingStep DEF ListInv
<1>2. ListInv => TypeOK /\ ListMatchesPrograms
  BY DEF ListInv
<1>3. QED
  BY <1>1, <1>2, ListInit, PTL DEF Spec

\* Every variable keeps its type; the count of a stream never goes below zero.
THEOREM BinTypes == Spec => []TypeOK
BY ListMatches, PTL

-----------------------------------------------------------------------------
(* The CAM follows the list *)

\* What is wanted does not change while the list and the PMTs on it do not.
LEMMA WantedStays ==
  ASSUME pmtlist' = pmtlist, NEW n \in 0..Len(pmtlist), Len(pmtlist) \in Nat,
         \A i \in 1..Len(pmtlist) : pmt'[pmtlist[i]] = pmt[pmtlist[i]]
  PROVE  Wanted(n)' = Wanted(n)
<1>1. \A i \in 1..n : CaPmtAt(i)' = CaPmtAt(i)
  BY DEF CaPmtAt, FlagAt
<1>2. QED
  BY <1>1 DEF Wanted

\* The entries of the list are selected programs.
LEMMA ListedSelected ==
  ASSUME ListInv
  PROVE  /\ Len(pmtlist) \in Nat
         /\ \A i \in 1..Len(pmtlist) : pmtlist[i] \in selected
         /\ \A i, j \in 1..Len(pmtlist) : pmtlist[i] = pmtlist[j] => i = j
<1>1. pmtlist \in Seq(Programs) /\ Len(pmtlist) \in Nat
  BY LenProperties DEF ListInv, TypeOK
<1>2. \A i \in 1..Len(pmtlist) : pmtlist[i] \in Programs /\ On(pmtlist[i], pmtlist)
  BY <1>1, ElementOfSeq DEF On
<1>3. \A i \in 1..Len(pmtlist) : pmtlist[i] \in selected
  BY <1>2 DEF ListInv, ListMatchesPrograms, Handling, TypeOK
<1>4. \A i, j \in 1..Len(pmtlist) : pmtlist[i] = pmtlist[j] => i = j
  BY <1>2 DEF ListInv, ListMatchesPrograms, Once
<1>5. QED
  BY <1>1, <1>3, <1>4

\* Nothing the CAM is told, and nothing it should be told, changes.
LEMMA FollowFrame ==
  ASSUME ListInv, CamFollowsList,
         UNCHANGED <<pmtlist, pmtlist_changed, walk, told, missed>>,
         handler' = "idle" => handler = "idle", task' = "walk" <=> task = "walk",
         \A p \in selected : pmt'[p] = pmt[p]
  PROVE  CamFollowsList'
<1>1. \A n \in 0..Len(pmtlist) : Wanted(n)' = Wanted(n)
  <2>1. \A i \in 1..Len(pmtlist) : pmt'[pmtlist[i]] = pmt[pmtlist[i]]
    BY ListedSelected
  <2>2. QED
    BY <2>1, ListedSelected, WantedStays
<1>2. \A n \in 1..Len(pmtlist) : n \in 0..Len(pmtlist)
  BY ListedSelected
<1>3. Len(pmtlist) \in 0..Len(pmtlist)
  BY ListedSelected
<1>4. ASSUME ~missed', task' = "walk"
      PROVE  walk' = "head" \/ \E n \in 1..Len(pmtlist') : walk' = pmtlist'[n] /\ told' = Wanted(n)'
  BY <1>1, <1>2, <1>4 DEF CamFollowsList
<1>5. ASSUME ~missed', task' # "walk", ~pmtlist_changed', handler' = "idle"
      PROVE  told' = Wanted(Len(pmtlist))'
  <2>1. told = Wanted(Len(pmtlist))
    BY <1>5 DEF CamFollowsList
  <2>2. QED
    BY <1>1, <1>3, <2>1
<1>6. QED
  BY <1>4, <1>5 DEF CamFollowsList

\* The task sends the next CA PMT of the list.
LEMMA FollowSend ==
  ASSUME ListInv, CamFollowsList, NEW i \in 1..Len(pmtlist), SendPmt(i)
  PROVE  CamFollowsList'
<1> DEFINE pdu == CaPmtAt(i)
<1>1. /\ task' = "walk" /\ pmtlist' = pmtlist /\ walk' = pmtlist[i] /\ pmt' = pmt
      /\ task = "walk" /\ i \in Following
  BY DEF SendPmt, programVars, listVars
<1>2. \A n \in 0..Len(pmtlist) : Wanted(n)' = Wanted(n)
  BY <1>1, ListedSelected, WantedStays
<1>3. ASSUME ~missed' PROVE told' = Wanted(i)
  <2>1. /\ ~missed
        /\ told' = IF pdu.flag \in {"ONLY", "FIRST"} THEN <<pdu>> ELSE Append(told, pdu)
    BY <1>3 DEF SendPmt
  <2>2. pdu.flag = FlagAt(i) /\ Len(pmtlist) \in Nat
    BY ListedSelected DEF CaPmtAt
  <2>3. CASE i = 1
    <3>1. told' = <<pdu>>
      BY <2>1, <2>2, <2>3 DEF FlagAt
    <3>2. Wanted(1) = <<CaPmtAt(1)>>
      BY DEF Wanted
    <3>3. QED
      BY <2>3, <3>1, <3>2
  <2>4. CASE i # 1
    <3>1. walk # "freed"
      <4>1. walk = "head" \/ \E n \in 1..Len(pmtlist) : walk = pmtlist[n]
        BY <1>1, <2>1 DEF CamFollowsList
      <4>2. \A n \in 1..Len(pmtlist) : pmtlist[n] \in Programs
        BY ListedSelected DEF ListInv, TypeOK
      <4>3. QED
        BY <4>1, <4>2, BaseBinAssumption
    <3>2. walk = pmtlist[i - 1] /\ i - 1 \in 1..Len(pmtlist)
      BY <1>1, <2>2, <2>4, <3>1 DEF Following
    <3>3. walk # "head"
      BY <3>2, ListedSelected, BaseBinAssumption DEF ListInv, TypeOK
    <3>4. PICK n \in 1..Len(pmtlist) : walk = pmtlist[n] /\ told = Wanted(n)
      BY <1>1, <2>1, <3>3 DEF CamFollowsList
    <3>5. n = i - 1
      BY <3>2, <3>4, ListedSelected
    <3>6. told' = Append(told, pdu)
      BY <2>1, <2>2, <2>4 DEF FlagAt
    <3>7. \A j \in 1..(i - 1) : CaPmtAt(j) \in CaPmt
      BY <2>2, CaPmtType
    <3>8. told \in Seq(CaPmt) /\ Len(told) = i - 1
          /\ \A j \in 1..(i - 1) : told[j] = CaPmtAt(j)
      BY <3>2, <3>4, <3>5, <3>7 DEF Wanted
    <3>9. pdu \in CaPmt
      BY CaPmtType
    <3> HIDE DEF pdu
    <3>10. /\ Append(told, pdu) \in Seq(CaPmt) /\ Len(Append(told, pdu)) = i
           /\ \A j \in 1..(i - 1) : Append(told, pdu)[j] = CaPmtAt(j)
           /\ Append(told, pdu)[i] = pdu
      BY <3>2, <3>8, <3>9, AppendProperties
    <3>11. \A j \in 1..i : Append(told, pdu)[j] = CaPmtAt(j)
      BY <3>10 DEF pdu
    <3>12. Append(told, pdu) = [j \in 1..i |-> Append(told, pdu)[j]]
      <4>1. Append(told, pdu) \in [1..i -> CaPmt]
        BY <3>10, LenProperties
      <4>2. QED
        BY <4>1
    <3>13. QED
      BY <3>6, <3>11, <3>12 DEF Wanted
  <2>5. QED
    BY <2>3, <2>4
<1>4. i \in 0..Len(pmtlist)
  BY ListedSelected
<1>5. QED
  BY <1>1, <1>2, <1>3, <1>4 DEF CamFollowsList

\* The task reaches the end of the list.
LEMMA FollowEnd ==
  ASSUME ListInv, CamFollowsList, EndWalk
  PROVE  CamFollowsList'
<1>1. /\ task' # "walk" /\ pmtlist' = pmtlist /\ pmt' = pmt /\ handler' = handler
      /\ UNCHANGED <<told, missed>> /\ task = "walk" /\ Len(pmtlist) + 1 \in Following
  BY DEF EndWalk, programVars, handlerVars
<1>2. Wanted(Len(pmtlist))' = Wanted(Len(pmtlist))
  BY <1>1, ListedSelected, WantedStays
<1>3. ASSUME ~missed, handler = "idle" PROVE told = Wanted(Len(pmtlist))
  <2>1. Len(pmtlist) \in Nat /\ \A n \in 1..Len(pmtlist) : pmtlist[n] \in Programs
    BY ListedSelected DEF ListInv, TypeOK
  <2>2. walk = "head" \/ \E n \in 1..Len(pmtlist) : walk = pmtlist[n] /\ told = Wanted(n)
    BY <1>1, <1>3 DEF CamFollowsList
  <2>3. pmtlist # <<>>
    <3>1. updating = {} /\ active # {}
      BY <1>1, <1>3 DEF ListInv, Handling
    <3>2. QED
      BY <1>3, <3>1 DEF ListInv, ListMatchesPrograms, Between, On, TypeOK
  <2>4. Len(pmtlist) # 0 /\ walk # "freed"
    BY <2>1, <2>2, <2>3, BaseBinAssumption DEF ListInv, TypeOK
  <2>5. walk = pmtlist[Len(pmtlist)] /\ Len(pmtlist) \in 1..Len(pmtlist)
    BY <1>1, <2>1, <2>4 DEF Following
  <2>6. PICK n \in 1..Len(pmtlist) : walk = pmtlist[n] /\ told = Wanted(n)
    BY <2>1, <2>2, <2>5, BaseBinAssumption
  <2>7. n = Len(pmtlist)
    BY <2>5, <2>6, ListedSelected
  <2>8. QED
    BY <2>6, <2>7
<1>4. QED
  BY <1>1, <1>2, <1>3 DEF CamFollowsList

LEMMA FollowStep == ListInv /\ CamFollowsList /\ [Next]_vars => CamFollowsList'
<1> SUFFICES ASSUME ListInv, CamFollowsList, [Next]_vars PROVE CamFollowsList'
  OBVIOUS
<1>1. CASE \E pat \in Pats : PatInfo(pat)
  BY <1>1, FollowFrame DEF PatInfo, listVars, handlerVars, camVars
<1>2. CASE \E p \in Programs, m \in Pmts : PmtStored(p, m)
  <2>1. \A p \in selected : pmt'[p] = pmt[p]
    BY <1>2 DEF PmtStored, ListInv, TypeOK
  <2>2. QED
    BY <1>2, <2>1, FollowFrame DEF PmtStored, listVars, handlerVars, camVars
<1>3. CASE \E p \in Programs, m \in Pmts : PmtInfo(p, m)
  BY <1>3 DEF PmtInfo, CamFollowsList
<1>4. CASE \E p \in Programs : Activate(p)
  BY <1>4 DEF Activate, CamFollowsList, camVars
<1>5. CASE Publish
  <2>1. /\ pmtlist' = pmtlist /\ pmt' = pmt /\ pmtlist_changed'
        /\ UNCHANGED <<task, walk, told, missed>>
    BY <1>5 DEF Publish, camVars
  <2>2. \A n \in 1..Len(pmtlist) : Wanted(n)' = Wanted(n)
    BY <2>1, ListedSelected, WantedStays
  <2>3. QED
    BY <2>1, <2>2 DEF CamFollowsList
<1>6. CASE TaskBegins \/ TaskStops \/ TaskPolls
  BY <1>6, FollowFrame DEF TaskBegins, TaskStops, TaskPolls, programVars, listVars, handlerVars
<1>7. CASE StartWalk
  BY <1>7 DEF StartWalk, CamFollowsList
<1>8. CASE EndWalk
  BY <1>8, FollowEnd
<1>9. CASE \E i \in 1..Len(pmtlist) : SendPmt(i)
  BY <1>9, FollowSend
<1>10. CASE \E ps \in SUBSET Programs : SetProgramNumbers(ps)
  BY <1>10, FollowFrame DEF SetProgramNumbers, listVars, handlerVars, camVars
<1>11. CASE ReadyToPaused \/ PausedToReady
  <2>1. ReadyToPaused => task # "walk"
    BY DEF ReadyToPaused, ListInv, Handling
  <2>2. QED
    BY <1>11, <2>1, FollowFrame
    DEF ReadyToPaused, PausedToReady, programVars, listVars, handlerVars, camVars
<1>12. CASE Reset
  <2>1. /\ pmtlist' = pmtlist /\ pmt' = pmt /\ task' = task /\ task = "stopped" /\ told' = <<>>
        /\ missed' = (missed \/ pmtlist # <<>>)
    BY <1>12 DEF Reset, programVars, listVars
  <2>2. Wanted(0) = <<>>
    BY DEF Wanted
  <2>3. Wanted(0)' = Wanted(0)
    BY <2>1, ListedSelected, WantedStays
  <2>4. QED
    BY <2>1, <2>2, <2>3 DEF CamFollowsList
<1>13. CASE UNCHANGED vars
  BY <1>13, FollowFrame DEF vars, programVars, listVars, handlerVars, camVars
<1>14. QED
  BY <1>1, <1>2, <1>3, <1>4, <1>5, <1>6, <1>7, <1>8, <1>9, <1>10, <1>11, <1>12, <1>13
  DEF Next, StreamingThread, CamTask, User

\* What the CAM is told is the list of PMTs, in its order and with the right list management
\* flags, unless one of the three things that missed records happened, for any number of
\* programs and any interleaving of the CAM task with the streaming thread.
THEOREM CamFollows == Spec => []CamFollowsList
<1>1. ListInv /\ [Next]_vars => ListInv'
  BY TypeStep, MatchStep, HandlingStep DEF ListInv
<1>2. Init => CamFollowsList
  BY DEF Init, CamFollowsList, Wanted
<1>3. QED
  BY <1>1, <1>2, ListInit, FollowStep, PTL DEF Spec
-----------------------------------------------------------------------------
(* The references are counted *)

\* The programs that rely on stream x for their PMT, their PCR and their streams.
PmtHolders(x) == {p \in selected : x = pmt_pid[p] /\ (x # NoPid \/ p \in pmt_active)}
PcrHolders(x) == {p \in selected : x = pcr_pid[p] /\ x # NoPid}
StreamHolders(x) == {p \in selected : x \in pmt[p].streams /\ ~Between(p)}

\* A program that may still become selected holds nothing, and dvbsrc has been given the
\* streams in use whenever no PMT is being handled.
CountInv ==
  /\ CountsCover
  /\ \A p \in Programs \ known : pmt_pid[p] = NoPid /\ pmt[p] = NoPmt
  /\ \A p \in Programs \ pmt_active : pcr_pid[p] = NoPid
  /\ handler = "idle" => filter = Filtered(usecount)

\* Sets of programs are finite.
LEMMA ProgramSets ==
  \A S \in SUBSET Programs : IsFiniteSet(S) /\ Cardinality(S) \in Nat
BY BaseBinAssumption, FS_Subset, FS_CardinalityType

\* A set that loses L and gains at most A has at most so many elements.
LEMMA LosesAndGains ==
  ASSUME NEW S \in SUBSET Programs, NEW L \in SUBSET S, NEW A \in SUBSET Programs,
         NEW T, T \subseteq (S \ L) \cup A
  PROVE  /\ Cardinality(S) \in Nat /\ Cardinality(L) \in Nat /\ Cardinality(A) \in Nat
         /\ Cardinality(T) \in Nat /\ Cardinality(L) <= Cardinality(S)
         /\ Cardinality(T) <= Cardinality(S) - Cardinality(L) + Cardinality(A)
<1>1. /\ IsFiniteSet(S) /\ IsFiniteSet(L) /\ IsFiniteSet(A) /\ IsFiniteSet(T)
      /\ IsFiniteSet(S \ L) /\ IsFiniteSet((S \ L) \cup A)
  BY ProgramSets
<1>2. /\ Cardinality(S) \in Nat /\ Cardinality(L) \in Nat /\ Cardinality(A) \in Nat
      /\ Cardinality(T) \in Nat /\ Cardinality((S \ L) \cap A) \in Nat
  BY ProgramSets
<1>3. Cardinality(L) <= Cardinality(S)
  BY <1>1, FS_Subset
<1>4. Cardinality(S \ L) = Cardinality(S) - Cardinality(L)
  <2>1. S \cap L = L
    OBVIOUS
  <2>2. QED
    BY <1>1, <2>1, FS_Difference
<1>5. Cardinality((S \ L) \cup A) =
        Cardinality(S \ L) + Cardinality(A) - Cardinality((S \ L) \cap A)
  BY <1>1, FS_Union
<1>6. Cardinality(T) <= Cardinality((S \ L) \cup A)
  BY <1>1, FS_Subset
<1>7. Cardinality((S \ L) \cup A) \in Nat
  BY <1>1, FS_CardinalityType
<1>8. QED
  BY <1>2, <1>3, <1>4, <1>5, <1>6, <1>7

\* One program, on a condition.
Only(p, c) == IF c THEN {p} ELSE {}

LEMMA OneProgram ==
  ASSUME NEW p \in Programs, NEW c \in BOOLEAN
  PROVE  Only(p, c) \in SUBSET Programs /\ Cardinality(Only(p, c)) = One(c)
<1>1. Cardinality({p}) = 1 /\ Cardinality({}) = 0
  BY FS_Singleton, FS_EmptySet
<1>2. QED
  BY <1>1 DEF One, Only

\* What is held of a stream, as numbers.
LEMMA HeldParts ==
  ASSUME TypeOK, NEW x
  PROVE  /\ PmtHolders(x) \in SUBSET Programs /\ PcrHolders(x) \in SUBSET Programs
         /\ StreamHolders(x) \in SUBSET Programs
         /\ Cardinality(PmtHolders(x)) \in Nat /\ Cardinality(PcrHolders(x)) \in Nat
         /\ Cardinality(StreamHolders(x)) \in Nat /\ One(x \in InitialPids) \in Nat
         /\ Held(x) = One(x \in InitialPids) + Cardinality(PmtHolders(x))
                        + Cardinality(PcrHolders(x)) + Cardinality(StreamHolders(x))
<1>1. /\ PmtHolders(x) \in SUBSET Programs /\ PcrHolders(x) \in SUBSET Programs
      /\ StreamHolders(x) \in SUBSET Programs
  BY DEF TypeOK, PmtHolders, PcrHolders, StreamHolders
<1>2. One(x \in InitialPids) \in Nat
  BY DEF One
<1>3. Held(x) = One(x \in InitialPids) + Cardinality(PmtHolders(x))
                  + Cardinality(PcrHolders(x)) + Cardinality(StreamHolders(x))
  BY DEF Held, PmtHolders, PcrHolders, StreamHolders
<1>4. QED
  BY <1>1, <1>2, <1>3, ProgramSets

\* A PAT moves the PMT PIDs of its selected programs, with their references.
LEMMA PatCovers ==
  ASSUME TypeOK, CountsCover, NEW pat \in Pats, PatInfo(pat), NEW x \in AllPids
  PROVE  usecount'[x] >= Held(x)'
<1> DEFINE mine == DOMAIN pat \cap selected
           left == {p \in mine : x # NoPid /\ x = pmt_pid[p] /\ x # pat[p]}
           taken == {p \in mine : x = pat[p]}
<1>1. usecount'[x] = Unref(usecount[x], Cardinality(left)) + Cardinality(taken)
  BY DEF PatInfo
<1>2. DOMAIN pat \subseteq Programs /\ \A p \in DOMAIN pat : pat[p] \in Pids /\ pat[p] # NoPid
  BY BaseBinAssumption
<1>3. /\ pmt_pid' = [p \in Programs |-> IF p \in DOMAIN pat THEN pat[p] ELSE pmt_pid[p]]
      /\ UNCHANGED <<selected, pmt_active, pcr_pid, pmt, handler, updating>>
  BY DEF PatInfo, handlerVars
<1>4. PmtHolders(x)' \subseteq (PmtHolders(x) \ left) \cup taken
  BY <1>2, <1>3 DEF PmtHolders, TypeOK
<1>5. left \in SUBSET PmtHolders(x) /\ taken \in SUBSET Programs
  BY <1>2 DEF PmtHolders
<1>6. PcrHolders(x)' = PcrHolders(x) /\ StreamHolders(x)' = StreamHolders(x)
  BY <1>3 DEF PcrHolders, StreamHolders, Between
<1> HIDE DEF left, taken
<1>7. /\ Cardinality(left) \in Nat /\ Cardinality(taken) \in Nat
      /\ Cardinality(PmtHolders(x)') \in Nat
      /\ Cardinality(left) <= Cardinality(PmtHolders(x))
      /\ Cardinality(PmtHolders(x)')
           <= Cardinality(PmtHolders(x)) - Cardinality(left) + Cardinality(taken)
  BY <1>4, <1>5, HeldParts, LosesAndGains
<1>8. Held(x)' = One(x \in InitialPids) + Cardinality(PmtHolders(x)')
                   + Cardinality(PcrHolders(x)) + Cardinality(StreamHolders(x))
  BY <1>6 DEF Held, PmtHolders, PcrHolders, StreamHolders
<1>9. usecount[x] \in Nat /\ usecount[x] >= Held(x)
  BY DEF TypeOK, CountsCover
<1>10. QED
  BY <1>1, <1>7, <1>8, <1>9, HeldParts DEF Unref

\* The streams of the PMT that is replaced are released.
LEMMA PmtInfoCovers ==
  ASSUME ListInv, CountsCover, NEW p \in Programs, NEW m \in Pmts, PmtInfo(p, m),
         NEW x \in AllPids
  PROVE  usecount'[x] >= Held(x)'
<1> DEFINE c == x \in pmt[p].streams
           left == Only(p, c)
<1>1. /\ usecount'[x] = Unref(usecount[x], One(c))
      /\ pmt' = [pmt EXCEPT ![p] = m] /\ handler = "idle" /\ updating = {}
      /\ handler' = "activate" /\ updating' = {p} /\ p \in selected
      /\ UNCHANGED <<selected, pmt_pid, pmt_active, pcr_pid>>
  BY DEF PmtInfo, Streaming, WithoutStreams, ListInv, Handling
<1>2. StreamHolders(x)' \subseteq (StreamHolders(x) \ left) \cup {}
  BY <1>1 DEF StreamHolders, Between, ListInv, TypeOK, Only
<1>3. left \in SUBSET StreamHolders(x)
  BY <1>1 DEF StreamHolders, Between, Only
<1>4. PmtHolders(x)' = PmtHolders(x) /\ PcrHolders(x)' = PcrHolders(x)
  BY <1>1 DEF PmtHolders, PcrHolders
<1>5. Cardinality(left) = One(c)
  <2>1. c \in BOOLEAN
    OBVIOUS
  <2>2. QED
    BY <2>1, OneProgram
<1> HIDE DEF left, c
<1>6. /\ Cardinality(left) \in Nat /\ Cardinality({}) = 0
      /\ Cardinality(StreamHolders(x)') \in Nat
      /\ Cardinality(left) <= Cardinality(StreamHolders(x))
      /\ Cardinality(StreamHolders(x)')
           <= Cardinality(StreamHolders(x)) - Cardinality(left) + Cardinality({})
  <2>1. StreamHolders(x) \in SUBSET Programs /\ {} \in SUBSET Programs
    BY HeldParts DEF ListInv
  <2>2. QED
    BY <1>2, <1>3, <2>1, LosesAndGains, FS_EmptySet
<1>7. Held(x)' = One(x \in InitialPids) + Cardinality(PmtHolders(x))
                   + Cardinality(PcrHolders(x)) + Cardinality(StreamHolders(x)')
  BY <1>4 DEF Held, PmtHolders, PcrHolders, StreamHolders
<1>8. usecount[x] \in Nat /\ usecount[x] >= Held(x) /\ TypeOK
  BY DEF ListInv, TypeOK, CountsCover
<1>9. QED
  BY <1>1, <1>5, <1>6, <1>7, <1>8, HeldParts DEF Unref

\* The program takes its PMT PID, if it had none, its PCR and its streams.
LEMMA ActivateCovers ==
  ASSUME ListInv, CountsCover, NEW p \in Programs, Activate(p), NEW x \in AllPids
  PROVE  usecount'[x] >= Held(x)'
<1> DEFINE m == pmt[p]
           cPmt == p \notin pmt_active /\ x = pmt_pid[p]
           cOld == x # NoPid /\ x = pcr_pid[p] /\ x # m.pcr
           cNew == x = m.pcr
           cStr == x \in m.streams
<1>1. /\ handler = "activate" /\ updating = {p} /\ p \in selected /\ m \in Pmts
      /\ handler' = "publish" /\ updating' = {p}
      /\ pmt_active' = pmt_active \cup {p} /\ pcr_pid' = [pcr_pid EXCEPT ![p] = m.pcr]
      /\ UNCHANGED <<selected, pmt_pid, pmt>>
  BY DEF Activate, ListInv, Handling
<1>2. usecount'[x] =
        Unref(usecount[x] + One(cPmt), One(cOld)) + One(cNew) + One(cStr)
  BY DEF Activate, WithStreams, PcrMoved, WithPmtPid
<1> DEFINE P == Only(p, cPmt)
           O == Only(p, cOld)
           N == Only(p, cNew)
           S == Only(p, cStr)
<1>3. PmtHolders(x)' \subseteq (PmtHolders(x) \ {}) \cup P
  BY <1>1 DEF PmtHolders, Only
<1>4. O \in SUBSET PcrHolders(x) /\ PcrHolders(x)' \subseteq (PcrHolders(x) \ O) \cup N
  BY <1>1 DEF PcrHolders, ListInv, TypeOK, Only
<1>5. StreamHolders(x)' \subseteq (StreamHolders(x) \ {}) \cup S
  BY <1>1 DEF StreamHolders, Between, Only
<1>6. /\ Cardinality(P) = One(cPmt) /\ Cardinality(O) = One(cOld)
      /\ Cardinality(N) = One(cNew) /\ Cardinality(S) = One(cStr) /\ Cardinality({}) = 0
      /\ P \in SUBSET Programs /\ N \in SUBSET Programs /\ S \in SUBSET Programs
  <2>1. cPmt \in BOOLEAN /\ cOld \in BOOLEAN /\ cNew \in BOOLEAN /\ cStr \in BOOLEAN
    OBVIOUS
  <2> HIDE DEF cPmt, cOld, cNew, cStr
  <2>2. Cardinality({}) = 0
    BY FS_EmptySet
  <2>3. QED
    BY <2>1, <2>2, OneProgram
<1> HIDE DEF P, O, N, S, cPmt, cOld, cNew, cStr
<1>7. /\ PmtHolders(x) \in SUBSET Programs /\ PcrHolders(x) \in SUBSET Programs
      /\ StreamHolders(x) \in SUBSET Programs
  BY HeldParts DEF ListInv
<1>8. /\ Cardinality(P) \in Nat /\ Cardinality(PmtHolders(x)') \in Nat
      /\ Cardinality(PmtHolders(x)')
           <= Cardinality(PmtHolders(x)) - Cardinality({}) + Cardinality(P)
  <2>1. {} \in SUBSET PmtHolders(x)
    OBVIOUS
  <2>2. QED
    BY <1>3, <1>6, <1>7, <2>1, LosesAndGains
<1>9. /\ Cardinality(O) \in Nat /\ Cardinality(N) \in Nat /\ Cardinality(PcrHolders(x)') \in Nat
      /\ Cardinality(O) <= Cardinality(PcrHolders(x))
      /\ Cardinality(PcrHolders(x)')
           <= Cardinality(PcrHolders(x)) - Cardinality(O) + Cardinality(N)
  BY <1>4, <1>6, <1>7, LosesAndGains
<1>10. /\ Cardinality(S) \in Nat /\ Cardinality(StreamHolders(x)') \in Nat
       /\ Cardinality(StreamHolders(x)')
            <= Cardinality(StreamHolders(x)) - Cardinality({}) + Cardinality(S)
  <2>1. {} \in SUBSET StreamHolders(x)
    OBVIOUS
  <2>2. QED
    BY <1>5, <1>6, <1>7, <2>1, LosesAndGains
<1>11. Held(x)' = One(x \in InitialPids) + Cardinality(PmtHolders(x)')
                    + Cardinality(PcrHolders(x)') + Cardinality(StreamHolders(x)')
  BY DEF Held, PmtHolders, PcrHolders, StreamHolders
<1>12. usecount[x] \in Nat /\ usecount[x] >= Held(x) /\ TypeOK
  BY DEF ListInv, TypeOK, CountsCover
<1>13. QED
  BY <1>2, <1>6, <1>8, <1>9, <1>10, <1>11, <1>12, HeldParts DEF Unref

\* The steps that touch a program, a count or the filter.
LEMMA ProgramSteps ==
  ASSUME [Next]_vars
  PROVE  \/ \E pat \in Pats : PatInfo(pat)
         \/ \E p \in Programs, m \in Pmts : PmtInfo(p, m)
         \/ \E p \in Programs : Activate(p)
         \/ \E p \in Programs, m \in Pmts : PmtStored(p, m)
         \/ Publish
         \/ \E ps \in SUBSET Programs : SetProgramNumbers(ps)
         \/ UNCHANGED <<programVars, streamVars, handlerVars>>
<1>1. CASE TaskBegins \/ TaskStops \/ TaskPolls \/ StartWalk \/ EndWalk
  BY <1>1 DEF TaskBegins, TaskStops, TaskPolls, StartWalk, EndWalk
<1>2. CASE \E i \in 1..Len(pmtlist) : SendPmt(i)
  BY <1>2 DEF SendPmt
<1>3. CASE ReadyToPaused \/ PausedToReady \/ Reset
  BY <1>3 DEF ReadyToPaused, PausedToReady, Reset
<1>4. CASE UNCHANGED vars
  BY <1>4 DEF vars
<1>5. QED
  BY <1>1, <1>2, <1>3, <1>4 DEF Next, StreamingThread, CamTask, User

\* The other steps change neither who holds what nor the references.
LEMMA OtherCovers ==
  ASSUME TypeOK, CountsCover, usecount' = usecount,
         \A x \in AllPids : /\ PmtHolders(x)' = PmtHolders(x) /\ PcrHolders(x)' = PcrHolders(x)
                            /\ StreamHolders(x)' = StreamHolders(x)
  PROVE  CountsCover'
<1>1. \A x \in AllPids : Held(x)' = Held(x)
  <2> SUFFICES ASSUME NEW x \in AllPids PROVE Held(x)' = Held(x)
    OBVIOUS
  <2>1. Held(x)' = One(x \in InitialPids) + Cardinality(PmtHolders(x)')
                     + Cardinality(PcrHolders(x)') + Cardinality(StreamHolders(x)')
    BY DEF Held, PmtHolders, PcrHolders, StreamHolders
  <2>2. QED
    BY <2>1, HeldParts
<1>2. QED
  BY <1>1 DEF CountsCover

\* No step leaves a stream with fewer references than are relied on.
LEMMA CoverStep == ListInv /\ CountInv /\ [Next]_vars => CountsCover'
<1> SUFFICES ASSUME ListInv, CountInv, [Next]_vars PROVE CountsCover'
  OBVIOUS
<1>0. TypeOK /\ CountsCover
  BY DEF ListInv, CountInv
<1>1. CASE \E pat \in Pats : PatInfo(pat)
  BY <1>0, <1>1, PatCovers DEF CountsCover
<1>2. CASE \E p \in Programs, m \in Pmts : PmtInfo(p, m)
  BY <1>0, <1>2, PmtInfoCovers DEF CountsCover
<1>3. CASE \E p \in Programs : Activate(p)
  BY <1>0, <1>3, ActivateCovers DEF CountsCover
<1>4. CASE \E p \in Programs, m \in Pmts : PmtStored(p, m)
  <2>1. PICK p \in Programs, m \in Pmts : PmtStored(p, m)
    BY <1>4
  <2>2. /\ p \notin selected /\ pmt' = [pmt EXCEPT ![p] = m] /\ usecount' = usecount
        /\ UNCHANGED <<selected, pmt_pid, pcr_pid, pmt_active, handler, updating>>
    BY <2>1 DEF PmtStored, streamVars, handlerVars
  <2>3. \A x : /\ PmtHolders(x)' = PmtHolders(x) /\ PcrHolders(x)' = PcrHolders(x)
               /\ StreamHolders(x)' = StreamHolders(x)
    BY <1>0, <2>2 DEF TypeOK, PmtHolders, PcrHolders, StreamHolders, Between
  <2>4. QED
    BY <1>0, <2>2, <2>3, OtherCovers
<1>5. CASE Publish
  <2>1. /\ usecount' = usecount /\ handler = "publish" /\ handler' = "idle"
        /\ UNCHANGED <<selected, pmt_pid, pcr_pid, pmt, pmt_active>>
    BY <1>5 DEF Publish
  <2>2. \A x : /\ PmtHolders(x)' = PmtHolders(x) /\ PcrHolders(x)' = PcrHolders(x)
               /\ StreamHolders(x)' = StreamHolders(x)
    BY <2>1 DEF PmtHolders, PcrHolders, StreamHolders, Between
  <2>3. QED
    BY <1>0, <2>1, <2>2, OtherCovers
<1>6. CASE \E ps \in SUBSET Programs : SetProgramNumbers(ps)
  <2>1. PICK ps \in SUBSET Programs : SetProgramNumbers(ps)
    BY <1>6
  <2>2. /\ selected' = selected \cup (ps \ known) /\ usecount' = usecount
        /\ UNCHANGED <<pmt_pid, pcr_pid, pmt, pmt_active, handler, updating>>
    BY <2>1 DEF SetProgramNumbers, streamVars, handlerVars
  <2>3. ASSUME NEW p \in ps \ known
        PROVE  pmt_pid[p] = NoPid /\ p \notin pmt_active /\ pcr_pid[p] = NoPid /\ pmt[p].streams = {}
    <3>1. p \in Programs /\ p \notin pmt_active
      BY <1>0 DEF TypeOK
    <3>2. QED
      BY <3>1 DEF CountInv, NoPmt
  <2>4. \A x : /\ PmtHolders(x)' = PmtHolders(x) /\ PcrHolders(x)' = PcrHolders(x)
               /\ StreamHolders(x)' = StreamHolders(x)
    BY <2>2, <2>3 DEF PmtHolders, PcrHolders, StreamHolders, Between
  <2>5. QED
    BY <1>0, <2>2, <2>4, OtherCovers
<1>7. CASE UNCHANGED <<programVars, streamVars, handlerVars>>
  <2>1. usecount' = usecount
        /\ UNCHANGED <<selected, pmt_pid, pcr_pid, pmt, pmt_active, handler, updating>>
    BY <1>7 DEF programVars, streamVars, handlerVars
  <2>2. \A x : /\ PmtHolders(x)' = PmtHolders(x) /\ PcrHolders(x)' = PcrHolders(x)
               /\ StreamHolders(x)' = StreamHolders(x)
    BY <2>1 DEF PmtHolders, PcrHolders, StreamHolders, Between
  <2>3. QED
    BY <1>0, <2>1, <2>2, OtherCovers
<1>8. QED
  BY <1>1, <1>2, <1>3, <1>4, <1>5, <1>6, <1>7, ProgramSteps

\* What CountInv adds to the count survives every step.
LEMMA CountStep == ListInv /\ CountInv /\ [Next]_vars => CountInv'
<1> SUFFICES ASSUME ListInv, CountInv, [Next]_vars PROVE CountInv'
  OBVIOUS
<1>0. TypeOK /\ CountsCover'
  BY CoverStep DEF ListInv
<1>1. CASE \E pat \in Pats : PatInfo(pat)
  <2>1. PICK pat \in Pats : PatInfo(pat)
    BY <1>1
  <2>2. /\ known' = known \cup DOMAIN pat
        /\ pmt_pid' = [p \in Programs |-> IF p \in DOMAIN pat THEN pat[p] ELSE pmt_pid[p]]
        /\ UNCHANGED <<pmt, pcr_pid, pmt_active>> /\ handler = "idle"
    BY <2>1 DEF PatInfo, Streaming
  <2>3. filter' = Filtered(usecount')
    <3>1. CASE DOMAIN pat \cap selected # {}
      BY <2>1, <3>1 DEF PatInfo
    <3>2. CASE DOMAIN pat \cap selected = {}
      <4>1. ASSUME NEW x \in AllPids PROVE usecount'[x] = usecount[x]
        <5>1. /\ {p \in {} : x # NoPid /\ x = pmt_pid[p] /\ x # pat[p]} = {}
              /\ {p \in {} : x = pat[p]} = {} /\ Cardinality({}) = 0 /\ usecount[x] \in Nat
          BY <1>0, FS_EmptySet DEF TypeOK
        <5>2. usecount'[x] = Unref(usecount[x], Cardinality({})) + Cardinality({})
          BY <2>1, <3>2, <5>1 DEF PatInfo
        <5>3. QED
          BY <5>1, <5>2 DEF Unref
      <4>2. filter' = filter
        BY <2>1, <3>2 DEF PatInfo
      <4>3. QED
        BY <2>2, <4>1, <4>2 DEF CountInv, Filtered
    <3>3. QED
      BY <3>1, <3>2
  <2>4. QED
    BY <1>0, <2>2, <2>3 DEF CountInv
<1>2. CASE \E p \in Programs, m \in Pmts : PmtInfo(p, m)
  <2>1. PICK p \in Programs, m \in Pmts : PmtInfo(p, m)
    BY <1>2
  <2>2. /\ p \in selected /\ pmt' = [pmt EXCEPT ![p] = m] /\ handler' = "activate"
        /\ UNCHANGED <<known, pmt_pid, pcr_pid, pmt_active>>
    BY <2>1 DEF PmtInfo
  <2>3. QED
    BY <1>0, <2>2 DEF CountInv, TypeOK
<1>3. CASE \E p \in Programs : Activate(p)
  <2>1. PICK p \in Programs : Activate(p)
    BY <1>3
  <2>2. /\ handler' = "publish" /\ pmt_active' = pmt_active \cup {p}
        /\ pcr_pid' = [pcr_pid EXCEPT ![p] = pmt[p].pcr] /\ UNCHANGED <<known, pmt_pid, pmt>>
    BY <2>1 DEF Activate
  <2>3. QED
    BY <1>0, <2>2 DEF CountInv, TypeOK
<1>4. CASE \E p \in Programs, m \in Pmts : PmtStored(p, m)
  <2>1. PICK p \in Programs, m \in Pmts : PmtStored(p, m)
    BY <1>4
  <2>2. /\ pmt' = [pmt EXCEPT ![p] = m] /\ known' = known \cup {p}
        /\ UNCHANGED <<pmt_pid, pcr_pid, pmt_active, usecount, filter, handler>>
    BY <2>1 DEF PmtStored, streamVars, handlerVars
  <2>3. QED
    BY <1>0, <2>2 DEF CountInv, TypeOK
<1>5. CASE Publish
  <2>1. /\ filter' = Filtered(usecount) /\ usecount' = usecount
        /\ UNCHANGED <<known, pmt_pid, pcr_pid, pmt, pmt_active>>
    BY <1>5 DEF Publish
  <2>2. QED
    BY <1>0, <2>1 DEF CountInv, Filtered
<1>6. CASE \E ps \in SUBSET Programs : SetProgramNumbers(ps)
  BY <1>0, <1>6 DEF SetProgramNumbers, CountInv, Filtered, streamVars, handlerVars
<1>7. CASE UNCHANGED <<programVars, streamVars, handlerVars>>
  BY <1>0, <1>7 DEF CountInv, Filtered, programVars, streamVars, handlerVars
<1>8. QED
  BY <1>1, <1>2, <1>3, <1>4, <1>5, <1>6, <1>7, ProgramSteps

\* At the start nobody holds anything but the initial PIDs.
LEMMA CountInit == Init => CountInv
<1> SUFFICES ASSUME Init PROVE CountInv
  OBVIOUS
<1>1. \A x : PmtHolders(x) = {} /\ PcrHolders(x) = {} /\ StreamHolders(x) = {}
  BY DEF Init, PmtHolders, PcrHolders, StreamHolders
<1>2. Cardinality({}) = 0 /\ TypeOK
  BY FS_EmptySet, ListInit DEF ListInv
<1>3. ASSUME NEW x \in AllPids PROVE usecount[x] >= Held(x)
  <2>1. Held(x) = One(x \in InitialPids) + 0 + 0 + 0 /\ One(x \in InitialPids) \in Nat
    BY <1>1, <1>2, HeldParts
  <2>2. usecount[x] = One(x \in InitialPids)
    BY DEF Init
  <2>3. QED
    BY <2>1, <2>2
<1>4. filter = Filtered(usecount)
  <2>1. InitialPids \subseteq AllPids
    BY BaseBinAssumption DEF AllPids
  <2>2. \A x \in AllPids : usecount[x] > 0 <=> x \in InitialPids
    BY DEF Init, One
  <2>3. QED
    BY <2>1, <2>2 DEF Init, Filtered
<1>5. QED
  BY <1>3, <1>4 DEF CountInv, CountsCover, Init

\* Both invariants hold for good.
LEMMA CountsKept == Spec => [](ListInv /\ CountInv)
<1>1. (ListInv /\ CountInv) /\ [Next]_vars => (ListInv /\ CountInv)'
  BY TypeStep, MatchStep, HandlingStep, CountStep DEF ListInv
<1>2. QED
  BY <1>1, ListInit, CountInit, PTL DEF Spec

\* No stream ever has fewer references than the programs and the bin rely on, for any
\* number of programs and any PATs and PMTs: unref_stream never saturates, and releasing
\* what one program held never takes a PID from another.
THEOREM CountsCovered == Spec => []CountsCover
<1>1. ListInv /\ CountInv => CountsCover
  BY DEF CountInv
<1>2. QED
  BY <1>1, CountsKept, PTL

\* Whenever no PMT is being handled dvbsrc has been given every PID that a selected program
\* needs, whatever other programs gave up in between: a PID that is relied on has a
\* reference, and rebuild_filter was called after the last change of the counts.
THEOREM NeedsAreFiltered == Spec => []NeedsFiltered
<1>1. ListInv /\ CountInv => NeedsFiltered
  <2> SUFFICES ASSUME ListInv, CountInv, handler = "idle", NEW p \in selected
               PROVE  /\ pmt_pid[p] \in Pids => pmt_pid[p] \in filter
                      /\ pcr_pid[p] \in Pids => pcr_pid[p] \in filter
                      /\ pmt[p].streams \subseteq filter
    BY DEF NeedsFiltered
  <2>1. TypeOK /\ CountsCover /\ filter = Filtered(usecount)
    BY DEF ListInv, CountInv
  <2>2. ASSUME NEW x \in AllPids,
               p \in PmtHolders(x) \/ p \in PcrHolders(x) \/ p \in StreamHolders(x)
        PROVE  x \in filter
    <3>1. \A S \in SUBSET Programs : Cardinality(S) \in Nat /\ (p \in S => Cardinality(S) # 0)
      BY ProgramSets, FS_EmptySet
    <3>2. Held(x) > 0
      BY <2>1, <2>2, <3>1, HeldParts
    <3>3. usecount[x] \in Nat /\ usecount[x] >= Held(x)
      BY <2>1 DEF TypeOK, CountsCover
    <3>4. Held(x) \in Nat
      BY <2>1, HeldParts
    <3>5. usecount[x] > 0
      BY <3>2, <3>3, <3>4
    <3>6. QED
      BY <2>1, <3>5 DEF Filtered
  <2>3. Pids \subseteq AllPids /\ NoPid \notin Pids
    BY BaseBinAssumption DEF AllPids
  <2>4. pmt[p].streams \subseteq Pids
    <3>1. pmt[p] \in Pmts \cup {NoPmt}
      BY <2>1 DEF TypeOK
    <3>2. QED
      BY <3>1, BaseBinAssumption DEF NoPmt
  <2>5. pmt_pid[p] \in Pids => p \in PmtHolders(pmt_pid[p])
    BY <2>3 DEF PmtHolders
  <2>6. pcr_pid[p] \in Pids => p \in PcrHolders(pcr_pid[p])
    BY <2>3 DEF PcrHolders
  <2>7. \A x \in pmt[p].streams : p \in StreamHolders(x)
    BY DEF StreamHolders, Between
  <2>8. QED
    BY <2>2, <2>3, <2>4, <2>5, <2>6, <2>7
<1>2. QED
  BY <1>1, CountsKept, PTL
=============================================================================
