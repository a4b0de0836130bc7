---------------------------- MODULE MCDvbBaseBin ----------------------------
(* A small transport stream for DvbBaseBin: two programs that share a stream. *)
EXTENDS DvbBaseBin, TLC

CONSTANTS p1, p2, video, audio, table1, table2

MCPrograms == {p1, p2}

MCPids == {video, audio, table1, table2}

MCInitialPids == {table1}

\* Both programs, on one PMT PID each; and the same after a swap to a shared one.
MCPats == {(p1 :> table1 @@ p2 :> table2), (p1 :> table2 @@ p2 :> table2)}

\* The PCR is one of the streams, and it moves.
MCPmts == {[pcr |-> video, streams |-> {video, audio}], [pcr |-> audio, streams |-> {audio}]}
=============================================================================
