---------------------------- MODULE MCMpegTSBase ----------------------------
(* A small transport stream for MpegTSBase: two programs that share a video PID. *)
EXTENDS MpegTSBase, TLC

CONSTANTS p1, p2, s1, s2, s3, s4, zero, table1, table2, a, b, c, video, audio, sections

MCPids == {zero, table1, table2, a, b, c}

Entry(n, x) == [program_number |-> n, pid |-> x]

\* Both programs; one of them, on the PMT PID the other had; the other, named twice.
MCPats == {<<Entry(p1, table1), Entry(p2, table2)>>, <<Entry(p2, table1)>>,
           <<Entry(p1, table1), Entry(p1, table1)>>}

Streams(on_a, on_b, on_c) ==
  [x \in MCPids |-> CASE x = a -> on_a [] x = b -> on_b [] x = c -> on_c [] OTHER -> NoStream]

\* The PCR in the video, or apart; sections or not; the type of the first PID changes.
MCPmts == {[pcr |-> a, streams |-> Streams(video, NoStream, NoStream)],
           [pcr |-> c, streams |-> Streams(video, sections, NoStream)],
           [pcr |-> a, streams |-> Streams(audio, NoStream, video)]}

\* Cells of the heap are all alike.
Symmetry == Permutations(Slots)
=============================================================================
