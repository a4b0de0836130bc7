--------------------------- MODULE MCMpegTSTables ---------------------------
(* Two programs that come and go, one of them on another PMT PID now and then, and two PMTs. *)
EXTENDS MpegTSTables, TLC

CONSTANTS p1, p2, s1, s2, s3, zero, table1, table2, table3, a, b, video, audio

MCPids == {zero, table1, table2, table3, a, b}

Entry(n, x) == [program_number |-> n, pid |-> x]

MCPats == {<<Entry(p1, table1), Entry(p2, table2)>>, <<Entry(p2, table2)>>,
           <<Entry(p1, table3), Entry(p2, table2)>>}

Streams(f) == [x \in MCPids |-> IF x \in DOMAIN f THEN f[x] ELSE NoStream]

AudioVideo == [pcr |-> b, streams |-> Streams([x \in {a, b} |-> IF x = a THEN video ELSE audio])]

VideoOnly == [pcr |-> a, streams |-> Streams([x \in {a} |-> video])]

MCPmts == {AudioVideo, VideoOnly}

\* At first there are both programs, each with its own tables.
MCInit ==
  /\ TablesInit
  /\ wire[Pat].content = <<Entry(p1, table1), Entry(p2, table2)>>
  /\ wire[p1].content = VideoOnly /\ wire[p2].content = AudioVideo

MCSpec == MCInit /\ [][TablesNext]_allVars /\ TablesFairness
=============================================================================
