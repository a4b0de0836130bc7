------------------------------ MODULE MCTsDemux ------------------------------
(* A video stream, whose PES packets do not tell their length, and an audio stream. *)
EXTENDS TsDemux, FiniteSetsExt

CONSTANTS video, audio

MCStreamList == <<video, audio>>

Header(packet_length, fields, wrong, header_data_length, pts) ==
  [prefix |-> TRUE, bare |-> FALSE, marker |-> TRUE, packet_length |-> packet_length,
   fields |-> fields, wrong |-> wrong, header_data_length |-> header_data_length,
   PTS |-> pts, pack |-> 2, ext2 |-> 3]

Pes(length, packet_length, pts) ==
  [length |-> length, first |-> 30,
   header |-> Header(packet_length, IF pts = None THEN {} ELSE {"PTS"}, {}, 5, pts)]

\* Headers that are marked wrong and that go on in the second packet.
Wrong(pes) == [pes EXCEPT !.header.wrong = {"PTS"}]
Long(pes) == [pes EXCEPT !.header.fields = {"PTS", "extension", "private_data"},
                         !.header.header_data_length = 22]

\* The audio begins before the first PCR, and the video may not tell its time at first.
MCPlans ==
  (video :> {<<Pes(2, 0, 2), Pes(1, 0, 3)>>, <<Pes(2, 0, None), Pes(2, 0, 3), Wrong(Pes(1, 0, 5))>>})
  @@ (audio :> {<<Pes(1, 200, 1), Long(Pes(2, 200, 3))>>})

\* Up to three fields of which one may be wrong, in headers that end where the fields do, before or behind.
MCHeaders ==
  LET names == {Sizes[i][1] : i \in DOMAIN Sizes}
      some == UNION {kSubset(k, names) : k \in 0 .. 3}
      rest == {[prefix |-> p, bare |-> b, marker |-> m] : p, b, m \in BOOLEAN}
  IN {Header(0, f, {}, n, 0) : f \in some, n \in {0, 11, 24}}
       \cup UNION {{Header(0, f, {w}, 11, 0) : w \in f \cap Marked} : f \in some}
       \cup {r @@ Header(0, {"PTS"}, {}, 5, 0) : r \in rest}

MCLengths == {0, 5, 6, 8, 9, 13, 14, 15, 20, 25, 30, 33, 34, 60}
=============================================================================
