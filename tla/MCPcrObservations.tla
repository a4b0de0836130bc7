------------------------- MODULE MCPcrObservations -------------------------
(* Three files of eight PCRs, one timeline, a reset and a wrap, and all short ones by some steps. *)
EXTENDS PcrObservations

At4(pcrs, offsets) == [i \in 1 .. Len(pcrs) |-> [pcr |-> pcrs[i], offset |-> offsets[i]]]

\* A change of bitrate and a gap.
Steady == At4(<<20, 24, 28, 32, 33, 37, 50, 51>>, <<1, 5, 9, 21, 22, 26, 30, 31>>)

WithReset == At4(<<20, 24, 25, 29, 2, 3, 7, 8>>, <<1, 5, 6, 10, 14, 15, 19, 20>>)

WithWrap == At4(<<990, 994, 998, 2, 3, 7, 11, 12>>, <<1, 5, 9, 13, 14, 18, 22, 23>>)

\* Four PCRs, the last or none of them after a reset.
Short(steps, reset) ==
  LET f[i \in 1 .. 4] ==
        IF i = 1 THEN [pcr |-> 20, offset |-> 1]
        ELSE [pcr |-> IF i = reset THEN 2 ELSE f[i - 1].pcr + steps[i - 1][1],
              offset |-> f[i - 1].offset + steps[i - 1][2]]
  IN [i \in 1 .. 4 |-> f[i]]

MCFiles ==
  {Steady, WithReset, WithWrap}
    \cup {Short(steps, reset) : steps \in [1 .. 3 -> {0, 4, 12} \X {1, 5}], reset \in {0, 3, 4}}
=============================================================================
