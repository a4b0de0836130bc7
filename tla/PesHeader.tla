------------------------------ MODULE PesHeader ------------------------------
(***************************************************************************)
(* mpegts_parse_pes_header (pesparse.c): the verdict on the header of a    *)
(* PES packet of which only the first bytes are there, and what the        *)
(* demuxer takes from it.                                                  *)
(*                                                                         *)
(* A header is a record of what its bytes say: the fixed part, the set of  *)
(* fields that the flags announce, and the fields whose marker bits the    *)
(* parser finds wrong.  A field may lie behind the end that                *)
(* header_data_length gives: its bytes are then those of the data.  bare   *)
(* is one of a stream_id that has six bytes of header only.                *)
(***************************************************************************)
EXTENDS Integers, Sequences, SequencesExt

IsHeader(h) ==
  /\ {h.prefix, h.bare, h.marker} \subseteq BOOLEAN
  /\ {h.header_data_length, h.pack, h.ext2} \subseteq Nat

\* The fields in their order, each with its size; "pack" and "ext2_data" have one more length.
Sizes ==
  <<<<"PTS", 5>>, <<"DTS", 5>>, <<"ESCR", 5>>, <<"ES_rate", 3>>, <<"trick_mode", 1>>,
    <<"copy_info", 1>>, <<"CRC", 2>>, <<"extension", 1>>, <<"private_data", 16>>, <<"pack", 1>>,
    <<"sequence", 2>>, <<"P_STD", 2>>, <<"ext2", 1>>, <<"ext2_data", 0>>>>

Marked == {"PTS", "DTS", "ESCR", "ES_rate", "copy_info", "sequence", "P_STD", "ext2"}

InExtension == {"private_data", "pack", "sequence", "P_STD", "ext2", "ext2_data"}

Announced(h, f) ==
  /\ f[1] \in h.fields
  /\ f[1] \in InExtension => "extension" \in h.fields
  /\ f[1] = "ext2_data" => "ext2" \in h.fields

SizeOf(h, f) == f[2] + (IF f[1] = "pack" THEN h.pack ELSE IF f[1] = "ext2_data" THEN h.ext2 ELSE 0)

Check(end, right) == [end |-> end, right |-> right]

\* mutant: header_data_length is not compared with what is there
FixedPartUnmeasured(h) ==
  <<Check(6, h.prefix)>> \o (IF h.bare THEN <<>> ELSE <<Check(9, h.marker)>>)

\* What is looked at, in this order: bytes up to some end, whose markers are right or not.
FixedPart(h) ==
  <<Check(6, h.prefix)>> \o
    (IF h.bare THEN <<>> ELSE <<Check(9, h.marker), Check(9 + h.header_data_length, TRUE)>>)

\* Where each field ends.  The first begins after the nine bytes of the fixed part, and one that is
\* not announced has none.
Ends(h) ==
  LET end[i \in 0 .. Len(Sizes)] ==
        IF i = 0 THEN 9
        ELSE end[i - 1] + (IF Announced(h, Sizes[i]) THEN SizeOf(h, Sizes[i]) ELSE 0)
  IN end

OptionalPart(h) ==
  LET end == Ends(h) IN
  [i \in DOMAIN Sizes |-> Check(end[i], Announced(h, Sizes[i]) => Sizes[i][1] \notin h.wrong)]

Checks(h) == FixedPart(h) \o (IF h.bare THEN <<>> ELSE OptionalPart(h))

HeaderSize(h) == IF h.bare THEN 6 ELSE 9 + h.header_data_length

\* mpegts_parse_pes_header: the first check that fails decides.
Parse(h, length) ==
  LET checks == Checks(h)
      failing == {i \in DOMAIN checks : checks[i].end > length \/ ~checks[i].right}
      first == checks[CHOOSE i \in failing : \A j \in failing : i <= j]
  IN CASE failing = {} -> "OK"
       [] failing # {} /\ first.end > length -> "NEED_MORE"
       [] failing # {} /\ first.end <= length -> "BAD"

\* A PTS, or -1.
PtsOf(h) == IF ~h.bare /\ "PTS" \in h.fields THEN h.PTS ELSE -1

\* Whether its end can be told: packet_length counts from its own end, and must leave data.
Bounded(h) == h.packet_length # 0 /\ h.packet_length + 6 > HeaderSize(h)
-----------------------------------------------------------------------------
(* What the standard asks, but for the ESCR, which has six bytes there. *)

\* All of it is there, within header_data_length, and marked right.
WellFormed(h, length) ==
  /\ h.prefix /\ length >= 6
  /\ ~h.bare =>
       /\ h.marker /\ h.wrong = {} /\ "ESCR" \notin h.fields
       /\ 9 + h.header_data_length <= length
       /\ Ends(h)[Len(Sizes)] <= HeaderSize(h)

\* The bytes that the header and the fields it announces take.
BytesOf(h) == IF h.bare THEN 6 ELSE Max({HeaderSize(h), Ends(h)[Len(Sizes)]})

\* A verdict is one on the header and not on how much of it was there: more bytes turn only
\* "need more" into something else, which is said only while some are missing.  What is taken
\* for the header is there, and a header that is well formed and there is taken.
Sound(h, lengths) ==
  \A n \in lengths : LET verdict == Parse(h, n) IN
    /\ verdict = "OK" => HeaderSize(h) <= n
    /\ WellFormed(h, n) => verdict = "OK"
    /\ \A m \in lengths : n <= m /\ verdict # "NEED_MORE" => Parse(h, m) = verdict
    /\ verdict = "NEED_MORE" => n < BytesOf(h)
=============================================================================
