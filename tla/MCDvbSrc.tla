------------------------------ MODULE MCDvbSrc ------------------------------
(* Two callers, two filters, and an adapter and two channels. *)
EXTENDS DvbSrc

Setting(modulation, mode, bandwidth) ==
  [modulation |-> modulation, mode |-> mode, bandwidth |-> bandwidth]

\* Valid for DVB-T, and for neither of DVB-T and DVB-T2.
MCChannels == {Setting("QAM_64", "8K", 8000000), Setting("QPSK", "8K", 1712000)}

MCAlways == <<0>>

MCAdapters == {{"DVBT", "DVBT2", "DAB"}}

\* PAT alone, an entry that is not valid and one too many.
MCRequests == {<<>>, <<1, 100, 101>>}
=============================================================================
