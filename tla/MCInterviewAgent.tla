--------------------------- MODULE MCInterviewAgent ---------------------------
(* Bounds for InterviewAgent: two model calls and two tool calls a turn, so   *)
(* a second batch may or may not fit; ids with the number of the first or     *)
(* the second utterance, in either spelling.                                  *)
EXTENDS InterviewAgent

MCGivenIds == {<<1, "padded">>, <<2, "plain">>}
=============================================================================
