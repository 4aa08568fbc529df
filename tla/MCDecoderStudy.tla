--------------------------- MODULE MCDecoderStudy ---------------------------
(* Scores of both sides, two of them strong enough for a recorded signal.   *)
EXTENDS DecoderStudy

MCScores == {-2, 1, 2}
=============================================================================
