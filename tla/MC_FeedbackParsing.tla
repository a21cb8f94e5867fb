------------------------- MODULE MC_FeedbackParsing -------------------------
(* The receiver starts two sequence numbers before the wrap of seq_no and *)
(* one tick either side of the wrap of the 24-bit reference time; its      *)
(* clock then steps back one tick or forward just under half the wrap      *)
(* period, so that the second message crosses the wrap forwards, crosses   *)
(* it backwards, or does not.  The deltas are the largest 1-byte one and a *)
(* negative 2-byte one.  A cut of 3 bytes takes a one-chunk message below  *)
(* the minimum size, ends a three-chunk message inside its last chunk, or  *)
(* removes receive deltas.                                                 *)
EXTENDS FeedbackParsing

MC_StartSeq == 2^16 - 2
MC_StartTicks == {2^24 - 1, 2^24}
MC_TickSteps == {-1, 2^23 - 1}
MC_LargeDelta == -2
MC_Cuts == {0, 3}
=============================================================================
