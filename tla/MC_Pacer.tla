------------------------------ MODULE MC_Pacer ------------------------------
(* The pacer with one audio and one video packet size, a pacing rate of    *)
(* 16 kbps (10 bytes per 5 ms tick), probe clusters at 160 kbps (a         *)
(* recommended probe size of 40 bytes, which the video packet exceeds), a  *)
(* timer that runs on time or 30 ms late, and a queue time limit of 20 ms  *)
(* (set in the cfg), so that the drain rate takes over within a few ticks. *)
EXTENDS Pacer

MC_PacketInputs == {[type |-> "audio", size |-> 20], [type |-> "video", size |-> 60]}
MC_RateInputs == {16}
MC_ProbeRateInputs == {160}
MC_Lateness == {0, 30}
=============================================================================
