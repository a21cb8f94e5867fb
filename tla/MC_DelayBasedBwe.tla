------------------------- MODULE MC_DelayBasedBwe -------------------------
(* The delay-based estimator, with the constraints of                     *)
(* RtpTransportControllerSend start = min = 300 kbps.*)
EXTENDS DelayBasedBwe

(* Acked throughput: none yet, well below, and at the start.   *)
MC_AckedInputs == {NoRate, 120, 300}
MC_ProbeInputs == {NoRate, 400}
MC_StartInputs == {300}
MC_MinInputs   == {300}
MC_RttInputs   == {300}

(* Feedback batches, non-empty and sorted by receive time as             *)
(* SortedByReceiveTime returns them.  A packet is [send, arrival] in ms    *)
(* after the feedback time: ComputeDeltas reads only differences of them.  *)
(* After the first packet the second joins its group (sent 3 ms later),    *)
(* opens a new group (10 ms later), joins as a burst (10 ms later but      *)
(* arriving 2 ms after), or is out of order (sent before the group's last  *)
(* packet).                                                                *)
P1 == [send |-> 0, arrival |-> 40]
MC_BatchInputs ==
  {<<P1, [send |-> 3, arrival |-> 45]>>,
   <<P1, [send |-> 10, arrival |-> 50]>>,
   <<P1, [send |-> 10, arrival |-> 42]>>,
   <<[send |-> 10, arrival |-> 42], [send |-> 3, arrival |-> 45]>>}
=============================================================================
