-------------------------- MODULE MC_LossBasedBwe --------------------------
(* The loss-based controller alone, with rates of a few kbps.              *)
EXTENDS LossBasedBwe

MC_InitConfig == [start |-> 8, max |-> 12, min |-> 5]

(* OnNetworkOk calls ResetConstraints again with the same constraints.     *)
MC_ConfigInputs == {MC_InitConfig}

(* 0 resets the ceiling to +infinity; 7 lies under the start rate.         *)
MC_DelayInputs == {0, 7}

(* <<lost, expected>>: a batch too small to report, no loss, 5% (hold)    *)
(* and 15% (decrease).                                                     *)
MC_LossReports == {<<0, 10>>, <<0, 20>>, <<1, 20>>, <<3, 20>>}

(* The same, with a negative delta, which RtpTransportControllerSend       *)
(* produces when the cumulative lost count of an RTCP report falls.        *)
MC_LossReportsNegative == MC_LossReports \cup {<<-1, 20>>}

MC_RttInputs == {0, 200}
=============================================================================
