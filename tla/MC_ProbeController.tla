------------------------ MODULE MC_ProbeController ------------------------
(* ProbeController as GoogleCCNetworkController drives it: ResetConstraints *)
(* passes the constraints of RtpTransportControllerSend (min = start = 300, *)
(* max = 900 kbps), MaybeTriggerOnNetworkChanged the loss-based target,    *)
(* OnProcessInterval the ALR start time.                                    *)
EXTENDS ProbeController

MC_ConfigInputs == {[min |-> 300, start |-> 300, max |-> 900]}
MC_EstimateInputs == {300, 900}
MC_AlrInputs == {None, StartTime}
=============================================================================
