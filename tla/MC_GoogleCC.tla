---------------------------- MODULE MC_GoogleCC ----------------------------
(* The controller as RtpTransportControllerSend creates it: start = min =  *)
(* 300 kbps, max = 3 x start.  Feedback results: none, a delay-based rate  *)
(* below the start, and a recovery from overuse.  The google_cc run adds  *)
(* one packet, so that a lost packet's feedback delivers those results     *)
(* while loss and RTT reports come; three heartbeats leave room for both.  *)
EXTENDS GoogleCC

MC_Constraints == [start |-> 300, min |-> 300, max |-> 900]
MC_LossReports == {<<0, 20>>, <<4, 20>>}
MC_RttInputs == {200}
MC_DelayResults ==
  {[updated |-> TRUE, target |-> 250, recover |-> FALSE],
   [updated |-> FALSE, target |-> 0, recover |-> TRUE]}
MC_PacketSizes == {1200}

(* The feedback run leaves out loss and RTT reports: they only move the   *)
(* loss-based target, which the google_cc run covers.                     *)
MC_NoLossReports == {}
MC_NoRttInputs == {}
=============================================================================
