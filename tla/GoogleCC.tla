------------------------------ MODULE GoogleCC ------------------------------
(***************************************************************************)
(* GoogleCCNetworkController (google_cc_network_controller.cpp) composed   *)
(* with the loss-based controller (LossBasedBwe) and the probe controller  *)
(* (ProbeController), driven by RtpTransportControllerSend                 *)
(* (rtp_transport_controller_send.cpp): its task queue runs the network-   *)
(* availability task, the loss and RTT reports, the transport feedback and *)
(* the 25 ms OnProcessInterval heartbeat one at a time.                    *)
(*                                                                         *)
(* A handler is a sequence of calls into the two components; `calls` holds *)
(* the calls of the running handler that are still to be made, and no      *)
(* other task starts until it is empty, as on the single task queue.  Each *)
(* call is one step of the component's own action.                         *)
(*                                                                         *)
(* The transport tasks that feed the controller are composed too:        *)
(* OnAddPacket and OnSentPacket run the TransportFeedbackAdapter, whose    *)
(* SentPacket reaches the AlrDetector, and OnTransportFeedback hands the   *)
(* adapter's packet results to OnTransportpacketsFeedback.  The pacer      *)
(* that sends the packets is the environment: it sends any packet added   *)
(* so far (again, for a retransmission), or the socket drops it and no    *)
(* sent notice follows.  Notices and reports share the FIFO task queue and *)
(* a report comes an RTT after the send, so a packet is reported received  *)
(* only after its notice has run.                                          *)
(*                                                                         *)
(* The delay-based estimator is not composed: a feedback batch delivers a  *)
(* DelayBasedBwe::Result drawn from DelayResults (module DelayBasedBwe     *)
(* models how it is computed).                                             *)
(***************************************************************************)
EXTENDS Integers, Sequences, GccUnits

CONSTANTS
  StartTime, TimeStep, MaxTime, MaxClusters,
  Constraints,        \* controller_config_.constraints: [start, min, max] kbps
  LossReports,        \* <<packets_lost, num_of_packets>> of OnTransportLoss
  RttInputs,          \* rtt_ms of OnRttUpdate
  DelayResults,       \* [updated, target, recover] of a feedback batch
  MaxNetworkChanges,  \* most network-availability changes in a behaviour
  MaxPackets,         \* transport sequence numbers 1..MaxPackets
  PacketSizes         \* sizes (bytes) of the packets OnAddPacket records

VARIABLES
  \* SendSideBandwidthEstimator
  now, first_report_time, expected_packets_since_last_loss_update,
  loss_packet_since_last_loss_update, last_fraction_lost,
  last_loss_report_time, current_target, delay_based_bitrate,
  max_bitrate_config, min_bitrate_config, min_bitrate_history,
  time_last_decrease, last_rtt, last_report, last_drop_time,
  \* ProbeController
  processed, state, start_bitrate_bps, max_bitrate_bps, estimate_bitrate_bps,
  time_of_last_drop_large_ms, bitrate_before_last_drop_large_bps,
  next_probe_cluster_id, last_time_init_probing_ms,
  min_bitrate_to_further_probe_bps, alr_start_time_ms, alr_end_time_ms,
  last_bwe_drop_probe_time_ms, issued, returned, waiting_since,
  \* GoogleCCNetworkController
  init_config,                   \* init_config_ has a value
  min_data_rate, max_data_rate, starting_rate,
  last_loss_based_bitrate, last_estimated_fraction_loss, last_estimated_rtt,
  \* RtpTransportControllerSend
  network_ok, controller, network_changes,
  \* TransportFeedbackAdapter, AlrDetector and previously_in_alr_
  history, last_ack_seq_num, alr_budget, last_send_time_ms,
  detector_alr_start_time_ms, previously_in_alr,
  next_seq,                      \* the pacer's next transport sequence number
  wire,                          \* packets whose sent notice has run
  delivered,                     \* history: [seq, sent] of the last results
  calls,                         \* calls of the running handler still to make
  stale_since                    \* history: since when the reported values lag

L == INSTANCE LossBasedBwe
       WITH InitConfig <- [start |-> 0, min |-> 0, max |-> 0],
            ConfigInputs <- {[start |-> 0, min |-> 0, max |-> 0]},
            DelayInputs <- {}
P == INSTANCE ProbeController
       WITH ConfigInputs <- {}, EstimateInputs <- {}, AlrInputs <- {}
A == INSTANCE AlrDetector WITH alr_start_time_ms <- detector_alr_start_time_ms
T == INSTANCE TransportFeedbackAdapter

loss_vars == <<first_report_time, expected_packets_since_last_loss_update,
               loss_packet_since_last_loss_update, last_fraction_lost,
               last_loss_report_time, current_target, delay_based_bitrate,
               max_bitrate_config, min_bitrate_config, min_bitrate_history,
               time_last_decrease, last_rtt, last_report, last_drop_time>>
probe_vars == <<processed, state, start_bitrate_bps, max_bitrate_bps,
                estimate_bitrate_bps, time_of_last_drop_large_ms,
                bitrate_before_last_drop_large_bps, next_probe_cluster_id,
                last_time_init_probing_ms, min_bitrate_to_further_probe_bps,
                alr_start_time_ms, alr_end_time_ms,
                last_bwe_drop_probe_time_ms, issued, returned, waiting_since>>
cc_vars == <<init_config, min_data_rate, max_data_rate, starting_rate,
             last_loss_based_bitrate, last_estimated_fraction_loss,
             last_estimated_rtt>>
tc_vars == <<network_ok, controller, network_changes>>
fb_vars == <<history, last_ack_seq_num, alr_budget, last_send_time_ms,
             detector_alr_start_time_ms, previously_in_alr, next_seq, wire,
             delivered>>
vars == <<now, loss_vars, probe_vars, cc_vars, tc_vars, fb_vars, calls,
          stale_since>>

None == -1
kGccMinBitrate == 5

(* ResetConstraints, as the two calls it makes into the components. *)
ResetCalls == <<[op |-> "ResetLoss"], [op |-> "ResetProbe"]>>

(* OnProcessInterval: the pending initial ResetConstraints, then          *)
(* UpdateEstimate, SetAlrStartTime, Process and MaybeTriggerOnNetworkChanged. *)
ProcessIntervalCallsNoTrigger(pending) ==
  (IF pending THEN ResetCalls ELSE <<>>)
    \o <<[op |-> "UpdateEstimate"], [op |-> "SetAlrStartTime"],
         [op |-> "Process"]>>

(* Mutant: the heartbeat without the ALR start-time hand-over. *)
ProcessIntervalCallsNoAlr(pending) ==
  (IF pending THEN ResetCalls ELSE <<>>)
    \o <<[op |-> "UpdateEstimate"], [op |-> "Process"], [op |-> "Trigger"]>>

ProcessIntervalCalls(pending) ==
  (IF pending THEN ResetCalls ELSE <<>>)
    \o <<[op |-> "UpdateEstimate"], [op |-> "SetAlrStartTime"],
         [op |-> "Process"], [op |-> "Trigger"]>>

(* OnNetworkOk: ResetConstraints, then MaybeTriggerOnNetworkChanged. *)
NetworkOkCalls == ResetCalls \o <<[op |-> "Trigger"]>>

(* OnTransportpacketsFeedback, after the ALR-exit branch and the delay-    *)
(* based estimator have run: an updated result lowers the loss-based      *)
(* ceiling and may trigger an update; recovery from overuse asks for a     *)
(* probe.                                                                  *)
FeedbackCalls(res) ==
  (IF res.updated THEN <<[op |-> "UpdateDelayBasedBitrate", rate |-> res.target],
                         [op |-> "Trigger"]>>
                  ELSE <<>>)
    \o (IF res.recover THEN <<[op |-> "RequestProbe"]>> ELSE <<>>)

(* The values MaybeTriggerOnNetworkChanged compares with the last ones it *)
(* reported.                                                               *)
Reported == <<last_loss_based_bitrate, last_estimated_fraction_loss,
              last_estimated_rtt>>
Current == <<L!target_bitrate, last_fraction_lost, last_rtt>>

(* Every step keeps the history variable stale_since: the instant from    *)
(* which the reported values have differed from the current ones.          *)
TrackStale ==
  stale_since' = IF Current' = Reported' THEN None
                 ELSE IF Current = Reported THEN now' ELSE stale_since

Call(op) == calls /= <<>> /\ Head(calls).op = op /\ calls' = Tail(calls)

-----------------------------------------------------------------------------
(* The calls a handler makes, one step each. *)

(* Mutant: the call with the arguments in the callee's order. *)
ResetLossInOrder ==
  /\ Call("ResetLoss")
  /\ LET min == Max2(Constraints.min, kGccMinBitrate)
         max == IF Constraints.max < min THEN min ELSE Constraints.max
         start == Max2(Constraints.start, min)
     IN /\ min_data_rate' = min
        /\ max_data_rate' = max
        /\ starting_rate' = start
        /\ L!SetBitrates(start, max, min)
  /\ UNCHANGED <<probe_vars, init_config, last_loss_based_bitrate,
                 last_estimated_fraction_loss, last_estimated_rtt, tc_vars, fb_vars>>

(* ResetConstraints, first half: clamp the constraints, then              *)
(* bandwidth_estimator_->SetBitrates(starting_rate_, min_data_rate_,       *)
(* max_data_rate_), whose parameters are (send, max, min).                 *)
ResetLoss ==
  /\ Call("ResetLoss")
  /\ LET min == Max2(Constraints.min, kGccMinBitrate)
         max == IF Constraints.max < min THEN min ELSE Constraints.max
         start == Max2(Constraints.start, min)
     IN /\ min_data_rate' = min
        /\ max_data_rate' = max
        /\ starting_rate' = start
        /\ L!SetBitrates(start, min, max)
  /\ UNCHANGED <<probe_vars, init_config, last_loss_based_bitrate,
                 last_estimated_fraction_loss, last_estimated_rtt, tc_vars, fb_vars>>

(* ResetConstraints, second half: probe_controller_->SetBitrates(min,     *)
(* start, max), an infinite max passed as -1.                              *)
ResetProbe ==
  /\ Call("ResetProbe")
  /\ P!SetBitrates(min_data_rate, starting_rate,
                   IF IsFinite(max_data_rate) THEN max_data_rate ELSE -1)
  /\ UNCHANGED <<loss_vars, cc_vars, tc_vars, fb_vars>>

UpdateEstimate ==
  /\ Call("UpdateEstimate")
  /\ L!Heartbeat
  /\ UNCHANGED <<probe_vars, cc_vars, tc_vars, fb_vars>>

SetAlrStartTime ==
  /\ Call("SetAlrStartTime")
  /\ P!SetAlrStartTime(A!GetAlrStartTime)
  /\ UNCHANGED <<loss_vars, cc_vars, tc_vars, fb_vars>>


Process ==
  /\ Call("Process")
  /\ P!Process
  /\ UNCHANGED <<loss_vars, cc_vars, tc_vars, fb_vars>>

RequestProbe ==
  /\ Call("RequestProbe")
  /\ P!RequestProbe
  /\ UNCHANGED <<loss_vars, cc_vars, tc_vars, fb_vars>>

UpdateDelayBasedBitrate ==
  /\ Call("UpdateDelayBasedBitrate")
  /\ L!UpdateDelayBasedBitrate(Head(calls).rate)
  /\ UNCHANGED <<probe_vars, cc_vars, tc_vars, fb_vars>>

(* MaybeTriggerOnNetworkChanged: when the loss-based target, the loss     *)
(* fraction or the RTT changed, remember them and hand the target to the  *)
(* ALR detector and the probe controller.                                  *)
MaybeTriggerOnNetworkChanged ==
  /\ Call("Trigger")
  /\ IF Current /= Reported
       THEN /\ last_loss_based_bitrate' = L!target_bitrate
            /\ last_estimated_fraction_loss' = last_fraction_lost
            /\ last_estimated_rtt' = last_rtt
            /\ A!SetEstimateBitrate(L!target_bitrate)
            /\ P!SetEstimateBitrates(L!target_bitrate)
       ELSE UNCHANGED <<last_loss_based_bitrate, last_estimated_fraction_loss,
                        last_estimated_rtt, probe_vars, alr_budget>>
  /\ UNCHANGED <<now, loss_vars, init_config, min_data_rate, max_data_rate,
                 starting_rate, tc_vars, history, last_ack_seq_num,
                 last_send_time_ms, detector_alr_start_time_ms,
                 previously_in_alr, next_seq, wire, delivered>>

-----------------------------------------------------------------------------
(* The tasks of RtpTransportControllerSend's queue. *)

Idle == calls = <<>>

(* The repeating task started by MaybeCreateController: one               *)
(* OnProcessInterval per instant, with init_config_ reset by it.           *)
OnProcessInterval ==
  /\ Idle /\ controller /\ ~processed
  /\ calls' = ProcessIntervalCalls(init_config)
  /\ init_config' = FALSE
  /\ UNCHANGED <<now, loss_vars, probe_vars, min_data_rate, max_data_rate,
                 starting_rate, last_loss_based_bitrate,
                 last_estimated_fraction_loss, last_estimated_rtt, tc_vars, fb_vars>>

(* The network-availability task: ignored when the state is unchanged;    *)
(* the first change to available creates the controller (whose            *)
(* OnProcessInterval runs at once) and calls OnNetworkOk twice; any later  *)
(* change, to available or not, calls OnNetworkOk once.                     *)
OnNetworkOk(ok) ==
  /\ Idle
  /\ network_ok /= ok
  /\ network_changes < MaxNetworkChanges
  /\ network_changes' = network_changes + 1
  /\ network_ok' = ok
  /\ IF controller
       THEN /\ calls' = NetworkOkCalls
            /\ UNCHANGED <<controller, init_config>>
       ELSE /\ controller' = TRUE
            /\ calls' = ProcessIntervalCalls(TRUE)
                          \o NetworkOkCalls \o NetworkOkCalls
            /\ init_config' = FALSE
  /\ UNCHANGED <<now, loss_vars, probe_vars, min_data_rate, max_data_rate,
                 starting_rate, last_loss_based_bitrate,
                 last_estimated_fraction_loss, last_estimated_rtt, fb_vars>>

(* OnNetworkUpdate's loss task: OnTransportLoss, a single call. *)
OnTransportLoss ==
  /\ Idle /\ controller
  /\ \E r \in LossReports : L!UpdatePacketsLost(r[1], r[2])
  /\ UNCHANGED <<probe_vars, cc_vars, tc_vars, fb_vars, calls>>

(* OnNetworkUpdate's RTT task: OnRttUpdate. *)
OnRttUpdate ==
  /\ Idle /\ controller
  /\ \E r \in RttInputs : L!UpdateRtt(r)
  /\ UNCHANGED <<probe_vars, cc_vars, tc_vars, fb_vars, calls>>

(* OnAddPacket: the pacer records its next packet in the adapter. *)
OnAddPacket ==
  /\ Idle
  /\ next_seq <= MaxPackets
  /\ \E size \in PacketSizes : T!AddPacket(now, next_seq, size)
  /\ next_seq' = next_seq + 1
  /\ UNCHANGED <<now, loss_vars, probe_vars, cc_vars, tc_vars, calls,
                 alr_budget, last_send_time_ms, detector_alr_start_time_ms,
                 previously_in_alr, wire, delivered>>

(* OnSentPacket: the sent notice of an added packet; the adapter's         *)
(* SentPacket, if any, goes to the controller's OnSentPacket, that is the  *)
(* ALR detector's OnByteSent.                                              *)
OnSentPacket ==
  /\ Idle
  /\ \E seq \in 1..(next_seq - 1) :
       /\ T!ProcessSentPacket(seq)
       /\ wire' = wire \cup {seq}
       /\ IF T!SentPacketMsg(seq) /= <<>> /\ controller
            THEN A!OnByteSent(T!SentPacketMsg(seq)[1].size, now)
            ELSE UNCHANGED <<alr_budget, last_send_time_ms, detector_alr_start_time_ms>>
  /\ UNCHANGED <<now, loss_vars, probe_vars, cc_vars, tc_vars, calls, next_seq,
                 previously_in_alr, delivered>>

(* A receiver report: one or two packets in sequence order, each received  *)
(* only if it went out on the wire.                                        *)
ReportEntries ==
  {e \in [seq : 1..(next_seq - 1), received : BOOLEAN] :
     e.received => e.seq \in wire}
Reports ==
  {<<e>> : e \in ReportEntries}
    \cup {r \in ReportEntries \X ReportEntries : r[1].seq < r[2].seq}

(* The ALR-exit branch at the head of OnTransportpacketsFeedback: it sets  *)
(* previously_in_alr_ to alr_start_time.has_value() and then tests it      *)
(* together with !alr_start_time; taken, it would stamp the probe          *)
(* controller's ALR end time and zero the delay-based rate (the throughput *)
(* estimator's SetAlrEndTime is left out with that estimator).             *)
AlrExit(in_alr_before, alr_start_time) ==
  in_alr_before /\ alr_start_time = None

(* OnTransportFeedback: the adapter's ProcessTransportFeedback; a message  *)
(* with packet results goes to the controller's OnTransportpacketsFeedback. *)
OnTransportFeedback ==
  /\ Idle
  /\ \E report \in Reports :
       \E results \in {T!FeedbackOutcome(report).results} :
         /\ T!ProcessTransportFeedback(report)
         /\ IF results /= <<>> /\ controller
              THEN \E res \in DelayResults :
                     /\ res.recover => Len(issued) < MaxClusters
                     /\ previously_in_alr' = (A!GetAlrStartTime /= None)
                     /\ IF AlrExit(previously_in_alr', A!GetAlrStartTime)
                          THEN /\ P!SetAlrEndTime
                               /\ calls' = <<[op |-> "UpdateDelayBasedBitrate",
                                              rate |-> 0]>> \o FeedbackCalls(res)
                          ELSE /\ UNCHANGED probe_vars
                               /\ calls' = FeedbackCalls(res)
                     /\ delivered' = {[seq |-> results[i].seq,
                                        sent |-> results[i].seq \in wire]
                                       : i \in 1..Len(results)}
              ELSE UNCHANGED <<probe_vars, previously_in_alr, calls, delivered>>
  /\ UNCHANGED <<now, loss_vars, cc_vars, tc_vars, next_seq, wire,
                 alr_budget, last_send_time_ms, detector_alr_start_time_ms>>

(* The clock moves on once the heartbeat of this instant has run. *)
Tick ==
  /\ Idle
  /\ controller => processed
  /\ now + TimeStep <= MaxTime
  /\ now' = now + TimeStep
  /\ processed' = FALSE
  /\ UNCHANGED <<loss_vars, state, start_bitrate_bps, max_bitrate_bps,
                 estimate_bitrate_bps, time_of_last_drop_large_ms,
                 bitrate_before_last_drop_large_bps, next_probe_cluster_id,
                 last_time_init_probing_ms, min_bitrate_to_further_probe_bps,
                 alr_start_time_ms, alr_end_time_ms,
                 last_bwe_drop_probe_time_ms, issued, returned, waiting_since,
                 cc_vars, tc_vars, fb_vars, calls>>

Init ==
  /\ now = StartTime
  /\ L!Constructed
  /\ P!Constructed
  /\ init_config = TRUE
  /\ min_data_rate = 0
  /\ max_data_rate = PlusInfinity
  /\ starting_rate = None
  /\ last_loss_based_bitrate = Constraints.start
  /\ last_estimated_fraction_loss = 0
  /\ last_estimated_rtt = PlusInfinity
  /\ network_ok = FALSE
  /\ controller = FALSE
  /\ network_changes = 0
  /\ calls = <<>>
  /\ T!InitAdapter
  /\ A!InitAlr
  /\ previously_in_alr = FALSE
  /\ next_seq = 1
  /\ wire = {}
  /\ delivered = {}
  /\ stale_since = IF Current = Reported THEN None ELSE now

Next ==
  /\ \/ ResetLoss \/ ResetProbe \/ UpdateEstimate \/ SetAlrStartTime
     \/ Process \/ RequestProbe \/ UpdateDelayBasedBitrate
     \/ MaybeTriggerOnNetworkChanged
     \/ OnProcessInterval \/ \E ok \in BOOLEAN : OnNetworkOk(ok)
     \/ OnTransportLoss \/ OnRttUpdate
     \/ OnAddPacket \/ OnSentPacket \/ OnTransportFeedback
     \/ Tick
  /\ TrackStale

Spec == Init /\ [][Next]_vars

-----------------------------------------------------------------------------
(* The target, loss fraction and RTT that GoogleCCNetworkController last  *)
(* reported lag behind the loss-based controller for at most one           *)
(* heartbeat: OnTransportLoss and OnRttUpdate change them without          *)
(* reporting, and only the next OnProcessInterval's                        *)
(* MaybeTriggerOnNetworkChanged catches up.                                *)
ReportedFresh ==
  (controller /\ Idle /\ stale_since /= None) => now - stale_since <= TimeStep

(* The probe controller learns of an ALR period within one heartbeat:    *)
(* the detector stamps alr_start_time_ms_ inside OnSentPacket, but only    *)
(* OnProcessInterval's SetAlrStartTime copies it into the probe            *)
(* controller, whose periodic ALR probing and RequestProbe read the copy.  *)
(* Once a heartbeat period has passed since the stamp, the copy is it.     *)
AlrStartPropagated ==
  (controller /\ Idle /\ detector_alr_start_time_ms /= None
     /\ now - detector_alr_start_time_ms > TimeStep)
    => alr_start_time_ms = detector_alr_start_time_ms

(* Whatever loss reports and delay-based results come, the loss-based    *)
(* target stays at max_data_rate_ once the controller has run its first   *)
(* task.  The spec has ResetConstraints configure the loss-based          *)
(* controller with [min, max] so that loss and the delay-based ceiling     *)
(* can cut the target down to the minimum; ResetConstraints                *)
(* (google_cc_network_controller.cpp:196) passes min and max to            *)
(* SetBitrates(send, max, min) in swapped positions, so min and max config *)
(* are both max_data_rate_ and every clamp returns the target to it.      *)
TargetPinnedAtMax ==
  (controller /\ Idle) => L!target_bitrate = max_data_rate

=============================================================================
