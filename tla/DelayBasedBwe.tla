---------------------------- MODULE DelayBasedBwe ----------------------------
(***************************************************************************)
(* DelayBasedBwe (delay_based_bwe.cpp) with its AimdRateControl.  A        *)
(* feedback batch runs the overuse detector over its packets and then      *)
(* MaybeUpdateEstimate picks one rule: back off on overuse (to the acked   *)
(* throughput, or to half the estimate when there is none), adopt a probe  *)
(* result, or let AIMD update from the detector state.                     *)
(*                                                                         *)
(* The detector is composed in: each packet of the batch, sorted by        *)
(* receive time, goes through IncomingPacketFeedback, that is the          *)
(* stream-timeout restart, InterArrivalDelta::ComputeDeltas and            *)
(* TrendlineEstimator::Update.  The ALR backoff branch is left out: it is  *)
(* guarded by alr_limited_backoff_enabled_, which is always false, and     *)
(* with it prev_bitrate_ and prev_state_, which only that branch reads.    *)
(***************************************************************************)
EXTENDS Integers, Sequences, GccUnits, AimdRateControl

IAD == INSTANCE InterArrivalDelta
TL == INSTANCE TrendlineEstimator

CONSTANTS
  TimeStep,       \* ms the clock advances per Tick
  MaxTime,        \* last instant explored
  BatchInputs,    \* feedback batches: sequences of [send, arrival] packets
  MaxFeedback,    \* most feedback batches in a behaviour
  AckedInputs,    \* acked bitrates (kbps) or NoRate
  ProbeInputs,    \* probe results (kbps) or NoRate
  StartInputs,    \* arguments of SetStartBitrate
  MinInputs,      \* arguments of SetMinBitrate
  RttInputs       \* arguments of OnRttUpdate (ms)

kGccMinBitrate == 5
kStreamTimeout == 2000
kSendTimeGroupLength == 5

NoResult == [updated |-> FALSE, target_rate |-> 0, probe |-> FALSE,
             recover_from_overusing |-> FALSE]

VARIABLES
  now,
  video_inter_arrival_delta,  \* the groups of InterArrivalDelta
  video_delay_detector,       \* the TrendlineEstimator
  last_seen_timestamp,        \* feedback time of the last packet
  has_once_detect_overuse,
  result,                  \* the Result of the last batch
  last_feedback,           \* history: the inputs of the last batch
  feedbacks                \* feedback batches so far, bounded by MaxFeedback

detector_vars == <<video_inter_arrival_delta, video_delay_detector,
                   last_seen_timestamp>>

vars == <<now, detector_vars, has_once_detect_overuse, result, last_feedback,
          feedbacks, aimd_vars>>

DetectorState == TL!State(video_delay_detector)

(* IncomingPacketFeedback, on d = the detector, the last feedback time and *)
(* the loop's recover_from_overusing and prev_detector_state: the          *)
(* detector states the packet can leave.  A first packet, or one after     *)
(* more than kStreamTimeout of silence, recreates both objects.            *)
IncomingPacketFeedback(d, pkt, at_time) ==
  LET restart == d.last_seen = PlusInfinity
                 \/ Sub(at_time, d.last_seen) > kStreamTimeout
      r == IAD!ComputeDeltas(IF restart THEN IAD!Reset ELSE d.iad,
                         at_time + pkt.send, at_time + pkt.arrival, at_time,
                         kSendTimeGroupLength)
  IN {[iad |-> r.iad, tl |-> tl, last_seen |-> at_time,
       recover |-> d.recover \/ (d.prev = Underusing /\ TL!State(tl) = Normal),
       prev |-> TL!State(tl)]
      : tl \in TL!Update(IF restart THEN TL!InitTrendline ELSE d.tl,
                          r.calculated)}

(* The loop of IncomingPacketFeedbackVector over the sorted batch: the    *)
(* outcomes after the packets of batch from the i-th on.                    *)
RECURSIVE FeedbackLoop(_, _, _, _)
FeedbackLoop(S, batch, i, at_time) ==
  IF i > Len(batch) THEN S
  ELSE FeedbackLoop(
         UNION {IncomingPacketFeedback(d, batch[i], at_time) : d \in S},
         batch, i + 1, at_time)

DetectorOutcomes(batch, at_time) ==
  FeedbackLoop({[iad |-> video_inter_arrival_delta, tl |-> video_delay_detector,
                 last_seen |-> last_seen_timestamp, recover |-> FALSE,
                 prev |-> DetectorState]},
               batch, 1, at_time)

(* UpdateEstimate of DelayBasedBwe: rate_control_.Update and its verdict. *)
UpdateResult(acked_bitrate, state, at, recover) ==
  /\ Update(acked_bitrate, state, at)
  /\ result' = [updated |-> bitrate_is_init', target_rate |-> current_bitrate',
                probe |-> FALSE, recover_from_overusing |-> recover]

MaybeUpdateEstimate(acked_bitrate, probe_bitrate, recover, state, at) ==
  IF state = Overusing
  THEN /\ has_once_detect_overuse' = TRUE
       /\ CASE acked_bitrate /= NoRate /\ TimeToReduceFurther(at, acked_bitrate) ->
                 UpdateResult(acked_bitrate, state, at, FALSE)
            [] acked_bitrate = NoRate /\ ValidEstimate
               /\ InitialTimeToReduceFurther(at) ->
                 /\ SetEstimate(LatestEstimate \div 2, at)
                 /\ result' = [NoResult EXCEPT !.updated = TRUE,
                                               !.target_rate = current_bitrate']
            [] OTHER -> /\ result' = NoResult
                        /\ UNCHANGED aimd_vars
  ELSE /\ UNCHANGED has_once_detect_overuse
       /\ IF probe_bitrate /= NoRate
          THEN /\ SetEstimate(probe_bitrate, at)
               /\ result' = [NoResult EXCEPT !.updated = TRUE, !.probe = TRUE,
                                             !.target_rate = probe_bitrate]
          ELSE UpdateResult(acked_bitrate, state, at, recover)

IncomingPacketFeedbackVector(acked_bitrate, probe_bitrate, batch) ==
  /\ ~aborted
  /\ feedbacks < MaxFeedback
  /\ feedbacks' = feedbacks + 1
  /\ \E d \in DetectorOutcomes(batch, now) :
       /\ video_inter_arrival_delta' = d.iad
       /\ video_delay_detector' = d.tl
       /\ last_seen_timestamp' = d.last_seen
       /\ MaybeUpdateEstimate(acked_bitrate, probe_bitrate, d.recover,
                              TL!State(d.tl), now)
  /\ last_feedback' = [acked |-> acked_bitrate, probe |-> probe_bitrate]
  /\ UNCHANGED now

OnRttUpdate(rtt_ms) ==
  /\ ~aborted
  /\ SetRtt(rtt_ms)
  /\ UNCHANGED <<now, detector_vars, has_once_detect_overuse, result,
                 last_feedback, feedbacks>>

DelaySetStartBitrate(start_bitrate) ==
  /\ ~aborted
  /\ SetStartBitrate(start_bitrate)
  /\ UNCHANGED <<now, detector_vars, has_once_detect_overuse, result,
                 last_feedback, feedbacks>>

DelaySetMinBitrate(min_bitrate) ==
  /\ ~aborted
  /\ SetMinBitrate(min_bitrate)
  /\ UNCHANGED <<now, detector_vars, has_once_detect_overuse, result,
                 last_feedback, feedbacks>>

Tick ==
  /\ ~aborted
  /\ now + TimeStep <= MaxTime
  /\ now' = now + TimeStep
  /\ UNCHANGED <<detector_vars, has_once_detect_overuse, result,
                 last_feedback, feedbacks, aimd_vars>>

(* The constructors, the SetMinBitrate(kGccMinBitrate) of the             *)
(* GoogleCCNetworkController constructor (which changes nothing), then the *)
(* SetStartBitrate and SetMinBitrate of the ResetConstraints that the      *)
(* first OnProcessInterval runs as the controller is created, before any   *)
(* feedback can reach it.                                                  *)
Init ==
  /\ now = 0
  /\ video_inter_arrival_delta = IAD!Reset
  /\ video_delay_detector = TL!InitTrendline
  /\ last_seen_timestamp = MinusInfinity
  /\ has_once_detect_overuse = FALSE
  /\ result = NoResult
  /\ last_feedback = [acked |-> NoRate, probe |-> NoRate]
  /\ feedbacks = 0
  /\ \E start \in StartInputs, min \in MinInputs :
       /\ min_config_bitrate = min
       /\ current_bitrate = Max2(start, min)
       /\ bitrate_is_init = TRUE
  /\ latest_estimated_throughput = kInitialMaxConfig
  /\ rtt = kDefaultRtt
  /\ time_last_bitrate_change = MinusInfinity
  /\ time_last_bitrate_decrease = MinusInfinity
  /\ time_first_throughput_estimate = MinusInfinity
  /\ rate_control_state = Hold
  /\ aborted = FALSE
  /\ InitCapacity

FeedbackStep ==
  \E a \in AckedInputs, p \in ProbeInputs, batch \in BatchInputs :
    IncomingPacketFeedbackVector(a, p, batch)

Next ==
  \/ Tick
  \/ FeedbackStep
  \/ \E r \in RttInputs : OnRttUpdate(r)
  \/ \E s \in StartInputs : DelaySetStartBitrate(s)
  \/ \E m \in MinInputs : DelaySetMinBitrate(m)

Spec == Init /\ [][Next]_vars

(***************************************************************************)
(* Properties.                                                             *)
(***************************************************************************)
OptRate == Nat \cup {NoRate}

SendTimeGroups ==
  [first_send_time : Int, send_time : Int, first_arrival : Int,
   complete_time : Int, last_system_time : Int]

TypeOK ==
  /\ now \in Nat
  /\ video_delay_detector \in [num_of_deltas : 0..TL!kDeltaCountCap,
                               overuse_counter : 0..TL!kOveruseCountCap,
                               hypothesis : BandwidthUsage]
  /\ video_inter_arrival_delta \in [current : SendTimeGroups,
                                    prev : SendTimeGroups]
  /\ last_seen_timestamp \in {MinusInfinity} \cup Nat
  /\ has_once_detect_overuse \in BOOLEAN
  /\ result \in [updated : BOOLEAN, target_rate : Nat, probe : BOOLEAN,
                 recover_from_overusing : BOOLEAN]
  /\ last_feedback \in [acked : OptRate, probe : OptRate]
  /\ feedbacks \in 0..MaxFeedback
  /\ {min_config_bitrate, current_bitrate, latest_estimated_throughput} \subseteq Nat
  /\ bitrate_is_init \in BOOLEAN
  /\ rtt \in Nat
  /\ rate_control_state \in {Hold, Increase, Decrease}
  /\ aborted \in BOOLEAN
  /\ estimated_kbps \in OptRate
  /\ deviation_kbps \in 40..250

(* Once initialised, the AIMD estimate is never below min_config_bitrate_  *)
(* whichever rule set it last: the halving on overuse without throughput,  *)
(* the backoff to the acked throughput, a probe result or SetMinBitrate.   *)
EstimateAboveMin ==
  ~aborted /\ bitrate_is_init => current_bitrate >= min_config_bitrate

(* The delay-based estimate that a feedback batch passes upstream only     *)
(* rises when the batch carries a probe result: no path of ChangeBitrate   *)
(* raises the rate, because ChangeState never enters kReIncrease.  (A step *)
(* that counts a batch is a FeedbackStep: no other action changes          *)
(* feedbacks.)                                                             *)
RisesOnlyByProbe ==
  [][feedbacks' = feedbacks + 1 /\ ~aborted' /\ current_bitrate' > current_bitrate
       => result'.probe]_vars

(* The controller never dies on a feedback batch: Update never reads the   *)
(* link capacity estimate while it is empty.                               *)
NoAbort == ~aborted

(* No sample ever reaches the trendline, whatever the batches: the spec   *)
(* has every group transition of InterArrivalDelta compute the deltas to   *)
(* the previous group and feed them to TrendlineEstimator, which reports   *)
(* Overusing after two of them.  As written (inter_arrival_delta.cpp:42)   *)
(* the delta branch runs only while the previous group is unset, the       *)
(* clock-offset guard then resets both groups, and ComputeDeltas never     *)
(* returns calculated_delta; the detector stays Normal for ever.           *)
NoDeltaReachesTrendline == video_delay_detector.num_of_deltas = 0
=============================================================================
