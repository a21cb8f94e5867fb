--------------------------- MODULE AimdRateControl ---------------------------
(***************************************************************************)
(* AimdRateControl (aimd_rate_control.cpp): the delay-based rate, driven   *)
(* by the overuse detector's BandwidthUsage through the states Hold,       *)
(* Increase and Decrease, with a LinkCapacityEstimator that chooses        *)
(* between multiplicative and additive increase.  Rates are in kbps,       *)
(* times in ms.  The operations are action operators over the variables   *)
(* below; DelayBasedBwe composes them into whole handlers.                 *)
(***************************************************************************)
EXTENDS Integers, GccUnits, LinkCapacityEstimator

Hold == "kReHold"
Increase == "kReIncrease"
Decrease == "kReDecrease"

(* The empty absl::optional<DataRate>. *)
NoRate == -1

(* Constants of aimd_rate_control.cpp, in ms and kbps. *)
kDefaultRtt == 200
kInitTime == 5000
kInitialMinConfig == 5
kInitialMaxConfig == 30000

(* kDefaultBackoffFactor = 1.085, applied to a rate in kbps. *)
Backoff(rate) == (rate * 1085) \div 1000

VARIABLES
  min_config_bitrate,
  current_bitrate,
  latest_estimated_throughput,
  bitrate_is_init,
  rtt,
  time_last_bitrate_change,
  time_last_bitrate_decrease,
  time_first_throughput_estimate,
  rate_control_state,
  aborted        \* the process has terminated (std::bad_optional_access)

aimd_vars == <<min_config_bitrate, current_bitrate, latest_estimated_throughput,
               bitrate_is_init, rtt, time_last_bitrate_change,
               time_last_bitrate_decrease, time_first_throughput_estimate,
               rate_control_state, aborted, estimated_kbps, deviation_kbps>>

ValidEstimate == bitrate_is_init
LatestEstimate == current_bitrate

(* Mutant: no lower clamp. *)
ClampBitrateNone(new_bitrate) == new_bitrate

ClampBitrate(new_bitrate) == Max2(new_bitrate, min_config_bitrate)

(* TimeToReduceFurther: one RTT since the last change, or the throughput   *)
(* is below half the current estimate.  (bitrate_reduction_interval is     *)
(* computed but not used.)                                                 *)
TimeToReduceFurther(at, estimated_throughput) ==
  \/ Sub(at, time_last_bitrate_change) >= rtt
  \/ ValidEstimate /\ 2 * estimated_throughput < LatestEstimate

(* LatestEstimate()/2 - 1 bps is always below half of LatestEstimate(),    *)
(* so the second disjunct of TimeToReduceFurther holds.                    *)
InitialTimeToReduceFurther(at) == ValidEstimate

(* alpha = 1.08^min(dt, 1 s); the increase is current * (alpha - 1), at   *)
(* least 1 kbps.  The power is taken linear in dt: 8% per second.          *)
MultiplicativeIncrease(at, last_time, rate) ==
  LET dt == IF IsFinite(last_time) THEN Min2(Sub(at, last_time), 1000) ELSE 1000
  IN Max2((rate * 8 * dt) \div 100000, 1)

(* GetNearMaxIncreaseRateBpsPerSecond: one average packet of a 30 fps      *)
(* frame of at most 1200-byte packets per RTT + 100 ms, at least 4000 bps. *)
NearMaxIncreaseRateBps(rate) ==
  LET frame_bits == (rate * 1000) \div 30
      packets == Max2((frame_bits + 9599) \div 9600, 1)
      avg_bits == frame_bits \div packets
  IN Max2((avg_bits * 1000) \div (rtt + 100), 4000)

AdditiveRateIncrease(at, last_time, rate) ==
  (NearMaxIncreaseRateBps(rate) * Min2(Sub(at, last_time), 1000000)) \div 1000000

(* Mutant: Normal moves Hold to Increase. *)
ChangeStateToIncrease(state) ==
  CASE state = Normal -> IF rate_control_state = Hold THEN Increase
                         ELSE rate_control_state
    [] state = Overusing -> Decrease
    [] state = Underusing -> Hold

(* ChangeState: as written, Normal moves Hold to Decrease; nothing moves  *)
(* to Increase.  The condition "rate_control_state_ = kReHold" is taken    *)
(* as the comparison it stands for.                                        *)
ChangeState(state) ==
  CASE state = Normal -> IF rate_control_state = Hold THEN Decrease
                         ELSE rate_control_state
    [] state = Overusing -> Decrease
    [] state = Underusing -> Hold

SetStartBitrate(start_bitrate) ==
  /\ current_bitrate' = start_bitrate
  /\ bitrate_is_init' = TRUE
  /\ UNCHANGED <<min_config_bitrate, latest_estimated_throughput, rtt,
                 time_last_bitrate_change, time_last_bitrate_decrease,
                 time_first_throughput_estimate, rate_control_state, aborted,
                 capacity_vars>>

SetMinBitrate(min_bitrate) ==
  /\ min_config_bitrate' = min_bitrate
  /\ current_bitrate' = Max2(current_bitrate, min_bitrate)
  /\ UNCHANGED <<latest_estimated_throughput, bitrate_is_init, rtt,
                 time_last_bitrate_change, time_last_bitrate_decrease,
                 time_first_throughput_estimate, rate_control_state, aborted,
                 capacity_vars>>

SetRtt(new_rtt) ==
  /\ rtt' = new_rtt
  /\ UNCHANGED <<min_config_bitrate, current_bitrate, latest_estimated_throughput,
                 bitrate_is_init, time_last_bitrate_change,
                 time_last_bitrate_decrease, time_first_throughput_estimate,
                 rate_control_state, aborted, capacity_vars>>

SetEstimate(new_bitrate, at) ==
  /\ bitrate_is_init' = TRUE
  /\ current_bitrate' = ClampBitrate(new_bitrate)
  /\ time_last_bitrate_change' = at
  /\ time_last_bitrate_decrease' =
       IF ClampBitrate(new_bitrate) < current_bitrate THEN at
       ELSE time_last_bitrate_decrease
  /\ UNCHANGED <<min_config_bitrate, latest_estimated_throughput, rtt,
                 time_first_throughput_estimate, rate_control_state, aborted,
                 capacity_vars>>

(***************************************************************************)
(* ChangeBitrate and Update.  The Decrease case reads                      *)
(* link_capacity.Estimate() when the backed-off throughput is above the    *)
(* current rate; Estimate() is .value() of an optional, which aborts the   *)
(* process (std::bad_optional_access) when it is empty.                    *)
(***************************************************************************)
IncreaseStep(at, current0, init0, estimated_throughput) ==
  LET limit    == (3 * estimated_throughput) \div 2 + 10
      reset    == estimated_throughput > UpperBound
      additive == HasEstimate /\ ~reset
      increased == current0 +
                   IF additive
                   THEN AdditiveRateIncrease(at, time_last_bitrate_change, current0)
                   ELSE MultiplicativeIncrease(at, time_last_bitrate_change, current0)
      new_bitrate == IF current0 < limit THEN Min2(increased, limit) ELSE current0
  IN /\ current_bitrate' = ClampBitrate(new_bitrate)
     /\ bitrate_is_init' = init0
     /\ rate_control_state' = Increase
     /\ time_last_bitrate_change' = at
     /\ estimated_kbps' = IF reset THEN NoEstimate ELSE estimated_kbps
     /\ UNCHANGED <<time_last_bitrate_decrease, deviation_kbps>>

DecreaseStep(at, current0, estimated_throughput) ==
  LET backed_off == Backoff(estimated_throughput)
      decreased  == IF backed_off > current0 THEN Backoff(estimated_kbps)
                    ELSE backed_off
      reset      == estimated_throughput < LowerBound
  IN /\ current_bitrate' = ClampBitrate(IF decreased < current0 THEN decreased
                                        ELSE current0)
     /\ UpdateFrom(IF reset THEN NoEstimate ELSE estimated_kbps,
                   estimated_throughput)
     /\ bitrate_is_init' = TRUE
     /\ rate_control_state' = Hold
     /\ time_last_bitrate_change' = at
     /\ time_last_bitrate_decrease' = at

(* ChangeBitrate, from current_bitrate_ and bitrate_is_init_ as the grace *)
(* period of Update left them (current0, init0).                           *)
ChangeBitrate(acked_bitrate, state, at, current0, init0) ==
  LET estimated_throughput ==
        IF acked_bitrate /= NoRate THEN acked_bitrate
        ELSE latest_estimated_throughput
      new_state == ChangeState(state)
  IN
  IF (init0 \/ state = Overusing) /\ new_state = Decrease
     /\ Backoff(estimated_throughput) > current0 /\ ~HasEstimate
  THEN /\ aborted' = TRUE
       /\ UNCHANGED <<min_config_bitrate, current_bitrate,
                      latest_estimated_throughput, bitrate_is_init, rtt,
                      time_last_bitrate_change, time_last_bitrate_decrease,
                      rate_control_state, capacity_vars>>
  ELSE
  /\ latest_estimated_throughput' = estimated_throughput
  /\ UNCHANGED <<min_config_bitrate, rtt, aborted>>
  /\ IF ~init0 /\ state /= Overusing
     THEN /\ current_bitrate' = current0
          /\ bitrate_is_init' = init0
          /\ UNCHANGED <<time_last_bitrate_change, time_last_bitrate_decrease,
                         rate_control_state, capacity_vars>>
     ELSE CASE new_state = Hold ->
                 /\ current_bitrate' = ClampBitrate(current0)
                 /\ bitrate_is_init' = init0
                 /\ rate_control_state' = Hold
                 /\ UNCHANGED <<time_last_bitrate_change,
                                time_last_bitrate_decrease, capacity_vars>>
            [] new_state = Increase ->
                 IncreaseStep(at, current0, init0, estimated_throughput)
            [] new_state = Decrease ->
                 DecreaseStep(at, current0, estimated_throughput)

(* Update: during the first kInitTime without a start bitrate, the first  *)
(* throughput estimate after kInitTime becomes the rate.                   *)
Update(throughput_estimate, state, at) ==
  LET adopt == /\ ~bitrate_is_init
               /\ IsFinite(time_first_throughput_estimate)
               /\ Sub(at, time_first_throughput_estimate) > kInitTime
               /\ throughput_estimate /= NoRate
  IN
  /\ time_first_throughput_estimate' =
       IF ~bitrate_is_init /\ IsInfinite(time_first_throughput_estimate)
       THEN at ELSE time_first_throughput_estimate
  /\ ChangeBitrate(throughput_estimate, state, at,
                   IF adopt THEN throughput_estimate ELSE current_bitrate,
                   bitrate_is_init \/ adopt)

(* The constructor. *)
InitAimd ==
  /\ min_config_bitrate = kInitialMinConfig
  /\ current_bitrate = kInitialMaxConfig
  /\ latest_estimated_throughput = kInitialMaxConfig
  /\ bitrate_is_init = FALSE
  /\ rtt = kDefaultRtt
  /\ time_last_bitrate_change = MinusInfinity
  /\ time_last_bitrate_decrease = MinusInfinity
  /\ time_first_throughput_estimate = MinusInfinity
  /\ rate_control_state = Hold
  /\ aborted = FALSE
  /\ InitCapacity
=============================================================================
