---------------------------- MODULE LossBasedBwe ----------------------------
(***************************************************************************)
(* The loss-based rate controller, class SendSideBandwidthEstimator        *)
(* (send_side_bandwidth_estimator.cpp).  It folds receiver loss reports    *)
(* into a Q8 loss fraction, raises the target while loss is low, holds it  *)
(* for moderate loss, cuts it for high loss at most once per 1 s + RTT,    *)
(* and clamps every target to [min config, min(max config, delay-based)].  *)
(*                                                                         *)
(* Every public method is one action.  The clock "now" advances in steps   *)
(* of TimeStep ms; any number of calls may happen at one instant, as on    *)
(* the congestion-control task queue.  Rates are in kbps.                  *)
(***************************************************************************)
EXTENDS Integers, Sequences, GccUnits

CONSTANTS
  TimeStep,      \* ms the clock advances per Tick
  MaxTime,       \* last instant explored
  InitConfig,    \* [start, min, max] of the first SetBitrates
  ConfigInputs,  \* later SetBitrates arguments, records [start, min, max]
  DelayInputs,   \* rates passed to UpdateDelayBasedBitrate (0 = reset)
  LossReports,   \* <<packets_lost, num_of_packets>> of OnTransportLoss
  RttInputs      \* rtt values of OnRttUpdate, ms

ASSUME TimeStep \in Nat \ {0} /\ MaxTime \in Nat
ASSUME InitConfig \in ConfigInputs

(* Constants of send_side_bandwidth_estimator.cpp. *)
kLimitNumPackets         == 20
kStartPhase              == 2000
kDefaultMaxBitrate       == 1000000
kDefaultMinBitrate       == 5
kBweIncreaseInterval     == 1000
kMaxRtcpFeedbackInterval == 5000

VARIABLES
  now,
  first_report_time,
  expected_packets_since_last_loss_update,
  loss_packet_since_last_loss_update,
  last_fraction_lost,
  last_loss_report_time,
  current_target,
  delay_based_bitrate,
  max_bitrate_config,
  min_bitrate_config,
  min_bitrate_history,   \* deque of [t, rate], front = Head
  time_last_decrease,
  last_rtt,
  last_report,           \* history: packets lost/expected behind last_fraction_lost
  last_drop_time         \* history: instant of the last loss-driven target drop

vars == <<now, first_report_time, expected_packets_since_last_loss_update,
          loss_packet_since_last_loss_update, last_fraction_lost,
          last_loss_report_time, current_target, delay_based_bitrate,
          max_bitrate_config, min_bitrate_config, min_bitrate_history,
          time_last_decrease, last_rtt, last_report, last_drop_time>>

(***************************************************************************)
(* Helpers.                                                                *)
(***************************************************************************)

target_bitrate == Max2(current_target, min_bitrate_config)

GetUpperLimit == Min2(delay_based_bitrate, max_bitrate_config)

(* The clamp of UpdateTargetBitrate, as a value. *)
Clamped(new_bitrate) ==
  Max2(Min2(new_bitrate, GetUpperLimit), min_bitrate_config)

IsInStartPhase(at, first_report) ==
  IsInfinite(first_report) \/ Sub(at, first_report) < kStartPhase

(* bps * 1.08 + 0.5 truncated, plus 1000 bps, expressed in kbps. *)
IncreaseFrom(rate) == (rate * 108 + 50) \div 100 + 1

(* bps * (512 - fraction) / 512 truncated. *)
DecreaseBy(rate, fraction) == (rate * (512 - fraction)) \div 512

(* loss < 0.02 and loss <= 0.1 for loss = fraction / 256. *)
IsLowLoss(fraction)  == fraction * 100 < 2 * 256
IsHighLoss(fraction) == fraction * 10 > 256

(* Mutant: the spacing of decreases forgets the RTT. *)
DecreaseAllowedNoRtt(at) == Sub(at, time_last_decrease) >= kBweIncreaseInterval

(* The rate limit of the loss rule: 1 s + RTT since the last decrease. *)
DecreaseAllowed(at) ==
  Sub(at, time_last_decrease) >= kBweIncreaseInterval + last_rtt

(* Mutant: a batch of exactly kLimitNumPackets is still carried forward. *)
IsSmallBatchOffByOne(expected) == expected <= kLimitNumPackets

(* Batches below kLimitNumPackets expected packets are carried forward. *)
IsSmallBatch(expected) == expected < kLimitNumPackets

RECURSIVE PopOld(_, _)
PopOld(h, at) ==
  IF h /= <<>> /\ Sub(at, Head(h).t) > kBweIncreaseInterval
  THEN PopOld(Tail(h), at) ELSE h

(* Mutant: pops only entries above the rate, keeping equal ones. *)
RECURSIVE PopGreater(_, _)
PopGreater(h, rate) ==
  IF h /= <<>> /\ h[Len(h)].rate > rate
  THEN PopGreater(SubSeq(h, 1, Len(h) - 1), rate) ELSE h

RECURSIVE PopNotLess(_, _)
PopNotLess(h, rate) ==
  IF h /= <<>> /\ h[Len(h)].rate >= rate
  THEN PopNotLess(SubSeq(h, 1, Len(h) - 1), rate) ELSE h

(* UpdateMinHistory: drop entries older than 1 s and not below the target, *)
(* then push the current target.                                           *)
UpdateMinHistory(at) ==
  Append(PopNotLess(PopOld(min_bitrate_history, at), current_target),
         [t |-> at, rate |-> current_target])

(***************************************************************************)
(* UpdateEstimate(at): the decision shared by the heartbeat and by a loss  *)
(* report, over the fraction, report time and first report time that the  *)
(* caller has just written.                                                *)
(***************************************************************************)
UpdateEstimate(at, fraction, report_time, first_report) ==
  LET start_bitrate == IF IsFinite(delay_based_bitrate)
                       THEN Max2(current_target, delay_based_bitrate)
                       ELSE current_target
      hist == UpdateMinHistory(at)
  IN
  /\ IF fraction = 0 /\ IsInStartPhase(at, first_report) /\ start_bitrate /= current_target
     THEN /\ min_bitrate_history' = << [t |-> at, rate |-> start_bitrate] >>
          /\ current_target' = Clamped(start_bitrate)
          /\ UNCHANGED <<time_last_decrease>>
     ELSE /\ min_bitrate_history' = hist
          /\ IF Sub(at, report_time) > (12 * kMaxRtcpFeedbackInterval) \div 10
             THEN /\ UNCHANGED <<current_target, time_last_decrease>>
             ELSE IF IsLowLoss(fraction)
             THEN /\ current_target' = Clamped(IncreaseFrom(hist[Len(hist)].rate))
                  /\ UNCHANGED <<time_last_decrease>>
             ELSE IF IsHighLoss(fraction) /\ DecreaseAllowed(at)
             THEN /\ time_last_decrease' = at
                  /\ current_target' = Clamped(DecreaseBy(current_target, fraction))
             ELSE /\ current_target' = Clamped(current_target)
                  /\ UNCHANGED <<time_last_decrease>>
  \* history: the instant of every cut of the target
  /\ last_drop_time' = IF current_target' < current_target THEN at
                       ELSE last_drop_time

(***************************************************************************)
(* Actions, one per public method.                                         *)
(***************************************************************************)

(* The periodic OnProcessInterval calls UpdateEstimate(now). *)
Heartbeat ==
  /\ UpdateEstimate(now, last_fraction_lost, last_loss_report_time,
                 first_report_time)
  /\ UNCHANGED <<now, first_report_time, expected_packets_since_last_loss_update,
                 loss_packet_since_last_loss_update, last_fraction_lost,
                 last_loss_report_time, delay_based_bitrate, max_bitrate_config,
                 min_bitrate_config, last_rtt, last_report,
                 last_drop_time>>

UpdatePacketsLost(packets_lost, num_of_packets) ==
  LET expected == expected_packets_since_last_loss_update + num_of_packets
      lost     == loss_packet_since_last_loss_update + packets_lost
      fraction == ToUint8(TruncDiv(lost * 256, expected))
  IN
  /\ first_report_time' = IF IsInfinite(first_report_time) THEN now
                          ELSE first_report_time
  /\ IF num_of_packets <= 0
     THEN UNCHANGED <<expected_packets_since_last_loss_update,
                      loss_packet_since_last_loss_update, last_fraction_lost,
                      last_loss_report_time, current_target,
                      min_bitrate_history, time_last_decrease, last_report,
                      last_drop_time>>
     ELSE IF IsSmallBatch(expected)
     THEN /\ expected_packets_since_last_loss_update' = expected
          /\ loss_packet_since_last_loss_update' = lost
          /\ UNCHANGED <<last_fraction_lost, last_loss_report_time,
                         current_target, min_bitrate_history,
                         time_last_decrease, last_report, last_drop_time>>
     ELSE /\ last_fraction_lost' = fraction
          /\ expected_packets_since_last_loss_update' = 0
          /\ loss_packet_since_last_loss_update' = 0
          /\ last_loss_report_time' = now
          /\ last_report' = [lost |-> lost, expected |-> expected]
          /\ UpdateEstimate(now, fraction, now, first_report_time')
  /\ UNCHANGED <<now, delay_based_bitrate, max_bitrate_config,
                 min_bitrate_config, last_rtt>>

(* Mutant: the new ceiling is stored but the target is not re-clamped. *)
UpdateDelayBasedBitrateNoClamp(bitrate) ==
  /\ delay_based_bitrate' = IF bitrate = 0 THEN PlusInfinity ELSE bitrate
  /\ UNCHANGED <<now, first_report_time, expected_packets_since_last_loss_update,
                 loss_packet_since_last_loss_update, last_fraction_lost,
                 last_loss_report_time, current_target, max_bitrate_config,
                 min_bitrate_config, min_bitrate_history, time_last_decrease,
                 last_rtt, last_report, last_drop_time>>

UpdateDelayBasedBitrate(bitrate) ==
  LET ceiling == IF bitrate = 0 THEN PlusInfinity ELSE bitrate IN
  /\ delay_based_bitrate' = ceiling
  /\ current_target' = Max2(Min2(current_target, Min2(ceiling, max_bitrate_config)),
                            min_bitrate_config)
  /\ UNCHANGED <<now, first_report_time, expected_packets_since_last_loss_update,
                 loss_packet_since_last_loss_update, last_fraction_lost,
                 last_loss_report_time, max_bitrate_config, min_bitrate_config,
                 min_bitrate_history, time_last_decrease, last_rtt, last_report, last_drop_time>>

(* SetMinMaxBitrate, as the two values it stores. *)
MinConfig(min_bitrate) == Max2(min_bitrate, kDefaultMinBitrate)
MaxConfig(min_cfg, max_bitrate) ==
  IF max_bitrate > 0 /\ IsFinite(max_bitrate)
  THEN Max2(min_cfg, max_bitrate) ELSE kDefaultMaxBitrate

(* SetBitrates = SetMinMaxBitrate, then SetSendBitrate. *)
SetBitrates(send_bitrate, max_bitrate, min_bitrate) ==
  LET min_cfg == MinConfig(min_bitrate)
      max_cfg == MaxConfig(min_cfg, max_bitrate)
  IN
  /\ min_bitrate_config' = min_cfg
  /\ max_bitrate_config' = max_cfg
  /\ delay_based_bitrate' = PlusInfinity
  /\ current_target' = Max2(Min2(send_bitrate, max_cfg), min_cfg)
  /\ min_bitrate_history' = <<>>
  /\ UNCHANGED <<now, first_report_time, expected_packets_since_last_loss_update,
                 loss_packet_since_last_loss_update, last_fraction_lost,
                 last_loss_report_time, time_last_decrease, last_rtt,
                 last_report, last_drop_time>>

UpdateRtt(rtt) ==
  /\ last_rtt' = IF rtt > 0 THEN rtt ELSE last_rtt
  /\ UNCHANGED <<now, first_report_time, expected_packets_since_last_loss_update,
                 loss_packet_since_last_loss_update, last_fraction_lost,
                 last_loss_report_time, current_target, delay_based_bitrate,
                 max_bitrate_config, min_bitrate_config, min_bitrate_history,
                 time_last_decrease, last_report, last_drop_time>>

Tick ==
  /\ now + TimeStep <= MaxTime
  /\ now' = now + TimeStep
  /\ UNCHANGED <<first_report_time, expected_packets_since_last_loss_update,
                 loss_packet_since_last_loss_update, last_fraction_lost,
                 last_loss_report_time, current_target, delay_based_bitrate,
                 max_bitrate_config, min_bitrate_config, min_bitrate_history,
                 time_last_decrease, last_rtt, last_report, last_drop_time>>

(* The state the constructor leaves (all but the clock). *)
Constructed ==
  /\ first_report_time = MinusInfinity
  /\ expected_packets_since_last_loss_update = 0
  /\ loss_packet_since_last_loss_update = 0
  /\ last_fraction_lost = 0
  /\ last_loss_report_time = MinusInfinity
  /\ min_bitrate_config = kDefaultMinBitrate
  /\ max_bitrate_config = kDefaultMaxBitrate
  /\ delay_based_bitrate = PlusInfinity
  /\ current_target = 0
  /\ min_bitrate_history = <<>>
  /\ time_last_decrease = MinusInfinity
  /\ last_rtt = 0
  /\ last_report = [lost |-> 0, expected |-> 0]
  /\ last_drop_time = MinusInfinity

(* The constructor, followed by a first SetBitrates(InitConfig).  In the   *)
(* system that call comes from ResetConstraints, with min and max swapped  *)
(* (see GoogleCC); here the component is checked for correct arguments.    *)
Init ==
  /\ now = 0
  /\ first_report_time = MinusInfinity
  /\ expected_packets_since_last_loss_update = 0
  /\ loss_packet_since_last_loss_update = 0
  /\ last_fraction_lost = 0
  /\ last_loss_report_time = MinusInfinity
  /\ min_bitrate_config = MinConfig(InitConfig.min)
  /\ max_bitrate_config = MaxConfig(min_bitrate_config, InitConfig.max)
  /\ delay_based_bitrate = PlusInfinity
  /\ current_target = Max2(Min2(InitConfig.start, max_bitrate_config),
                           min_bitrate_config)
  /\ min_bitrate_history = <<>>
  /\ time_last_decrease = MinusInfinity
  /\ last_rtt = 0
  /\ last_report = [lost |-> 0, expected |-> 0]
  /\ last_drop_time = MinusInfinity

(* A later SetBitrates call, with arguments in their declared positions;  *)
(* how GoogleCCNetworkController really calls it is modelled in GoogleCC.  *)
Reconfigure == \E c \in ConfigInputs : SetBitrates(c.start, c.max, c.min)

(* A step that lowers the target while the ceiling and the configuration  *)
(* stay as they were and that is no reconfiguration (which restarts from  *)
(* the start rate): only the loss rule of UpdateEstimate can take it.      *)
LossDrop ==
  /\ current_target' < current_target
  /\ UNCHANGED <<delay_based_bitrate, min_bitrate_config, max_bitrate_config>>
  /\ ~Reconfigure

Next ==
  \/ Tick
  \/ Heartbeat
  \/ \E r \in LossReports : UpdatePacketsLost(r[1], r[2])
  \/ \E b \in DelayInputs : UpdateDelayBasedBitrate(b)
  \/ Reconfigure
  \/ \E r \in RttInputs : UpdateRtt(r)


Spec == Init /\ [][Next]_vars

(***************************************************************************)
(* Properties.                                                             *)
(***************************************************************************)
Rate == Nat \cup {PlusInfinity}
Time == Int \cup {MinusInfinity}

(* Every variable holds a value of its C++ type in the model's units. *)
TypeOK ==
  /\ now \in Nat
  /\ first_report_time \in Time
  /\ expected_packets_since_last_loss_update \in 0..(kLimitNumPackets - 1)
  /\ loss_packet_since_last_loss_update \in Int
  /\ last_fraction_lost \in 0..255
  /\ last_loss_report_time \in Time
  /\ current_target \in Nat
  /\ delay_based_bitrate \in Rate
  /\ {max_bitrate_config, min_bitrate_config} \subseteq Nat
  /\ min_bitrate_history \in Seq([t : Nat, rate : Nat])
  /\ time_last_decrease \in Time
  /\ last_rtt \in Nat
  /\ last_drop_time \in Time

(* UpdateTargetBitrate is the only writer of current_target_, but          *)
(* UpdateDelayBasedBitrate and SetBitrates move the bounds under it: after *)
(* any sequence of calls the target lies in [min config, min(max config,   *)
(* delay-based ceiling)], or at the min config when the ceiling is lower.  *)
TargetWithinLimits ==
  /\ min_bitrate_config <= current_target
  /\ current_target <= Max2(min_bitrate_config, GetUpperLimit)

(* UpdateMinHistory keeps min_bitrate_history_ a monotonic deque: times    *)
(* in push order and never ahead of the clock, rates strictly increasing   *)
(* from front to back, so that front() is the minimum of the window.       *)
MinHistoryMonotonic ==
  \A i \in 1..Len(min_bitrate_history) :
    /\ min_bitrate_history[i].t <= now
    /\ i > 1 => /\ min_bitrate_history[i - 1].t <= min_bitrate_history[i].t
                /\ min_bitrate_history[i - 1].rate < min_bitrate_history[i].rate

(* The loss rule of UpdateEstimate lowers the target at most once per      *)
(* kBweIncreaseInterval + RTT, however often the 25 ms heartbeat and the   *)
(* loss reports call it with the same high loss fraction.                  *)
DecreasesSpaced ==
  [][LossDrop => Sub(now, last_drop_time) >= kBweIncreaseInterval + last_rtt]_vars

(* The spec (section on the loss-based controller): the target is lowered  *)
(* by loss only when the reported loss exceeds 10% of the expected packets *)
(* of the batch behind last_fraction_lost_.                                *)
DecreaseOnlyOnHighLoss ==
  [][LossDrop => last_report'.lost * 10 > last_report'.expected]_vars

(* The spec: a low-loss increase goes to at most 1.08 x the minimum of the *)
(* targets of the last second, plus 1000 bps, the minimum being the front  *)
(* of min_bitrate_history_.                                                *)
IncreaseBoundedByWindowMin ==
  [][ (/\ current_target' > current_target
       /\ UNCHANGED <<delay_based_bitrate, min_bitrate_config, max_bitrate_config>>)
      => \A i \in 1..Len(min_bitrate_history') :
           current_target' <= IncreaseFrom(min_bitrate_history'[i].rate) ]_vars
=============================================================================
