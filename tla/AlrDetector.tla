----------------------------- MODULE AlrDetector -----------------------------
(***************************************************************************)
(* AlrDetector (alr_detector.cpp): application-limited regions, found      *)
(* with an IntervalBudget that builds up underuse.  Every sent packet      *)
(* spends its bytes and refills the budget for the time since the last     *)
(* one; a surplus above 80% of the window starts an ALR period, a surplus  *)
(* below 50% ends it.  The budget target is 65% of the loss-based target.  *)
(*                                                                         *)
(* The ratios are compared in percent with integers.  The member           *)
(* target_bitrate_kbps_ that SetEstimateBitrate assigns is not declared    *)
(* in the header; it is read as the evident int64 (truncating) local.      *)
(* The IntervalBudget source is not in the repository: its operators      *)
(* follow the spec's leaky bucket (and webrtc's interval_budget.cc).      *)
(***************************************************************************)
EXTENDS Integers, GccUnits

VARIABLES
  now,                 \* rtc::TimeMillis()
  alr_budget,          \* IntervalBudget: [target, max, remaining]
  last_send_time_ms,   \* an optional: None until the first packet
  alr_start_time_ms    \* an optional: None outside an ALR period

alr_vars == <<alr_budget, last_send_time_ms, alr_start_time_ms>>

None == -1

(* AlrDetectorConfig, in percent. *)
bandwidth_usage_ratio == 65
start_budget_level_ratio == 80
stop_budget_level_ratio == 50

kWindowMs == 500

(* IntervalBudget(initial_target_bitrate_kbps, can_build_up_underuse =    *)
(* true).                                                                  *)
BudgetSetTarget(b, kbps) ==
  LET max == (kWindowMs * kbps) \div 8
  IN [target |-> kbps, max |-> max,
      remaining |-> Min2(Max2(-max, b.remaining), max)]

BudgetIncrease(b, ms) ==
  [b EXCEPT !.remaining = Min2(@ + (b.target * ms) \div 8, b.max)]

BudgetUse(b, bytes) == [b EXCEPT !.remaining = Max2(@ - bytes, -b.max)]

(* budget_ratio() compared with a percentage: 0 while the window is empty. *)
RatioAbove(b, pct) == b.max > 0 /\ b.remaining * 100 > pct * b.max
RatioBelow(b, pct) == IF b.max = 0 THEN 0 < pct ELSE b.remaining * 100 < pct * b.max

InitAlr ==
  /\ alr_budget = BudgetSetTarget([remaining |-> 0], 0)
  /\ last_send_time_ms = None
  /\ alr_start_time_ms = None

(* OnByteSent: the first packet only records its time.  Otherwise the     *)
(* bytes are spent before the elapsed time refills the budget, and the     *)
(* ratio starts or ends the ALR period.                                    *)
OnByteSent(bytes, send_time_ms) ==
  IF last_send_time_ms = None
  THEN /\ last_send_time_ms' = send_time_ms
       /\ UNCHANGED <<alr_budget, alr_start_time_ms>>
  ELSE \E b \in {BudgetIncrease(BudgetUse(alr_budget, bytes),
                                send_time_ms - last_send_time_ms)} :
         /\ last_send_time_ms' = send_time_ms
         /\ alr_budget' = b
         /\ alr_start_time_ms' =
              CASE RatioAbove(b, start_budget_level_ratio)
                     /\ alr_start_time_ms = None -> now
                [] RatioBelow(b, stop_budget_level_ratio)
                     /\ alr_start_time_ms /= None -> None
                [] OTHER -> alr_start_time_ms

(* SetEstimateBitrate: the budget target is 65% of the estimate. *)
SetEstimateBitrate(target_bitrate_kbps) ==
  /\ alr_budget' = BudgetSetTarget(alr_budget,
                     (bandwidth_usage_ratio * target_bitrate_kbps) \div 100)
  /\ UNCHANGED <<last_send_time_ms, alr_start_time_ms>>

GetAlrStartTime == alr_start_time_ms
=============================================================================
