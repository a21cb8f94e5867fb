------------------------- MODULE TrendlineEstimator -------------------------
(***************************************************************************)
(* TrendlineEstimator (trendline_estimator.cpp): the overuse detector.     *)
(* Each computed delta updates a least-squares trend of the smoothed       *)
(* delay and Detect compares the gained trend with an adaptive threshold.  *)
(* The regression and the threshold are abstracted to the outcome of that  *)
(* comparison, chosen freely: the trend is above the threshold, below its  *)
(* negative, or between, and whether the overuse time (>10 ms) and the     *)
(* rising trend confirm an overuse.  The control of Detect is kept: the    *)
(* two-sample guard, the overuse counter and its resets.                   *)
(* UpdateTrendline passes the absolute send time as Detect's ts_delta, so  *)
(* time_over_using_ exceeds 10 ms at once; "confirmed" then stands for the *)
(* rising trend (trend > prev_trend_).                                     *)
(*                                                                         *)
(* The file does not compile as written (modiied_trend, static<double>,    *)
(* an undeclared send_time in Update); the model follows the evident       *)
(* intent of each statement.                                               *)
(***************************************************************************)
EXTENDS Integers, GccUnits

(* The outcome of comparing modified_trend with threshold_. *)
Levels == {"above", "below", "within"}

(* num_of_deltas_ is only compared with 2 (the trend gain min(n, 60) is    *)
(* part of the abstracted comparison), so it is kept saturated at 2.       *)
kDeltaCountCap == 2

(* overuse_counter_ is only compared with 1: saturated at 2 likewise. *)
kOveruseCountCap == 2

InitTrendline ==
  [num_of_deltas |-> 0, overuse_counter |-> 0, hypothesis |-> Normal]

State(tl) == tl.hypothesis

(* Detect, after UpdateTrendline has counted the sample. *)
Detect(tl, level, confirmed) ==
  IF tl.num_of_deltas < 2
  THEN [tl EXCEPT !.hypothesis = Normal]
  ELSE CASE level = "above" ->
              IF confirmed /\ tl.overuse_counter + 1 > 1
              THEN [tl EXCEPT !.overuse_counter = 0, !.hypothesis = Overusing]
              ELSE [tl EXCEPT !.overuse_counter = Min2(@ + 1, kOveruseCountCap)]
         [] level = "below" ->
              [tl EXCEPT !.overuse_counter = 0, !.hypothesis = Underusing]
         [] level = "within" ->
              [tl EXCEPT !.overuse_counter = 0, !.hypothesis = Normal]

UpdateTrendline(tl, level, confirmed) ==
  Detect([tl EXCEPT !.num_of_deltas = Min2(@ + 1, kDeltaCountCap)],
         level, confirmed)

(* Update: the detector states a packet can leave; only a computed delta   *)
(* reaches the trendline.                                                  *)
Update(tl, calculated_delta) ==
  IF calculated_delta
  THEN {UpdateTrendline(tl, l, c) : l \in Levels, c \in BOOLEAN}
  ELSE {tl}
=============================================================================
