------------------------ MODULE LinkCapacityEstimator ------------------------
(***************************************************************************)
(* LinkCapacityEstimator (link_capacity_estimator.cpp): an exponentially   *)
(* smoothed estimate of the link capacity, in kbps, with a normalised      *)
(* variance that gives an interval [LowerBound, UpperBound] around it.     *)
(* The doubles of the code are kept as integers: the estimate in kbps      *)
(* rounded to nearest, the variance in hundredths.                         *)
(***************************************************************************)
EXTENDS Integers, GccUnits

(* The empty absl::optional of estimated_kbps_. *)
NoEstimate == -1

VARIABLES
  estimated_kbps,    \* NoEstimate or the estimate
  deviation_kbps     \* the normalised variance x 100, clamped to [40, 250]

capacity_vars == <<estimated_kbps, deviation_kbps>>

RECURSIVE NewtonSqrt(_, _)
NewtonSqrt(x, r) ==
  IF r * r <= x THEN r ELSE NewtonSqrt(x, (r + x \div r) \div 2)

(* floor(sqrt(x)) for x >= 0. *)
IntSqrt(x) == IF x = 0 THEN 0 ELSE NewtonSqrt(x, x)

HasEstimate == estimated_kbps /= NoEstimate

(* sqrt(deviation_kbps_ * estimated_kbps_). *)
deviation_estimate_kbps == IntSqrt((deviation_kbps * estimated_kbps) \div 100)

UpperBound ==
  IF HasEstimate THEN estimated_kbps + 3 * deviation_estimate_kbps
  ELSE PlusInfinity

LowerBound ==
  IF HasEstimate THEN Max2(estimated_kbps - 3 * deviation_estimate_kbps, 0)
  ELSE 0

InitCapacity ==
  /\ estimated_kbps = NoEstimate
  /\ deviation_kbps = 40

(* Reset empties the optional; the variance is kept. *)
Reset ==
  /\ estimated_kbps' = NoEstimate
  /\ UNCHANGED deviation_kbps

(* Mutant: the variance is not clamped. *)
UpdateFromNoClamp(before, sample_kbps) ==
  LET est   == IF before = NoEstimate THEN sample_kbps
               ELSE (95 * before + 5 * sample_kbps + 50) \div 100
      err   == est - sample_kbps
  IN /\ estimated_kbps' = est
     /\ deviation_kbps' = (95 * deviation_kbps + (500 * err * err) \div Max2(est, 1)) \div 100

(* Update(sample, 0.05): the first sample is taken as it is, later ones    *)
(* are smoothed; the variance of the error is smoothed and clamped.        *)
(* "before" is the estimate the caller's earlier statements left.          *)
UpdateFrom(before, sample_kbps) ==
  LET est   == IF before = NoEstimate THEN sample_kbps
               ELSE (95 * before + 5 * sample_kbps + 50) \div 100
      norm  == Max2(est, 1)
      err   == est - sample_kbps
      dev   == (95 * deviation_kbps + (500 * err * err) \div norm) \div 100
  IN /\ estimated_kbps' = est
     /\ deviation_kbps' = Max2(40, Min2(dev, 250))

OnoveruseDetected(acked_bitrate) == UpdateFrom(estimated_kbps, acked_bitrate)
=============================================================================
