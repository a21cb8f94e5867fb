------------------------- MODULE ThroughputEstimator -------------------------
(***************************************************************************)
(* The acknowledged-throughput estimator: AcknowledgedBitrateEstimator     *)
(* (acknowledged_bitrate_estimator.cpp) feeding each acked packet to       *)
(* BitrateEstimator (bitrate_estimator.cpp).  UpdateWindow sums the bytes  *)
(* of a rate window (500 ms until the first estimate, then 100 ms) and     *)
(* yields a sample in kbps when the window is full; Update fuses the       *)
(* sample with the estimate in a one-dimensional filter.                   *)
(*                                                                         *)
(* The window bookkeeping is kept in its C++ integers.  The float filter   *)
(* is computed in exact rationals, records [n, d] with d > 0 in lowest     *)
(* terms: single-precision rounding is left out.  The estimator's -1.0f    *)
(* "unset" sentinel is kept as the rational -1.                            *)
(* The source as written iterates over one PacketResult and reads          *)
(* packet.send_packet; the model follows the evident vector and            *)
(* sent_packet.                                                            *)
(***************************************************************************)
EXTENDS Integers, Sequences, GccUnits

None == -1

kInitialRateWindowsMs == 500
kRateWindowMs == 100

-----------------------------------------------------------------------------
(* Exact rationals. *)

RECURSIVE Gcd(_, _)
Gcd(a, b) == IF b = 0 THEN a ELSE Gcd(b, a % b)

Abs(x) == IF x < 0 THEN -x ELSE x

Q(n, d) ==
  LET g == Gcd(Abs(n), Abs(d))
      s == IF d < 0 THEN -1 ELSE 1
  IN [n |-> s * (n \div g), d |-> s * (d \div g)]

QInt(n) == [n |-> n, d |-> 1]
QAdd(a, b) == Q(a.n * b.d + b.n * a.d, a.d * b.d)
QSub(a, b) == Q(a.n * b.d - b.n * a.d, a.d * b.d)
QMul(a, b) == Q(a.n * b.n, a.d * b.d)
QDiv(a, b) == Q(a.n * b.d, a.d * b.n)
QAbs(a) == [a EXCEPT !.n = Abs(@)]
QLess(a, b) == a.n * b.d < b.n * a.d

-----------------------------------------------------------------------------
(* BitrateEstimator as its member initialisers leave it. *)
InitBitrateEstimator ==
  [bitrate_estimate_kbps |-> QInt(-1), bitrate_estimate_var |-> QInt(50),
   prev_time_ms |-> -1, current_window_ms |-> 0, sum |-> 0]

(* UpdateWindow: the next state and the sample (-1 while the window is   *)
(* not full).  A clock that went back restarts the window; a gap longer   *)
(* than the window drops its bytes.  prev_time_ms_ > 0 takes a time of 0  *)
(* as unset.                                                              *)
UpdateWindow(b, now_ms, bytes, rate_window_ms) ==
  LET r == IF now_ms < b.prev_time_ms
           THEN [b EXCEPT !.prev_time_ms = -1, !.current_window_ms = 0, !.sum = 0]
           ELSE b
      gap == now_ms - r.prev_time_ms
      w == IF r.prev_time_ms > 0
           THEN IF gap > rate_window_ms
                THEN [r EXCEPT !.current_window_ms = (@ + gap) % rate_window_ms,
                               !.sum = 0]
                ELSE [r EXCEPT !.current_window_ms = @ + gap]
           ELSE r
      full == w.current_window_ms >= rate_window_ms
      sample == IF full THEN Q(w.sum * 8, rate_window_ms) ELSE QInt(-1)
      out == [w EXCEPT !.prev_time_ms = now_ms,
                       !.current_window_ms = IF full THEN @ - rate_window_ms ELSE @,
                       !.sum = (IF full THEN 0 ELSE @) + bytes]
  IN [state |-> out, sample |-> sample]

(* The filter step with the prior estimate as the mean (the spec's        *)
(* variance-weighted average), kept for comparison.                       *)
Posterior(e, var, sample) ==
  LET sample_uncertainty == QDiv(QMul(QInt(10), QAbs(QSub(sample, e))), e)
      sample_var == QMul(sample_uncertainty, sample_uncertainty)
      pred_estimate_var == QAdd(var, QInt(5))
  IN [estimate |-> QDiv(QAdd(QMul(sample_var, e), QMul(pred_estimate_var, sample)),
                        QAdd(sample_var, pred_estimate_var)),
      var |-> QDiv(QMul(sample_var, pred_estimate_var),
                   QAdd(sample_var, pred_estimate_var))]

(* The filter step as written (line 43): the numerator weighs             *)
(* bitrate_estimate_var_ where the prior estimate belongs.                *)
PosteriorAsWritten(e, var, sample) ==
  LET sample_uncertainty == QDiv(QMul(QInt(10), QAbs(QSub(sample, e))), e)
      sample_var == QMul(sample_uncertainty, sample_uncertainty)
      pred_estimate_var == QAdd(var, QInt(5))
  IN [estimate |-> QDiv(QAdd(QMul(sample_var, var), QMul(pred_estimate_var, sample)),
                        QAdd(sample_var, pred_estimate_var)),
      var |-> QDiv(QMul(sample_var, pred_estimate_var),
                   QAdd(sample_var, pred_estimate_var))]

Unset(b) == QLess(b.bitrate_estimate_kbps, QInt(0))

(* Mutant: the short window from the start. *)
RateWindowFixed(b, at_time, amount) ==
  UpdateWindow(b, at_time, amount, kRateWindowMs)

(* The window Update asks for: the long one until the first estimate. *)
RateWindow(b, at_time, amount) ==
  UpdateWindow(b, at_time, amount,
               IF Unset(b) THEN kInitialRateWindowsMs ELSE kRateWindowMs)

(* Update: a full window's sample seeds the estimate or is fused with it. *)
Update(b, at_time, amount) ==
  LET u == RateWindow(b, at_time, amount)
      w == u.state
  IN IF QLess(u.sample, QInt(0)) THEN w
     ELSE IF Unset(b) THEN [w EXCEPT !.bitrate_estimate_kbps = u.sample]
     ELSE LET post == PosteriorAsWritten(b.bitrate_estimate_kbps,
                                         b.bitrate_estimate_var, u.sample)
          IN [w EXCEPT !.bitrate_estimate_kbps = post.estimate,
                       !.bitrate_estimate_var = post.var]

ExpectedFastRateChange(b) ==
  [b EXCEPT !.bitrate_estimate_var = QAdd(@, QInt(200))]

(* bitrate(): nullopt (NoRate) while the estimate is the sentinel. *)
NoRate == [n |-> 0, d |-> 0]
Bitrate(b) == IF Unset(b) THEN NoRate ELSE b.bitrate_estimate_kbps

-----------------------------------------------------------------------------
(* AcknowledgedBitrateEstimator: [be, alr_end_time]. *)
InitAckedEstimator == [be |-> InitBitrateEstimator, alr_end_time |-> None]

SetAlrEndTime(a, t) == [a EXCEPT !.alr_end_time = t]

(* One packet of IncomingPacketFeedbackVector: a packet sent after the    *)
(* ALR end speeds the filter up once, then its size is counted at its     *)
(* receive time.                                                          *)
AckPacket(a, p) ==
  LET fast == a.alr_end_time /= None /\ p.send_time > a.alr_end_time
      b == IF fast THEN ExpectedFastRateChange(a.be) ELSE a.be
  IN [be |-> Update(b, p.receive_time, p.size),
      alr_end_time |-> IF fast THEN None ELSE a.alr_end_time]

RECURSIVE IncomingPacketFeedbackVector(_, _)
IncomingPacketFeedbackVector(a, packets) ==
  IF packets = <<>> THEN a
  ELSE IncomingPacketFeedbackVector(AckPacket(a, Head(packets)), Tail(packets))
=============================================================================
