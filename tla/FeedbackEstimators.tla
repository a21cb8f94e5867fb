------------------------- MODULE FeedbackEstimators -------------------------
(***************************************************************************)
(* The estimator section of GoogleCCNetworkController::                    *)
(* OnTransportpacketsFeedback (google_cc_network_controller.cpp:36-66):    *)
(* the received packets of a feedback report, sorted by receive time, go   *)
(* through the acknowledged-throughput estimator, then each probe packet   *)
(* through the probe bitrate estimator, and the probe estimate is fetched  *)
(* and reset.  acked_bitrate and probe_bitrate are the two values the      *)
(* handler then hands to DelayBasedBwe (modelled, as nondeterministic      *)
(* results, in GoogleCC).                                                  *)
(*                                                                         *)
(* The environment is the receiver: each report carries a nonempty set of  *)
(* the packets still in flight; a packet that a report passes over, while  *)
(* the report holds one received later, is lost.  Reports therefore come   *)
(* in receive order.  The ALR-exit branch that would call SetAlrEndTime    *)
(* (line 43) cannot be taken (GoogleCC's AlrExit), so the acked            *)
(* estimator's alr_end_time_ stays unset.                                  *)
(*                                                                         *)
(* fed, report_start and samples are history variables: the packets       *)
(* handed to the estimators in order, where the current report begins in   *)
(* fed, and the throughput samples the rate windows have produced.         *)
(***************************************************************************)
EXTENDS Integers, Sequences, FiniteSets

CONSTANTS
  Packets,     \* the packets sent: [id, cluster, send_time, receive_time,
               \*   size, min_probes, min_bytes]
  NotAProbe    \* PacedPacketInfo::kNotAProbe

PB == INSTANCE ProbeBitrateEstimator
TE == INSTANCE ThroughputEstimator
FS == INSTANCE FiniteSetsExt

None == -1

VARIABLES
  acked,          \* acknowledged_bitrate_estimator_
  probe,          \* probe_bitrate_estimator_
  pending,        \* packets not yet reported
  acked_bitrate,  \* acknowledged_bitrate_estimator_->bitrate()
  probe_bitrate,  \* FetchAndRestLastEstimatedBitrate()
  fed, report_start, samples

vars == <<acked, probe, pending, acked_bitrate, probe_bitrate, fed,
          report_start, samples>>

IsProbe(p) == p.cluster /= NotAProbe

-----------------------------------------------------------------------------
(* TransportpacketsFeedback::SortedByReceiveTime: the received packets by *)
(* receive time, then send time, then sequence number.                    *)
ReceiveTimeOrder(p, q) ==
  \/ p.receive_time < q.receive_time
  \/ p.receive_time = q.receive_time /\ p.send_time < q.send_time
  \/ p.receive_time = q.receive_time /\ p.send_time = q.send_time /\ p.id < q.id

RECURSIVE SortedByReceiveTime(_)
SortedByReceiveTime(S) ==
  IF S = {} THEN <<>>
  ELSE LET first == CHOOSE p \in S : \A q \in S \ {p} : ReceiveTimeOrder(p, q)
       IN <<first>> \o SortedByReceiveTime(S \ {first})

(* The loop of lines 56-63 over the probe packets of the sorted report. *)
RECURSIVE HandleProbes(_, _)
HandleProbes(s, packets) ==
  IF packets = <<>> THEN s
  ELSE HandleProbes(IF IsProbe(Head(packets))
                      THEN PB!HandleProbeAndEstimateBitrate(s, Head(packets))
                      ELSE s,
                    Tail(packets))

(* History: the samples the rate windows yield while a report is folded. *)
RECURSIVE WindowSamples(_, _)
WindowSamples(a, packets) ==
  IF packets = <<>> THEN {}
  ELSE LET p == Head(packets)
           u == TE!RateWindow(a.be, p.receive_time, p.size)
       IN (IF TE!QLess(u.sample, TE!QInt(0)) THEN {} ELSE {u.sample})
            \cup WindowSamples(TE!AckPacket(a, p), Tail(packets))

-----------------------------------------------------------------------------
Init ==
  /\ acked = TE!InitAckedEstimator
  /\ probe = PB!InitProbeEstimator
  /\ pending = Packets
  /\ acked_bitrate = TE!NoRate
  /\ probe_bitrate = None
  /\ fed = <<>>
  /\ report_start = 1
  /\ samples = {}

(* OnTransportpacketsFeedback with a report of the packets in R. *)
OnTransportpacketsFeedback ==
  \E R \in SUBSET pending \ {{}} :
    LET sorted == SortedByReceiveTime(R)
        a == TE!IncomingPacketFeedbackVector(acked, sorted)
        f == PB!FetchAndRestLastEstimatedBitrate(HandleProbes(probe, sorted))
    IN /\ acked' = a
       /\ acked_bitrate' = TE!Bitrate(a.be)
       /\ probe' = f.state
       /\ probe_bitrate' = f.rate
       /\ pending' = {q \in pending \ R :
                        \A p \in R : q.receive_time > p.receive_time}
       /\ fed' = fed \o sorted
       /\ report_start' = Len(fed) + 1
       /\ samples' = samples \cup WindowSamples(acked, sorted)

Next == OnTransportpacketsFeedback

Spec == Init /\ [][Next]_vars

-----------------------------------------------------------------------------
TypeOK ==
  /\ pending \subseteq Packets
  /\ DOMAIN probe.clusters \subseteq {p.cluster : p \in Packets}
  /\ probe.estimate = None
  /\ probe_bitrate \in Nat \cup {None}
  /\ acked.alr_end_time = None
  /\ report_start \in 1..(Len(fed) + 1)

-----------------------------------------------------------------------------
(* A reference for the probe estimate, from the packets handed over so    *)
(* far rather than from the estimator's incremental state.  The cluster   *)
(* entry of cluster c after the first i packets of fed holds the packets   *)
(* of c that no later probe packet (up to i) found idle for more than      *)
(* kClusterHistoryMs; its fields are the extremes and sums of that set.    *)
LatestReceive(c, j, k) ==
  FS!Max({fed[m].receive_time : m \in {m \in j..k : fed[m].cluster = c}})

LiveCluster(c, i) ==
  {fed[j] : j \in {j \in 1..i :
     /\ fed[j].cluster = c
     /\ \A k \in (j + 1)..i :
          IsProbe(fed[k]) =>
            fed[k].receive_time <= LatestReceive(c, j, k - 1) + PB!kClusterHistoryMs}}

RefCluster(S) ==
  LET last_sent == CHOOSE p \in S : \A q \in S : q.send_time <= p.send_time
      first_received == CHOOSE p \in S : \A q \in S : p.receive_time <= q.receive_time
  IN [num_probes |-> Cardinality(S),
      first_send |-> FS!Min({p.send_time : p \in S}),
      last_send |-> last_sent.send_time,
      first_receive |-> first_received.receive_time,
      last_receive |-> FS!Max({p.receive_time : p \in S}),
      size_last_send |-> last_sent.size,
      size_first_receive |-> first_received.size,
      size_total |-> FS!MapThenSumSet(LAMBDA p : p.size, S)]

RefRate(i) ==
  PB!ClusterRate(RefCluster(LiveCluster(fed[i].cluster, i)), fed[i])

(* The rate of the last probe packet of the current report that gave one. *)
RefEstimate ==
  LET hits == {i \in report_start..Len(fed) : IsProbe(fed[i]) /\ RefRate(i) /= None}
  IN IF hits = {} THEN None ELSE RefRate(FS!Max(hits))

(* The probe rate the handler passes on (FetchAndRestLastEstimatedBitrate *)
(* after the loop of lines 56-63) is the rate of the last cluster of this  *)
(* report that had enough of its probes back, computed over exactly the    *)
(* packets of that cluster received with no idle gap over 1 s: the         *)
(* per-packet aggregation of HandleProbeAndEstimateBitrate, the eviction   *)
(* of EraseOldCluster and the reset of the fetch together lose, keep or    *)
(* carry over no packet and no estimate.                                   *)
ProbeResultSound == probe_bitrate = RefEstimate

(* The acked throughput is unknown until the first rate window has seen   *)
(* 500 ms of receive time: BitrateEstimator::Update uses                   *)
(* kInitialRateWindowsMs while its estimate is the -1 sentinel.           *)
FirstSampleAfterInitialWindow ==
  acked_bitrate /= TE!NoRate =>
    \E i, j \in DOMAIN fed :
      fed[j].receive_time - fed[i].receive_time >= TE!kInitialRateWindowsMs

(* The spec (section 4.1) makes the throughput estimate the variance-     *)
(* weighted average of the prior estimate and the new sample, so it never *)
(* leaves the range of the samples seen.                                  *)
EstimateWithinSamples ==
  acked_bitrate /= TE!NoRate =>
    \E lo, hi \in samples :
      ~TE!QLess(acked_bitrate, lo) /\ ~TE!QLess(hi, acked_bitrate)
=============================================================================
