----------------------- MODULE ProbeBitrateEstimator -----------------------
(***************************************************************************)
(* ProbeBitrateEstimator (probe_bitrate_estimator.cpp): aggregates the     *)
(* feedback of probe packets per cluster id and, once enough of a cluster  *)
(* has come back, turns its send and receive spans into a probe rate.      *)
(* The state is a record [clusters, estimate]: clusters maps a cluster id  *)
(* to its AggregatedCluster, estimate is estimate_data_rate_ (None when    *)
(* unset).  A feedback packet is a record [cluster, send_time,             *)
(* receive_time, size, min_probes, min_bytes], the last two from its       *)
(* PacedPacketInfo.  Times are in ms, sizes in bytes, rates in bps.        *)
(*                                                                         *)
(* The factors are floats widened to double: 0.8f lies just above 0.8, so *)
(* n x 0.8f truncates to (4n) div 5; 0.9f and 0.95f lie just below, and    *)
(* DataRate * double truncates to whole bps, so x * 0.9f is (9x - 1) div 10 *)
(* and x * 0.95f is (95x - 1) div 100 for 0 < x < 4 Mbps.                  *)
(***************************************************************************)
EXTENDS Integers, GccUnits

None == -1

kMaxProbeIntervalMs == 1000
kClusterHistoryMs == 1000

(* AggregatedCluster as its member initialisers leave it. *)
NewCluster ==
  [num_probes |-> 0,
   first_send |-> PlusInfinity, last_send |-> MinusInfinity,
   first_receive |-> PlusInfinity, last_receive |-> MinusInfinity,
   size_last_send |-> 0, size_first_receive |-> 0, size_total |-> 0]

InitProbeEstimator == [clusters |-> <<>>, estimate |-> None]

(* EraseOldCluster: drop every cluster last received more than 1 s before *)
(* the timestamp.                                                         *)
EraseOldCluster(cs, timestamp) ==
  [c \in {c \in DOMAIN cs : ~(cs[c].last_receive + kClusterHistoryMs < timestamp)}
     |-> cs[c]]

(* The per-packet update of the cluster: the span ends and the sizes of   *)
(* the boundary packets (the first packet to reach a strict extreme).     *)
Aggregate(c, p) ==
  [c EXCEPT !.first_send = Min2(@, p.send_time),
            !.last_send = Max2(@, p.send_time),
            !.size_last_send = IF p.send_time > c.last_send THEN p.size ELSE @,
            !.first_receive = Min2(@, p.receive_time),
            !.size_first_receive = IF p.receive_time < c.first_receive
                                   THEN p.size ELSE @,
            !.last_receive = Max2(@, p.receive_time),
            !.num_probes = @ + 1,
            !.size_total = @ + p.size]

(* DataSize / TimeDelta in bps: bytes x 8 x 10^6 / us, truncated. *)
Rate(bytes, ms) == (bytes * 8 * 1000) \div ms

(* The tail of HandleProbeAndEstimateBitrate: the rate the cluster gives, *)
(* or None (too little of it back, an implausible span or ratio).  The     *)
(* double ratio receive/send > 2 is +inf for a zero send rate and NaN when *)
(* both are zero; receive_rate > 2 x send_rate decides the same.           *)
ClusterRate(c, p) ==
  LET min_probes == (p.min_probes * 4) \div 5
      min_bytes == (p.min_bytes * 4) \div 5
      send_interval == c.last_send - c.first_send
      receive_interval == c.last_receive - c.first_receive
      send_rate == Rate(c.size_total - c.size_last_send, send_interval)
      receive_rate == Rate(c.size_total - c.size_first_receive, receive_interval)
      res == Min2(send_rate, receive_rate)
  IN CASE c.num_probes < min_probes \/ c.size_total < min_bytes -> None
       [] send_interval <= 0 \/ send_interval > kMaxProbeIntervalMs
            \/ receive_interval <= 0 \/ receive_interval > kMaxProbeIntervalMs
            -> None
       [] receive_rate > 2 * send_rate -> None
       [] receive_rate < (9 * send_rate - 1) \div 10
            -> IF res = 0 THEN 0 ELSE (95 * res - 1) \div 100
       [] OTHER -> res

(* Mutant: the eviction run after the packet is folded in. *)
HandleEraseAfterAggregate(s, p) ==
  LET c == Aggregate(IF p.cluster \in DOMAIN s.clusters THEN s.clusters[p.cluster]
                     ELSE NewCluster, p)
      cs == EraseOldCluster([x \in DOMAIN s.clusters \cup {p.cluster} |->
                               IF x = p.cluster THEN c ELSE s.clusters[x]],
                            p.receive_time)
      rate == ClusterRate(c, p)
  IN [clusters |-> cs, estimate |-> IF rate = None THEN s.estimate ELSE rate]

(* HandleProbeAndEstimateBitrate: erase old clusters, fold the packet      *)
(* into its cluster (clusters_[id] creates it), and keep the rate, if any. *)
HandleProbeAndEstimateBitrate(s, p) ==
  LET cs == EraseOldCluster(s.clusters, p.receive_time)
      c == Aggregate(IF p.cluster \in DOMAIN cs THEN cs[p.cluster] ELSE NewCluster, p)
      rate == ClusterRate(c, p)
  IN [clusters |-> [x \in DOMAIN cs \cup {p.cluster} |->
                      IF x = p.cluster THEN c ELSE cs[x]],
      estimate |-> IF rate = None THEN s.estimate ELSE rate]

(* Mutant: the fetch without the reset of estimate_data_rate_. *)
FetchWithoutReset(s) == [rate |-> s.estimate, state |-> s]

(* FetchAndRestLastEstimatedBitrate: the rate, and the estimator reset. *)
FetchAndRestLastEstimatedBitrate(s) ==
  [rate |-> s.estimate, state |-> [s EXCEPT !.estimate = None]]
=============================================================================
