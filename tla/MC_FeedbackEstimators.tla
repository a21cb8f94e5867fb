------------------------ MODULE MC_FeedbackEstimators ------------------------
(* Eleven packets over 1.2 s (times in ms, sizes in bytes).  Two probe  *)
(* clusters: cluster 1 (min 3 probes, 500 bytes) whose receive span is     *)
(* twice its send span, so any two of its packets give a saturated-link    *)
(* rate scaled by 0.95, and two stragglers received at 1190 and 1200 ms,   *)
(* more than 1 s after the rest, that evict every cluster and then form a  *)
(* fresh cluster 1 of their own; cluster 2 (min 2 probes, 200 bytes) where *)
(* d and e give an unsaturated rate and every pair with g a receive/send   *)
(* ratio above 2.  Three media packets spread the throughput estimator's   *)
(* first 500 ms window and a 100 ms window after it.                       *)
EXTENDS FeedbackEstimators

MC_NotAProbe == 0

Pkt(id, cluster, send, recv, size, min_probes, min_bytes) ==
  [id |-> id, cluster |-> cluster, send_time |-> send, receive_time |-> recv,
   size |-> size, min_probes |-> min_probes, min_bytes |-> min_bytes]

MC_Packets ==
  { Pkt(1, 0,  50,   60, 300, 0, 0),
    Pkt(2, 1, 100,  140, 200, 3, 500),
    Pkt(3, 1, 110,  160, 200, 3, 500),
    Pkt(4, 1, 120,  180, 200, 3, 500),
    Pkt(5, 2, 300,  320, 100, 2, 200),
    Pkt(6, 2, 310,  328, 100, 2, 200),
    Pkt(7, 2, 320,  329, 100, 2, 200),
    Pkt(8, 0, 550,  570, 250, 0, 0),
    Pkt(9, 0, 640,  660, 250, 0, 0),
    Pkt(10, 1, 130, 1190, 200, 3, 500),
    Pkt(11, 1, 135, 1200, 200, 3, 500) }
=============================================================================
