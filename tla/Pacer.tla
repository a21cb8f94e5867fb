------------------------------- MODULE Pacer -------------------------------
(***************************************************************************)
(* PacingController (pacing_controller.cpp) with its BitrateProber         *)
(* (bitrate_prober.cpp), its IntervalBudget and its RoundRobinPacketQueue. *)
(*                                                                         *)
(* The application enqueues packets, GoogleCC's updates set the pacing     *)
(* rate and create probe clusters (RtpTransportControllerSend::PostUpdate),*)
(* and the paced sender's timer runs ProcessPackets at NextSendTime.  Each *)
(* operation is one action; ProcessPackets is one action that runs its     *)
(* send loop to the end, as the code does.                                 *)
(*                                                                         *)
(* Time is relative: the model keeps how long ago things happened, not     *)
(* when, so that a behaviour may go on for ever.  A queued packet carries  *)
(* its age (now - enqueue_time); the prober's next_probe_time and a        *)
(* cluster's started_at are offsets from now.  ProcessPackets sets         *)
(* last_process_time_ to now, so NextSendTime is an offset as well.        *)
(* Sizes are in bytes, rates in kbps, times in ms.                         *)
(*                                                                         *)
(* IntervalBudget, the bodies of RoundRobinPacketQueue and the paced       *)
(* sender that runs the timer (TaskQueuePacedSender) have no source file   *)
(* in the repository; they are modelled from their headers and the design  *)
(* (leaky-bucket budget over a 500 ms window that does not build up        *)
(* underuse; queue time summed over the queued packets).  The queue holds  *)
(* one stream, so Pop is the QueuedPacket order: lower priority value      *)
(* first, then lower enqueue order.                                        *)
(***************************************************************************)
EXTENDS Integers, Sequences, SequencesExt, GccUnits

CONSTANTS
  PacketInputs,     \* [type, size] of EnqueuePacket
  RateInputs,       \* arguments of SetPacingBitrate (kbps)
  ProbeRateInputs,  \* bitrates of CreateProbeCluster (kbps)
  Lateness,         \* how late (ms) the timer may run ProcessPackets
  QueueTimeLimit,   \* queue_time_limit_, as set by SetQueueTimeLimit
  MaxQueue,         \* most packets queued at once
  MaxClusters       \* most probe clusters created in a behaviour

kDefaultMinPacketLimit == 5
kMaxElapsedTime == 2000
kMaxProcessingInterval == 30
kMinProbeSize == 200
kWindowMs == 500                 \* IntervalBudget's window
drain_large_queue == TRUE        \* no setter changes it
min_probe_packets_sent == 5      \* BitrateProberConfig
min_probe_duration == 15
min_probe_delta == 1

(* The average queue time the drain is to keep to: the limit, plus one    *)
(* period of the timer.  Ages saturate at AgeCap, so that a packet that    *)
(* waits for ever gives a finite state graph.  AgeCap loses nothing: an   *)
(* age at AgeCap puts the average at or above QueueTimeLimit, where the    *)
(* drain rate no longer depends on it, and above QueueDelayBound.          *)
QueueDelayBound == QueueTimeLimit + kDefaultMinPacketLimit + Max(Lateness)
AgeCap == MaxQueue * (QueueDelayBound + 1)

Inactive == "Inactive"
Active == "Active"
Suspended == "Suspended"

VARIABLES
  pacing_bitrate,    \* pacing_bitrate_ (kbps)
  queue,             \* packet_queue_: [prio, size, age, mark] in enqueue order
  packet_counter,    \* packet_counter_, saturated at 1: only "= 0" is read
  media_budget,      \* IntervalBudget: [target, max, remaining]
  probe_sent_failed, \* probe_sent_failed_
  probing_state,     \* prober_.probing_state_
  clusters,          \* prober_.clusters_
  total_probe_sent_count,
  total_probe_failed_sent_count,
  next_probe_time,   \* prober_.next_probe_time_, an offset from now
  fault              \* "none", or how ProcessPackets failed to return

vars == <<pacing_bitrate, queue, packet_counter, media_budget,
          probe_sent_failed, probing_state, clusters, total_probe_sent_count,
          total_probe_failed_sent_count, next_probe_time, fault>>
prober_vars == <<probing_state, clusters, total_probe_sent_count,
                 total_probe_failed_sent_count, next_probe_time>>

(* GetPriorityForType: a lower value is sent first. *)
GetPriorityForType(type) ==
  CASE type = "audio" -> 1
    [] type = "retransmission" -> 2
    [] type \in {"video", "fec"} -> 3
    [] type = "padding" -> 4

-----------------------------------------------------------------------------
(* IntervalBudget, which does not build up underuse. *)
(* Mutant: a new target leaves what remains unclamped to its window. *)
SetTargetBitrateNoClamp(b, kbps) ==
  [target |-> kbps, max |-> (kWindowMs * kbps) \div 8, remaining |-> b.remaining]

SetTargetBitrate(b, kbps) ==
  LET max == (kWindowMs * kbps) \div 8
  IN [target |-> kbps, max |-> max,
      remaining |-> Min2(Max2(-max, b.remaining), max)]

IncreaseBudget(b, ms) ==
  LET bytes == (b.target * ms) \div 8
  IN [b EXCEPT !.remaining = IF @ < 0 THEN Min2(@ + bytes, b.max)
                                      ELSE Min2(bytes, b.max)]

UseBudget(b, bytes) == [b EXCEPT !.remaining = Max2(@ - bytes, -b.max)]

BytesRemaining(b) == Max2(0, b.remaining)

(* RoundRobinPacketQueue: Size() and AverageQueueTime(). *)
RECURSIVE Total(_)
Total(s) == IF s = <<>> THEN 0 ELSE Head(s) + Total(Tail(s))
QueueSize(q) == Total([i \in 1..Len(q) |-> q[i].size])
AverageQueueTime(q) == Total([i \in 1..Len(q) |-> q[i].age]) \div Len(q)

(* Mutant: the later enqueue order wins among equal priorities. *)
BestNewest(q) ==
  CHOOSE i \in 1..Len(q) :
    \A j \in 1..Len(q) : q[i].prio < q[j].prio \/ (q[i].prio = q[j].prio /\ i >= j)

(* The packet Pop returns: QueuedPacket::operator< puts the lower priority *)
(* value first and, among equals, the earlier enqueue order.               *)
Best(q) ==
  CHOOSE i \in 1..Len(q) :
    \A j \in 1..Len(q) : q[i].prio < q[j].prio \/ (q[i].prio = q[j].prio /\ i <= j)

(* EnqueuePacketInternal at priority prio; `mark` tags one packet whose    *)
(* fate the liveness property follows.                                     *)
Push(q, prio, size, mark) == Append(q, [prio |-> prio, size |-> size, age |-> 0, mark |-> mark])

-----------------------------------------------------------------------------
(* BitrateProber. *)

(* RecommendedMinProbeSize: two milliseconds' worth at the front cluster's *)
(* rate.                                                                   *)
RecommendedMinProbeSize ==
  IF clusters = <<>> THEN 0
  ELSE (2 * Head(clusters).rate * min_probe_delta) \div 8

(* OnIncomingPacket: a packet large enough activates a pending cluster.   *)
(* No caller in the repository: PacingController never invokes it.        *)
OnIncomingPacket(size) ==
  IF probing_state = Inactive /\ clusters /= <<>>
       /\ size > Min2(RecommendedMinProbeSize, kMinProbeSize)
  THEN probing_state' = Active /\ next_probe_time' = MinusInfinity
  ELSE UNCHANGED <<probing_state, next_probe_time>>

(* The front cluster is being probed: IsProbing() and CurrentCluster()    *)
(* has a value.                                                            *)
Probing == probing_state = Active /\ clusters /= <<>>

NextProbeTime == IF Probing THEN next_probe_time ELSE PlusInfinity

(* CalculateNextProbeTime: started_at plus the time the bytes sent so far *)
(* take at the cluster's rate.                                             *)
CalculateNextProbeTime(c) == c.started_at + (c.sent_bytes * 8) \div c.rate

(* ProbeSent: account data_sent to the front cluster of cs (the clusters *)
(* with their times made relative to now), retire it once it has both its *)
(* bytes and its probes, and suspend when none is left.                    *)
ProbeSent(cs, data_sent) ==
  IF cs = <<>> THEN clusters' = cs /\ UNCHANGED <<probing_state, next_probe_time>>
  ELSE LET c == Head(cs)
           c1 == [c EXCEPT !.started_at = IF c.sent_probes = 0 THEN 0 ELSE @,
                           !.sent_bytes = @ + data_sent,
                           !.sent_probes = @ + 1]
           done == c1.sent_bytes >= c1.min_bytes /\ c1.sent_probes >= c1.min_probes
           rest == IF done THEN Tail(cs) ELSE <<c1>> \o Tail(cs)
       IN /\ next_probe_time' = CalculateNextProbeTime(c1)
          /\ clusters' = rest
          /\ probing_state' = IF rest = <<>> THEN Suspended ELSE probing_state

-----------------------------------------------------------------------------
(* PacingController. *)

Init ==
  /\ pacing_bitrate = 0
  /\ queue = <<>>
  /\ packet_counter = 0
  /\ media_budget = [target |-> 0, max |-> 0, remaining |-> 0]
  /\ probe_sent_failed = FALSE
  /\ probing_state = Inactive
  /\ clusters = <<>>
  /\ total_probe_sent_count = 0
  /\ total_probe_failed_sent_count = 0
  /\ next_probe_time = PlusInfinity
  /\ fault = "none"

(* EnqueuePacket: queue the packet at the priority of its type. *)
EnqueuePacket(p) ==
  /\ fault = "none"
  /\ Len(queue) < MaxQueue
  /\ \E mark \in BOOLEAN :
       /\ mark => \A i \in 1..Len(queue) : ~queue[i].mark
       /\ queue' = Push(queue, GetPriorityForType(p.type), p.size, mark)
  /\ packet_counter' = 1
  /\ UNCHANGED <<pacing_bitrate, media_budget, probe_sent_failed, prober_vars, fault>>

SetPacingBitrate(rate) ==
  /\ fault = "none"
  /\ pacing_bitrate' = rate
  /\ UNCHANGED <<queue, packet_counter, media_budget, probe_sent_failed,
                 prober_vars, fault>>

(* CreateProbeCluster.  The purge loop tests clusters_.empty() where it    *)
(* means !clusters_.empty(): on a queue with clusters it never runs, and   *)
(* on an empty one it reads front() of the empty deque.  The garbage       *)
(* created_at either fails the timeout test, or passes it and pop() on the *)
(* empty deque moves its start past its end, so that the push leaves it   *)
(* empty again: the new cluster is lost and counted as failed.             *)
CreateProbeCluster(rate) ==
  /\ fault = "none"
  /\ total_probe_sent_count < MaxClusters
  /\ LET c == [id |-> total_probe_sent_count + 1, rate |-> rate,
               min_probes |-> min_probe_packets_sent,
               min_bytes |-> (rate * min_probe_duration) \div 8,
               sent_probes |-> 0, sent_bytes |-> 0, started_at |-> MinusInfinity]
     IN \E garbage_timed_out \in IF clusters = <<>> THEN BOOLEAN ELSE {FALSE} :
          /\ clusters' = IF garbage_timed_out THEN clusters ELSE Append(clusters, c)
          /\ total_probe_failed_sent_count' =
               total_probe_failed_sent_count + (IF garbage_timed_out THEN 1 ELSE 0)
  /\ total_probe_sent_count' = total_probe_sent_count + 1
  /\ probing_state' = IF probing_state = Active THEN Inactive ELSE probing_state
  /\ UNCHANGED <<pacing_bitrate, queue, packet_counter, media_budget,
                 probe_sent_failed, next_probe_time, fault>>

(* NextSendTime, as an offset from now: the prober's time while it probes *)
(* and its last probe went out, else last_process_time_ + 5 ms.            *)
NextSendTime ==
  IF Probing /\ NextProbeTime /= PlusInfinity /\ ~probe_sent_failed
  THEN NextProbeTime
  ELSE kDefaultMinPacketLimit

(* Mutant: the drain of a large queue is left out. *)
TargetRateNoDrain(q) == pacing_bitrate * 1000

(* Mutant: the drain spreads the queue over the whole limit, not over what *)
(* is left of it.                                                          *)
TargetRateWholeLimit(q) ==
  LET min_rate_need == (QueueSize(q) * 8000) \div QueueTimeLimit
  IN IF min_rate_need > pacing_bitrate * 1000 THEN min_rate_need ELSE pacing_bitrate * 1000

(* The rate the budget is refilled at: the pacing rate, raised when the   *)
(* queued bytes would not leave within what is left of the queue time      *)
(* limit (drain_large_queue_).  DataSize / TimeDelta in bps.               *)
TargetRate(q) ==
  LET size == QueueSize(q)
      avg_queue_left == Max2(1, QueueTimeLimit - AverageQueueTime(q))
      min_rate_need == (size * 8000) \div avg_queue_left
  IN IF size > 0 /\ drain_large_queue /\ min_rate_need > pacing_bitrate * 1000
     THEN min_rate_need ELSE pacing_bitrate * 1000

(* DataRate::kbps() rounds to the nearest kbps. *)
Kbps(bps) == (bps + 500) \div 1000

(* UpdateTimeAndGetElapsed: the time since the last run, at most 2 s.     *)
UpdateTimeAndGetElapsed(delay) == Min2(delay, kMaxElapsedTime)

(* UpdateBudgetWithElapsedTime: refill for at most 30 ms of it. *)
UpdateBudgetWithElapsedTime(b, elapsed) ==
  IncreaseBudget(b, Min2(elapsed, kMaxProcessingInterval))

(* OnPacketSent: pay for the packet (UpdateBudgetWithSendData); it sets   *)
(* last_process_time_ to the time ProcessPackets started, which is now.    *)
OnPacketSent(b, size) == UseBudget(b, size)

(* GetPendingPacket returns a packet: the queue is not empty and the       *)
(* budget is not used up, unless a probe is being sent.                    *)
HasPendingPacket(q, b, probing) == q /= <<>> /\ (probing \/ BytesRemaining(b) > 0)

(* PaddingToAdd: the bytes a probe still needs once the queue is empty,   *)
(* and only after some packet has been enqueued.                           *)
PaddingToAdd(q, counter, recommended, data_sent) ==
  IF q /= <<>> \/ counter = 0 \/ recommended = 0 \/ recommended <= data_sent
  THEN 0 ELSE recommended - data_sent

(* The while loop of ProcessPackets from GetPendingPacket on: send the    *)
(* best packet and pay for it (OnPacketSent), until no packet is pending  *)
(* or a probe has its recommended size.  It stops with "padding" when it  *)
(* has to generate padding.                                                *)
RECURSIVE SendLoop(_, _, _, _, _)
SendLoop(q, b, data_sent, counter, info) ==
  IF ~HasPendingPacket(q, b, info.probing)
  THEN [q |-> q, b |-> b, data_sent |-> data_sent,
        stop |-> IF PaddingToAdd(q, counter, info.recommended, data_sent) > 0
                 THEN "padding" ELSE "done"]
  ELSE LET i == Best(q)
           sent == data_sent + q[i].size
           rest == RemoveAt(q, i)
           b2 == OnPacketSent(b, q[i].size)
       IN IF info.probing /\ sent >= info.recommended
          THEN [q |-> rest, b |-> b2, data_sent |-> sent, stop |-> "done"]
          ELSE SendLoop(rest, b2, sent, counter, info)

(* ProcessPackets, run by the timer `late` ms after NextSendTime.         *)
(*  - UpdateTimeAndGetElapsed, capped at 2 s; when time has passed, the   *)
(*    budget is set to the (drain) target rate and refilled for at most   *)
(*    30 ms;                                                               *)
(*  - while probing, a first 1-byte padding packet at priority 0 when     *)
(*    GeneratePadding returns one, and the loop sends regardless of the   *)
(*    budget up to the recommended probe size;                            *)
(*  - the loop; when it needs padding it never returns normally: padding  *)
(*    packets are enqueued again after padding_packets[0] was moved out,  *)
(*    and the null packet is dereferenced ("crash"), or GeneratePadding   *)
(*    returns nothing and `continue` repeats the same iteration ("hang"); *)
(*  - while probing, ProbeSent with the bytes sent, unless none were.     *)
ProcessPackets(late) ==
  /\ fault = "none"
  /\ \E delay \in {Max2(NextSendTime, 0) + late} :
     \E info \in {[probing |-> Probing,
                   first |-> Probing /\ Head(clusters).sent_bytes = 0,
                   recommended |-> IF Probing THEN RecommendedMinProbeSize ELSE 0]} :
     \E aged \in {[i \in 1..Len(queue) |->
                    [queue[i] EXCEPT !.age = Min2(@ + delay, AgeCap)]]} :
     LET elapsed == UpdateTimeAndGetElapsed(delay)
         shifted == [i \in 1..Len(clusters) |->
                       [clusters[i] EXCEPT !.started_at = Sub(@, delay)]]
     IN \E target_rate \in {Kbps(TargetRate(aged))} :
        \E first_padding \in IF info.first THEN BOOLEAN ELSE {FALSE} :
        \E budget \in {IF elapsed > 0
                       THEN UpdateBudgetWithElapsedTime(
                              SetTargetBitrate(media_budget, target_rate), elapsed)
                       ELSE media_budget} :
        \E q0 \in {IF first_padding THEN Push(aged, 0, 1, FALSE) ELSE aged} :
        LET counter == IF first_padding THEN 1 ELSE packet_counter
        IN \E r \in {SendLoop(q0, budget, 0, counter, info)} :
           /\ queue' = r.q
           /\ media_budget' = r.b
           /\ packet_counter' = counter
           /\ \E f \in IF r.stop = "padding" THEN {"crash", "hang"} ELSE {"none"} :
                fault' = f
           /\ probe_sent_failed' = IF info.probing THEN r.data_sent = 0
                                   ELSE probe_sent_failed
           /\ IF info.probing /\ r.data_sent > 0
              THEN ProbeSent(shifted, r.data_sent)
                     /\ UNCHANGED <<total_probe_sent_count, total_probe_failed_sent_count>>
              ELSE /\ clusters' = shifted
                   /\ next_probe_time' = Sub(next_probe_time, delay)
                   /\ UNCHANGED <<probing_state, total_probe_sent_count,
                                  total_probe_failed_sent_count>>
  /\ UNCHANGED pacing_bitrate

Tick == \E late \in Lateness : ProcessPackets(late)

Next ==
  \/ \E p \in PacketInputs : EnqueuePacket(p)
  \/ \E r \in RateInputs : SetPacingBitrate(r)
  \/ \E r \in ProbeRateInputs : CreateProbeCluster(r)
  \/ Tick

Spec == Init /\ [][Next]_vars

(* The paced sender re-arms its timer after every ProcessPackets, so the  *)
(* tick cannot stop for ever while the process runs.                       *)
FairSpec == Spec /\ WF_vars(Tick)

-----------------------------------------------------------------------------
(* Properties. *)

TypeOK ==
  /\ pacing_bitrate \in RateInputs \cup {0}
  /\ Len(queue) <= MaxQueue
  /\ \A i \in 1..Len(queue) : queue[i].age >= 0 /\ queue[i].prio \in 0..4
  /\ media_budget.remaining \in -media_budget.max..media_budget.max
  /\ probing_state \in {Inactive, Active, Suspended}
  /\ fault = "none"

(* Drain of a large queue (ProcessPackets, drain_large_queue_): whenever   *)
(* the queued bytes would not leave within what is left of                 *)
(* queue_time_limit_, the budget is refilled at the rate that empties the  *)
(* queue in time, so the average time the queued packets have waited      *)
(* stays within the limit, up to one period of the timer (5 ms plus its    *)
(* lateness), whatever the pacing rate, including the 0 it starts at.      *)
QueueDelayBounded ==
  queue /= <<>> => AverageQueueTime(queue) <= QueueDelayBound

(* No packet starves: audio is always sent before video, but a packet     *)
(* that waits raises the average queue time and with it the drain rate,   *)
(* so every queued packet is eventually sent by ProcessPackets, as long as *)
(* the timer keeps running.  Since at most one packet is marked and a mark *)
(* only leaves with its packet, Marked ~> ~Marked is []<>~Marked.          *)
Marked == \E i \in 1..Len(queue) : queue[i].mark
MarkedPacketSent == []<>~Marked

====
