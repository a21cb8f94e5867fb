# TLA+ models of the xrtc congestion controller

These TLA+ modules model the congestion-control core of xrtc, checked with TLC:

- the GCC-style estimators under `src/rtc/modules/congestion_controller/google_gcc/`;
- the orchestrator that reconciles those estimators;
- the transport controller that drives the orchestrator from its task queue;
- the pacer under `src/rtc/modules/pacing/`: the pacing controller and its bitrate prober;
- the parsing of the RTCP transport-wide feedback message (`rtp_rtcp/rtcp_packet/transport_feedback.cpp`) that feeds the transport feedback adapter.

Each module is translated from the C++ source. `PROJECT.json` maps every definition to the lines it models.

## The system and how its parts interact

`RtpTransportControllerSend` (`src/rtc/pc/rtp_transport_controller_send.cpp`) owns one task queue. It posts these tasks onto it:

- network-availability changes;
- RTCP loss and RTT reports;
- transport feedback;
- sent-packet notices;
- a repeating 25 ms `OnProcessInterval` heartbeat.

Tasks never run concurrently. The first time the network becomes available, it creates a `GoogleCCNetworkController` and runs one `OnProcessInterval` at once. That call applies the configured constraints (`ResetConstraints`).

`GoogleCCNetworkController` (`google_cc_network_controller.cpp`) feeds and reconciles these estimators:

| Part | Source | Role |
|---|---|---|
| Loss-based controller | `send_side_bandwidth_estimator.cpp` | Q8 loss fraction. Raises the target on low loss, cuts it on high loss (at most once per 1 s + RTT). Clamps the target to [min config, min(max config, delay-based ceiling)]. |
| Delay-based estimator | `delay_based_bwe.cpp` | Runs the overuse detector over each packet of a feedback batch. Chooses between backoff, a probe result and an AIMD update. |
| AIMD rate control | `aimd_rate_control.cpp` | The Hold/Increase/Decrease state machine, with multiplicative or additive increase and backoff. |
| Link capacity estimator | `link_capacity_estimator.cpp` | Smoothed link capacity and its deviation, used by AIMD. |
| Overuse detector | `inter_arrival_delta.cpp`, `trendline_estimator.cpp` | Packet-group deltas and a delay-trend regression that give Normal/Overusing/Underusing. |
| Throughput estimator | `acknowledged_bitrate_estimator.cpp`, `bitrate_estimator.cpp` | Bayesian throughput from acked packets. |
| Probe controller | `probe_controller.cpp` | Init/Waiting/Complete state machine that produces probe cluster requests. |
| Probe estimator | `probe_bitrate_estimator.cpp` | Rate measured from each probe cluster. |
| ALR detector | `alr_detector.cpp` | Application-limited periods, found with an interval budget. |
| Pacing controller | `pacing/pacing_controller.cpp` | Queues packets by media priority. A timer runs `ProcessPackets`, which refills an interval budget and sends while it lasts. A large queue raises the refill rate (drain). |
| Bitrate prober | `pacing/bitrate_prober.cpp` | FIFO of probe clusters. While it is Active, `ProcessPackets` sends past the budget up to the recommended probe size. |
| Transport feedback | `rtcp_packet/transport_feedback.cpp` | Parses the receiver's RTCP feedback: status chunks (run-length, 1-bit and 2-bit vectors) give each packet's symbol, and receive deltas follow. `TransportFeedbackAdapter` reads `AllPackets()` and the 24-bit reference time. |

The flow through the orchestrator is:

1. A feedback batch goes to the throughput estimator, the probe estimator and the delay-based estimator.
2. The delay-based result becomes a ceiling on the loss-based controller.
3. `MaybeTriggerOnNetworkChanged` reports the loss-based target, loss fraction and RTT when any of them changed. It also hands the target to the probe controller.
4. When the delay-based estimator reports recovery from overuse, the probe controller is asked for a probe.

The heartbeat runs the loss-based `UpdateEstimate`, the probe controller's `Process` and the reporting step. Updates go to the pacer (`src/rtc/modules/pacing/`) through `PostUpdate`:

- pacing rates;
- probe clusters, which go to `BitrateProber`.

The pacer is driven by `TaskQueuePacedSender`, whose source is not in the repository. `EnqueuePacket` comes from the media path. `PostUpdate` calls `SetPacingRates` and `CreateProbeCluster`. A timer runs `ProcessPackets` at `NextSendTime`.

## Modules

| Module | Models | State and actions |
|---|---|---|
| `GccUnits` | `webrtc::DataRate`/`Timestamp` arithmetic | Saturating ±infinity, `Min2`/`Max2`, truncating division, uint8 narrowing, and the `BandwidthUsage` values. |
| `LossBasedBwe` | `SendSideBandwidthEstimator` | Variables carry the member names. Actions: `UpdatePacketsLost`, `UpdateDelayBasedBitrate`, `SetBitrates`, `UpdateRtt`, the heartbeat's `UpdateEstimate`, and `Tick`. The min-history deque is a sequence. |
| `LinkCapacityEstimator` | `LinkCapacityEstimator` | Estimate (or none) and deviation. `UpdateFrom` is `Update`; integer square root by Newton's method. |
| `AimdRateControl` | `AimdRateControl` | All members. `ChangeState`, `ChangeBitrate` (increase and decrease steps), `Update` with the start-up grace period. The abort on the empty optional is the variable `aborted`. |
| `InterArrivalDelta` | `InterArrivalDelta` | Operators over the pair of `SendTimeGroup`s: `ComputeDeltas` returns the next pair, `calculated_delta` and the deltas. `BelongsToBurst`, `NewTimestampGroup` and `Reset` are as written, on Timestamps with the infinities of `GccUnits`. The byte count of a group is left out, because the trendline never reads it. |
| `TrendlineEstimator` | `TrendlineEstimator` | Operators over `[num_of_deltas, overuse_counter, hypothesis]`. `Update` gives the set of states a packet can leave. The regression slope and the adaptive threshold are abstracted to the result of comparing them (above, below, within), chosen freely. The control of `Detect` is kept: the two-sample guard, the overuse counter and its resets. |
| `DelayBasedBwe` | `DelayBasedBwe` with its AIMD and detector | `IncomingPacketFeedbackVector`, `OnRttUpdate`, `SetStartBitrate`, `SetMinBitrate`. A batch runs `IncomingPacketFeedback` on each packet (`FeedbackLoop`, RECURSIVE), with the 2 s stream-timeout restart, and then `MaybeUpdateEstimate`. The detectors are `INSTANCE`d as `IAD` and `TL`. |
| `ProbeController` | `ProbeController` | All members. Every public method is an action; `InitProbing` and `InitExpProbing` are operators. The clusters returned by each call are kept in the history `issued`. |
| `Pacer` | `PacingController` with `BitrateProber`, `IntervalBudget` and `RoundRobinPacketQueue` | Variables carry the member names. Actions: `EnqueuePacket`, `SetPacingBitrate`, `CreateProbeCluster` and `Tick`. `Tick` is the timer that runs `ProcessPackets`, on time or late. `ProcessPackets` runs its whole send loop (`SendLoop`, a RECURSIVE operator) in one step. Time is relative: a queued packet carries its age, and the prober's times are offsets from now. The bodies of `IntervalBudget` and `RoundRobinPacketQueue` have no source file; they follow their headers and webrtc's semantics. |
| `AlrDetector` | `AlrDetector` with its `IntervalBudget` | `OnByteSent`, `SetEstimateBitrate`, `GetAlrStartTime` as operators over `alr_budget`, `last_send_time_ms`, `alr_start_time_ms`. The budget (no source file) follows the spec; ratios are compared in integer percent. |
| `TransportFeedbackAdapter` | `TransportFeedbackAdapter` | `history` maps a sequence number to `[creation_time, size, sent]`. `AddPacket` (with the 60 s eviction, `EvictOld`), `ProcessSentPacket`, and `ProcessTransportFeedback`, whose loop is the RECURSIVE `FeedbackInner`. Receive-time offsets are left out. |
| `ProbeBitrateEstimator` | `ProbeBitrateEstimator` | Operators over `[clusters, estimate]`, `clusters` a function from cluster id to `AggregatedCluster`. `HandleProbeAndEstimateBitrate` runs `EraseOldCluster`, folds the packet in (`Aggregate`), and keeps the rate `ClusterRate` gives: the 80 % thresholds, the span checks, the ratio test and the 0.95 scaling of a saturated link. `FetchAndRestLastEstimatedBitrate` returns the rate and resets it. Rates in bps, as the `DataSize / TimeDelta` integer division gives them. |
| `ThroughputEstimator` | `AcknowledgedBitrateEstimator` with `BitrateEstimator` | Operators. `UpdateWindow` keeps the C++ integers of the rate window; `Update` seeds or filters the estimate; `AckPacket` is one iteration of `IncomingPacketFeedbackVector` (a RECURSIVE fold). The float filter is computed in exact rationals (`[n, d]` in lowest terms), so single-precision rounding is left out. `Posterior` is the spec's variance-weighted average, kept for comparison with `PosteriorAsWritten`. |
| `FeedbackEstimators` | `OnTransportpacketsFeedback`, lines 50-66 | Composes the two estimators. One action: a feedback report of any nonempty set of in-flight packets, sorted by receive time, is folded through the throughput estimator, then its probe packets through the probe estimator, then the probe rate is fetched. Packets a report passes over are lost. `fed`, `report_start` and `samples` are history variables for the properties. |
| `TransportFeedback` | `rtcp::TransportFeedback` | Operators. `Parse(fb, m)` takes the object's fields and a message (its header fields and the bytes from offset 16) and returns the result, the object after it and a ghost `overread`. The chunk loop (`ReadChunks`) and the two delta loops (`ReadDeltas` with `ReadDelta`, `NoDeltas`) are RECURSIVE; `Decode` and its three decoders are `LastChunk`. Shifts and masks are `\div` and `%`. `GetBaseTime` and `GetBaseDelta` work in base ticks of 64 ms, which is exact, because every earlier timestamp passed in is a `GetBaseTime`. |
| `FeedbackParsing` | The receive path of transport feedback | The receiver is the environment: any report of up to `MaxStatuses` symbols, in every valid chunk encoding (`Encodings`), with or without deltas, padded to 32-bit words and possibly cut short. `OnFeedback` parses it into a new object and, if `Parse` accepts it, runs the adapter's `current_offset_` update (`UpdateCurrentOffset`, `transport_feedback_adapter.cpp:78-89`). The receiver's clock and sequence numbers are unwrapped in the model and sent modulo 2^24 and 2^16. |
| `GoogleCC` | `GoogleCCNetworkController` with `RtpTransportControllerSend` | Composes `LossBasedBwe`, `ProbeController`, `AlrDetector` and `TransportFeedbackAdapter` by `INSTANCE`. The tasks `OnAddPacket`, `OnSentPacket` and `OnTransportFeedback` run the adapter; the pacer and socket are an environment that may send any added packet (`wire`), and the receiver reports any added packet, received only if it was sent. `delivered` records the results of the last feedback handed to the controller. A task is a sequence of calls into the components (`calls`), run one call per step. No other task starts until the sequence is empty, as on the single task queue. |

`MC_*` modules give the constants for TLC. Rates are integers in kbps and times in ms. The code's floating factors (1.08, 0.85, 0.7, 0.95 and others) are applied with the truncation of the `int64_t` casts.

## Runs

| Run | Checks | Result |
|---|---|---|
| `loss_based` | `TargetWithinLimits`, `MinHistoryMonotonic`, `DecreasesSpaced` | Pass. The target stays clamped. The min-history deque stays strictly increasing in both time and rate. Loss cuts are at least 1 s + RTT apart. All of this under any interleaving of loss reports, ceilings, RTT updates, reconfigurations and heartbeats. |
| `loss_based_negative_loss` | `DecreaseOnlyOnHighLoss` | Violation. A negative loss delta wraps the uint8 fraction and cuts the target. |
| `loss_based_increase` | `IncreaseBoundedByWindowMin` | Violation. The increase starts from the newest history entry, not from the minimum of the last second. |
| `delay_based` | `EstimateAboveMin`, `RisesOnlyByProbe`, `NoDeltaReachesTrendline` | Pass, with the real detector composed in. The AIMD estimate never drops below the min config. No batch raises it except a probe result, because `Increase` is unreachable. No inter-arrival delta ever reaches the trendline (the `inter_arrival_delta.cpp:42` bug); the mutant with the intended guard breaks it. |
| `delay_based_abort` | `NoAbort` | Violation. The first Normal batch with no acked throughput reads the empty link-capacity optional. |
| `probe_controller` | `WaitingBounded`, `DropRecoveryNeverProbes`, `FurtherProbingNeverArmed` | Pass. A wait for a probe result ends within 1 s plus one heartbeat. The recovery probe after a large drop never runs (the `probe_controller.cpp:74` finding); the mutant that keeps the estimate in `estimate_bitrate_bps_` breaks it. Exponential and further probing never start (the `probe_controller.cpp:49` finding); the mutant whose `SetBitrates` calls `InitExpProbing` breaks it. |
| `google_cc` | `ReportedFresh`, `TargetPinnedAtMax` | Pass. Loss and RTT reports, a packet lost and fed back, the delay-based results that feedback delivers, two network changes and the heartbeats interleave. The reported target, loss and RTT lag the loss-based controller by at most one heartbeat. The loss-based target stays at `max_data_rate_` (the `ResetConstraints` bug, below); the mutant that passes the bounds in order breaks it. |
| `pacer` | `TypeOK`, `QueueDelayBounded`, `MarkedPacketSent` | Pass, under weak fairness of the timer. The budget stays inside its window. The average queue time stays within `queue_time_limit_` plus one timer period (5 ms + 30 ms lateness). This holds under any interleaving of enqueues, rate changes, cluster requests and timer runs, including at the initial pacing rate of 0. Every queued packet is eventually sent, including video queued behind a steady audio stream. |
| `google_cc_feedback` | `AlrStartPropagated` | Pass. With the adapter and the ALR detector composed in and two packets sent or dropped, the probe controller holds the detector's ALR start time within one heartbeat of it. |
| `estimators` | `TypeOK`, `ProbeResultSound`, `FirstSampleAfterInitialWindow` | Pass. Over any sequence of reports, with any packets lost, the probe rate handed on equals a reference computed from the set of the cluster's packets since its last idle gap of over 1 s, for the last cluster of the report that gave a rate. Mutants that evict after aggregating or forget the fetch's reset break it. The acked throughput stays unknown until 500 ms of receive time have passed. |
| `throughput_filter` | `EstimateWithinSamples` | Violation. The filter's estimate leaves the range of its samples. |
| `feedback_parse` | `TypeOK`, `ReceivedPacketsMatchReport`, `ParseStaysInBuffer`, `BaseDeltaUnwraps` | Pass. Every report of up to three packets in every chunk encoding, intact or cut short, is checked across both wraps. `Parse` never reads past the payload. An intact message yields exactly the received packets with their deltas, numbered across the uint16 wrap. The adapter's base delta equals the receiver's real change of reference time, across the 24-bit wrap either way. Mutants break each property: a 1-bit vector read one bit off, the end test one byte late, no uint16 wrap, and only the forward wrap handled. |

Each passing run has a mutant for every property in `PROJECT.json`. A mutant is a plausible bug in one mapped definition, and TLC finds it.

## What the violations show

- **Negative loss delta** (`send_side_bandwidth_estimator.cpp:58`). The loss delta comes from differences of cumulative RTCP counters (`rtp_transport_controller_send.cpp:94`), so it can be negative. A negative lost count makes `lost_q8 / expected` negative, and the uint8 assignment wraps it to about 244. The target is then cut by almost half although nothing was lost.
- **Increase from the wrong point** (`send_side_bandwidth_estimator.cpp:124`). The increase uses `min_bitrate_history_.back()`, which is the current target. With low loss, every 25 ms heartbeat compounds 8%.
- **Abort on an empty optional** (`aimd_rate_control.cpp:180`). The decrease path reads the link-capacity estimate before any overuse has set it.
- **State machine** (`aimd_rate_control.cpp:208`). On Normal, Hold goes to Decrease, and Increase is never entered. The `delay_based` run shows the consequence: `RisesOnlyByProbe` holds, so only a probe result ever raises the delay-based rate. Its mutant, which lets Normal enter Increase, breaks it.
- **The detector never reports** (`inter_arrival_delta.cpp:42`). The delta branch of `ComputeDeltas` is guarded by `IsInfinite()`, the inverse of its comment and of the spec. It runs only while the previous group is unset, so its deltas are infinite. `inf - inf` is `+inf` in a release build (a DCHECK fails in debug), so the 3 s clock-offset guard resets both groups and drops the packet on every group transition, although no clock jumped. No delta ever reaches the trendline, the detector is always Normal, and the overuse paths of `DelayBasedBwe` are dead. `Detect` also receives the absolute send time as its delta, so `time_over_using_` passes 10 ms at once; the abstraction leaves that comparison free. `trendline_estimator.cpp` does not compile as written (`modiied_trend`, `static<double>`, `send_time` undeclared in `Update`). The model follows the evident intent of each statement.
- **Sent packets are never fed back** (`transport_feedback_adapter.cpp:108`). `ProcessTransportFeedbackInner` skips a history entry whose send time `IsFinite`, that is every packet whose sent notice has run; its comment and webrtc skip the packets not yet sent. Only packets that never left reach `OnTransportpacketsFeedback`, and received packets are never erased from `history_` (only the 60 s eviction removes them). The composition models the test as written; no property restates it.
- **No initial or further probing** (`probe_controller.cpp:49`). `SetBitrates` never calls `InitExpProbing`, so the 3x/6x pair never goes out. `min_bitrate_to_further_probe_bps_` is never armed, so no further probe follows either. `FurtherProbingNeverArmed` checks this as a passing property.
- **No drop recovery** (`probe_controller.cpp:74`). `SetEstimateBitrates` tests a large drop against `estimate_bitrate_bps_`, which nothing assigns, so no drop is ever recorded. `RequestProbe` therefore always probes at the start rate instead of 85 % of the pre-drop rate. `DropRecoveryNeverProbes` checks this as a passing property.
- **The prober never starts** (`pacing_controller.cpp:194`). The pacer models `EnqueuePacket` without the call; no property restates the missing call. `BitrateProber::OnIncomingPacket` is the only way to make the prober Active, and nothing calls it. Every cluster `CreateProbeCluster` queues waits for ever. The probe branches of `ProcessPackets` and `NextSendTime` are dead code, so no probe traffic is ever sent, whatever the probe controller asks for. This also hides two more defects behind it:
  - the padding path of the send loop, which crashes or hangs;
  - the inverted purge loop of `CreateProbeCluster` (`bitrate_prober.cpp:21`), which reads the front of an empty queue.
- **Swapped min and max** (`google_cc_network_controller.cpp:196`). The loss-based controller gets min = max = 900 kbps, which pins the target: `TargetPinnedAtMax` holds in `google_cc` whatever loss reports and delay-based results come, both of which that run delivers.
- **Every fed-back packet is lost** (`transport_feedback.cpp:160`, also line 168). `Parse` appends each received packet to `all_packets_` with `emplace_back(seq_no)`, the lost-packet constructor; webrtc passes the delta. The adapter iterates `AllPackets()`. So whenever the message carries receive deltas, which is the normal case, every packet reaches it as lost. Only a message without deltas yields received packets. `feedback_parse` models this as written; no property restates the constructor call. In `GoogleCC` the line-108 skip already hides it, because a sent packet never becomes a result at all.
- **The throughput filter blends the variance** (`bitrate_estimator.cpp:43`). The posterior is `(sample_var * bitrate_estimate_var_ + pred_estimate_var * sample) / (sample_var + pred_estimate_var)`. The spec (section 4.1) makes it the variance-weighted average of the prior *estimate* and the sample. The estimate is pulled towards the variance (50 at the start): in the counterexample, samples of 8 and 20 kbps give 44.1 kbps. With samples above 50 kbps it falls below all of them. With `Posterior` in place of `PosteriorAsWritten` the run passes.

## Bounds

- **`LossBasedBwe`.** Rates are scaled to 5/8/12 kbps. Loss batches are of 10 and 20 packets: one below and one at `kLimitNumPackets`. The clock runs in 1 s steps up to 3 s. That covers the 2 s start phase, a stale report and two decreases 1 s + RTT apart. One RTT of 200 ms delays the second decrease by a step.
- **`DelayBasedBwe`.** The clock runs in 150 ms steps to 600 ms, and a behaviour has up to 6 feedback batches. Acked rates are none, 120 and 300 kbps; probe results are none and 400 kbps. These values reach the probe and AIMD branches, and a decrease that does and one that does not recompute link capacity. A batch is one of four two-packet batches, sorted by receive time. After the first packet, the second joins the group (sent 3 ms later), opens a new group (10 ms later), joins as a burst (10 ms later and arriving 2 ms after), or is out of order. Packet times are offsets from the feedback time, because `ComputeDeltas` reads only their differences. The 2 s stream timeout is not reached within 600 ms; it would only recreate detectors that are already in their initial state.

  With the real detector, the backoff and halving branches of `MaybeUpdateEstimate` are unreachable (see the `inter_arrival_delta.cpp:42` finding). The previous abstract detector, which allowed any sequence of states, reached them. `EstimateAboveMin` and its mutant are still exercised by the decreases that Normal causes.
- **`ProbeController`.** Heartbeats come every 250 ms for 1.75 s after a start time of 5 s, so the constructor's zero timestamps are in the past, as with a real clock. Up to 3 clusters are issued. The 1 s wait therefore expires inside the run.
- **`GoogleCC`.** Heartbeats come every 250 ms for 1 s. There are up to 2 network changes (up, then down) and 2 clusters. `google_cc` runs three heartbeats (to 5.75 s) and adds one packet, which the pacer may drop so that its loss is fed back with a delay-based result (four heartbeats with it take over 4 minutes); `google_cc_feedback` adds 2 packets of 1200 B, one network change and no loss or RTT reports (which only move the loss-based target, covered by `google_cc`). Reports of one or two packets cover: reported before and after the sent notice, lost and received, and out of order against the sent notices. Two sends 500 ms apart take the ALR budget above 80 %, so an ALR start happens; an ALR exit needs the ratio below 50 %, which takes about 15 packets in one instant or a rise of the estimate during ALR (the estimate is pinned by the `ResetConstraints` bug), so the dead exit branch (`google_cc_network_controller.cpp:40`) is not exercised. Three packets give 6 million states in 8 minutes.
- **`Pacer`.** The instance has:
  - one audio (20 B) and one video (60 B) packet size, with at most 2 packets queued;
  - a pacing rate of 16 kbps (10 B per 5 ms tick);
  - at most one probe cluster, at 160 kbps;
  - a queue time limit of 20 ms, set by `SetQueueTimeLimit`;
  - a timer that runs on time or 30 ms late.

  With these values, two queued packets exceed what the pacing rate sends within the limit, so the drain takes over within a few ticks. Audio can overtake queued video. A 35 ms interval exceeds the 30 ms refill cap, and the video packet exceeds the recommended probe size. The 2 s default limit would need thousands of ticks.

  Ages saturate at `AgeCap` = 2 × (`QueueDelayBound` + 1). An age at the cap puts the average above `QueueDelayBound`, where the drain rate no longer depends on the exact value. A packet that would wait for ever therefore gives a cycle in the state graph, and TLC can find the starvation.

- **`FeedbackEstimators`.** Eleven packets over 1.2 s, each with distinct send and receive times (which fixes the boundary packets the estimator picks). Cluster 1 (3 probes, 500 B minimum) has a receive span twice its send span, so any two of its packets give a saturated rate scaled by 0.95. Two stragglers arrive more than 1 s after the rest: they evict every cluster and form a new cluster 1. Cluster 2 has one pair with an unsaturated rate, and every pair with its third packet exceeds the ratio of 2. Three media packets make the 500 ms initial window close and then a 100 ms window. A report is any nonempty set of in-flight packets, so every loss pattern is explored; there are at most 11 reports. The `NaN` ratio of two zero rates is not reached (every size is positive). Rates stay small enough for TLC's integers, which the exact rationals need.

- **`FeedbackParsing`.** Two messages of one to three symbols each, giving 230 chunk encodings per message. The sequence number starts at 65534, so the uint16 wrap falls inside a message. The reference time starts one tick either side of the 24-bit wrap. It then steps back one tick or forward 2^23 - 1 ticks (just under half the period). The second message therefore crosses the wrap forwards, crosses it backwards, or does not. The deltas are 255 (the largest 1-byte one) and -2 (a negative 2-byte one, which tests the sign). A cut of 3 bytes produces three cases:
  - a one-chunk message below the 18-byte minimum;
  - a three-run-length message ending inside its last chunk;
  - a message that loses its deltas and so takes the no-delta branch.

  The sender's clock advances by 50 ms per message, so a backward step of the receiver's clock takes the adapter's negative-offset guard. Three messages take about 8 minutes; two take 2 minutes.

In the estimator models the clock is bounded, so their "eventually" claims are stated as time bounds (`WaitingBounded`, `ReportedFresh`). Those hold because the heartbeat runs at every instant before the clock moves on, which is what the 25 ms repeating task does.

The pacer's time is relative, so its behaviours are infinite. `MarkedPacketSent` is checked under `FairSpec` = `Spec /\ WF_vars(Tick)`. The paced sender re-arms its timer after every `ProcessPackets`, so while the process lives the timer cannot stay enabled without firing. No fairness is assumed for enqueues, rate changes or cluster requests: the application may stop sending at any time.

`MarkedPacketSent` follows one packet, tagged by a `mark` field that `EnqueuePacket` may set when no queued packet has it. It is stated as `[]<>~Marked`, which is equivalent to `Marked ~> ~Marked` and is cheaper for TLC.

In `ProcessPackets`, the timer's delay, the prober's cluster info, the target rate, the refilled budget and the aged queue are bound with `\E x \in {e}`. This makes TLC evaluate each once when it computes `ENABLED Tick` for the fairness condition; the value is the same.

`MC_DelayBasedBwe.cfg` sets `CHECK_DEADLOCK FALSE` because the abort is a state with no successor: the process has died. The `FeedbackEstimators` cfgs set it too: once every packet has been reported or lost, no feedback is left. So does `MC_FeedbackParsing.cfg`: the receiver stops after `MaxFeedbacks` messages. Every other run checks deadlock.

## Not modelled, and the plan

The plan, in order of value:

1. **The pacer composed with `GoogleCC`.** `PostUpdate` would feed the pacer's rate and clusters from the controller. Today the probe path is dead (see above), so the composition would show nothing more until it is fixed.
2. **An ALR exit.** The ALR detector is composed in `GoogleCC`, but leaving ALR is beyond the bounds (see Bounds); a configuration with a varying estimate would state what the exit should do.
3. **Sequence-number unwrapping and per-packet receive times** in `TransportFeedbackAdapter`. The model takes sequence numbers as unwrapped. Per-packet receive times would show nothing until the line-160 finding is fixed, because no packet arrives as received. The reference-time offset is modelled in `FeedbackParsing`.
4. **A refinement.** `GoogleCC`'s reported target would be shown to implement an abstract debounced reporter.

These parts are left out entirely:

- **Out of TLC's reach or pure I/O:** RTP packet encoding (`rtp_packet.cpp`, `rtp_header_extension_map.cpp`), SDP (`session_description.h`), `transport_controller.cpp`, `peer_connection.h`, `video_send_stream.cpp` and `rtp_rtcp_impl.cpp`.
- **Transport feedback, the rest:** `Create` and `BlockLength` return constants, because the sender never builds this message, and `ToString` is logging. Nothing in the repository calls `Parse`, so the model assumes the usual RTCP receiver: a new object per message, with rejected messages dropped. The receiver never sends the reserved symbol 3, which `Parse` rejects when deltas are present. A message cut inside its deltas parses as one without deltas (`transport_feedback.cpp:141`). Nothing states what should happen to such a message, so no property is claimed about it.
- **Wiring:** the NACK histogram (`nack/histogram.cpp`) lies outside the congestion-control core.
- **Library code:** `TransportpacketsFeedback::SortedByReceiveTime` is webrtc's; `FeedbackEstimators` models it from its documented order (receive time, send time, sequence number).
- **The throughput estimator's ALR hand-over:** `SetAlrEndTime` and the `ExpectedFastRateChange` path of `IncomingPacketFeedbackVector` are modelled, but the only caller is the dead ALR-exit branch (`google_cc_network_controller.cpp:43`), so `alr_end_time_` stays unset in `FeedbackEstimators`.
- **Delay-based consumption of the estimates:** `GoogleCC` takes the delay-based result as an input and `DelayBasedBwe` takes acked and probe rates from small sets; `FeedbackEstimators` is not composed with them, because the composed state space would be out of TLC's reach.

Several lines do not compile as written: `sdt::max`, `if(state_ = ...)` on an enum class, `kAlrEndedTimeoutMs`, `config.alr_probing_interval`, `MaybeRiggerOnNetworkChanged`, `pacing_factor_`, `last_extended_high_seq_num_`. Each model reads such a line as the code evidently intends, and the module comment says where.
