--------------------------- MODULE ProbeController ---------------------------
(***************************************************************************)
(* ProbeController (probe_controller.cpp): the state machine that decides *)
(* which probe clusters GoogleCCNetworkController hands to the pacer.      *)
(* Every public method is an action; the vector of ProbeClusterConfig a    *)
(* call returns is appended to the history `issued`, so that properties    *)
(* can speak of every cluster the controller ever requested.               *)
(*                                                                         *)
(* Rates are in kbps (the code keeps bps; the factors 0.7, 0.85, 0.95 and  *)
(* 0.66 are applied with the same truncation), times in ms.  The clock     *)
(* advances by TimeStep, and OnProcessInterval, which calls Process, runs  *)
(* once at every instant before the clock moves on: that is the            *)
(* controller's periodic heartbeat on the task queue.                      *)
(***************************************************************************)
EXTENDS Integers, Sequences, GccUnits

CONSTANTS
  StartTime,       \* clock reading when the controller is created
  TimeStep,        \* ms between two heartbeats
  MaxTime,         \* last instant explored
  MaxClusters,     \* most probe clusters issued in a behaviour
  ConfigInputs,    \* arguments [min, start, max] of SetBitrates (-1 = unset)
  EstimateInputs,  \* arguments of SetEstimateBitrates (kbps)
  AlrInputs        \* arguments of SetAlrStartTime: a time or None

None == -1                                 \* an empty absl::optional

Init_ == "Init"
WaitingForProbingResult == "WaitingForProbingResult"
ProbingComplete == "ProbingComplete"
States == {Init_, WaitingForProbingResult, ProbingComplete}

kDefaultMaxProbingBitrateBps == 5000       \* kbps
kBitrateDropThreshold == 66                \* percent
kAlrEndedRecentlyMs == 3000
kBitrateDropTimeoutMs == 5000
kMinTimeBetweenAlrProbesMs == 5000
kMaxWaitingTimeForProbingResultMs == 1000
enable_periodic_alr_probing == FALSE
alr_probing_interval_ms == 5000
first_exp_probing_scale == 3
second_exp_probing_scale == 6

VARIABLES
  now,
  processed,       \* the heartbeat of this instant has run
  state,
  start_bitrate_bps,
  max_bitrate_bps,
  estimate_bitrate_bps,
  time_of_last_drop_large_ms,
  bitrate_before_last_drop_large_bps,
  next_probe_cluster_id,
  last_time_init_probing_ms,
  min_bitrate_to_further_probe_bps,
  alr_start_time_ms,
  alr_end_time_ms,
  last_bwe_drop_probe_time_ms,
  issued,          \* history: every ProbeClusterConfig returned so far
  returned,        \* history: the clusters the last call returned
  waiting_since    \* history: when the controller last started waiting

vars == <<now, processed, state, start_bitrate_bps, max_bitrate_bps,
          estimate_bitrate_bps, time_of_last_drop_large_ms,
          bitrate_before_last_drop_large_bps, next_probe_cluster_id,
          last_time_init_probing_ms, min_bitrate_to_further_probe_bps,
          alr_start_time_ms, alr_end_time_ms, last_bwe_drop_probe_time_ms,
          issued, returned, waiting_since>>

ctl_vars == <<state, start_bitrate_bps, max_bitrate_bps, estimate_bitrate_bps,
              time_of_last_drop_large_ms, bitrate_before_last_drop_large_bps,
              next_probe_cluster_id, last_time_init_probing_ms,
              min_bitrate_to_further_probe_bps, alr_start_time_ms,
              alr_end_time_ms, last_bwe_drop_probe_time_ms>>

(* The cap InitProbing applies to every probe. *)
MaxProbeBitrate ==
  IF max_bitrate_bps > 0 THEN max_bitrate_bps ELSE kDefaultMaxProbingBitrateBps

(* The clusters InitProbing builds from `probes`, capped, numbered from   *)
(* next_probe_cluster_id_ on.                                              *)
Clusters(at, probes) ==
  [i \in 1..Len(probes) |->
     [id |-> next_probe_cluster_id + i - 1, at |-> at,
      rate |-> Min2(probes[i], MaxProbeBitrate)]]

(* Mutant: one id skipped after each InitProbing. *)
NextClusterIdSkip(probes) == next_probe_cluster_id + Len(probes) + 1

(* next_probe_cluster_id_ after one id per probe. *)
NextClusterId(probes) == next_probe_cluster_id + Len(probes)

(* InitProbing: a probe above the cap is cut to it and ends further       *)
(* probing; otherwise the controller waits for the result of the last     *)
(* probe, and a later estimate above 70% of it probes further.            *)
InitProbing(at, probes, further_probe) ==
  LET capped == \E i \in 1..Len(probes) : probes[i] > MaxProbeBitrate
      further == further_probe /\ ~capped
      new == Clusters(at, probes)
  IN /\ Len(issued) + Len(probes) <= MaxClusters
     /\ next_probe_cluster_id' = NextClusterId(probes)
     /\ issued' = issued \o new
     /\ returned' = new
     /\ last_time_init_probing_ms' = at
     /\ state' = IF further THEN WaitingForProbingResult ELSE ProbingComplete
     /\ waiting_since' = at
     /\ min_bitrate_to_further_probe_bps' =
          IF further THEN (probes[Len(probes)] * 7) \div 10 ELSE 0

(* InitExpProbing: the exponential pair at 3x and 6x the start rate; it   *)
(* is defined in the code but no method calls it.                          *)
InitExpProbing(at) ==
  InitProbing(at, <<first_exp_probing_scale * start_bitrate_bps,
                    second_exp_probing_scale * start_bitrate_bps>>, TRUE)

NoProbes ==
  /\ returned' = <<>>
  /\ UNCHANGED <<issued, next_probe_cluster_id, last_time_init_probing_ms,
                 waiting_since>>

(* The state the constructor leaves (all but the clock). *)
Constructed ==
  /\ processed = FALSE
  /\ state = Init_
  /\ start_bitrate_bps = 0
  /\ max_bitrate_bps = 0
  /\ estimate_bitrate_bps = 0
  /\ time_of_last_drop_large_ms = 0
  /\ bitrate_before_last_drop_large_bps = 0
  /\ next_probe_cluster_id = 1
  /\ last_time_init_probing_ms = 0
  /\ min_bitrate_to_further_probe_bps = 0
  /\ alr_start_time_ms = None
  /\ alr_end_time_ms = None
  /\ last_bwe_drop_probe_time_ms = 0
  /\ issued = <<>>
  /\ returned = <<>>
  /\ waiting_since = 0

Init == now = StartTime /\ Constructed

(* Mutant: the first configuration starts exponential probing. *)
SetBitratesExp(min, start, max) ==
  LET s == CASE start > 0 -> start
             [] start = 0 -> min
             [] OTHER -> start_bitrate_bps
  IN /\ start_bitrate_bps' = s
     /\ max_bitrate_bps' = max
     /\ IF state = Init_
          THEN InitProbing(now, <<first_exp_probing_scale * s,
                                  second_exp_probing_scale * s>>, TRUE)
          ELSE /\ state' = IF state = WaitingForProbingResult
                           THEN ProbingComplete ELSE state
               /\ NoProbes
               /\ UNCHANGED min_bitrate_to_further_probe_bps
     /\ UNCHANGED <<now, processed, estimate_bitrate_bps, time_of_last_drop_large_ms,
                    bitrate_before_last_drop_large_bps, alr_start_time_ms,
                    alr_end_time_ms, last_bwe_drop_probe_time_ms>>

(* SetBitrates: store start (min when start is 0, kept when negative) and *)
(* max, and step the state machine; it returns no probes.                  *)
SetBitrates(min, start, max) ==
  /\ start_bitrate_bps' = CASE start > 0 -> start
                            [] start = 0 -> min
                            [] OTHER -> start_bitrate_bps
  /\ max_bitrate_bps' = max
  /\ state' = CASE state = Init_ -> WaitingForProbingResult
                [] state = WaitingForProbingResult -> ProbingComplete
                [] OTHER -> state
  /\ returned' = <<>>
  /\ waiting_since' = IF state = Init_ THEN now ELSE waiting_since
  /\ UNCHANGED <<issued, next_probe_cluster_id, last_time_init_probing_ms>>
  /\ UNCHANGED <<now, processed, estimate_bitrate_bps, time_of_last_drop_large_ms,
                 bitrate_before_last_drop_large_bps, min_bitrate_to_further_probe_bps,
                 alr_start_time_ms, alr_end_time_ms, last_bwe_drop_probe_time_ms>>

(* SetEstimateBitrates: a further probe while waiting, and the record of a *)
(* large drop against estimate_bitrate_bps_, which nothing ever assigns.   *)
FurtherProbe(estimate) ==
  /\ state = WaitingForProbingResult
  /\ min_bitrate_to_further_probe_bps /= 0
  /\ estimate > min_bitrate_to_further_probe_bps

(* Mutant: the estimate kept in estimate_bitrate_bps_ after the drop test. *)
SetEstimateBitratesKept(estimate) ==
  /\ IF FurtherProbe(estimate)
       THEN InitProbing(now, <<2 * estimate>>, TRUE)
       ELSE NoProbes /\ UNCHANGED <<state, min_bitrate_to_further_probe_bps>>
  /\ IF estimate * 100 < estimate_bitrate_bps * kBitrateDropThreshold
       THEN /\ time_of_last_drop_large_ms' = now
            /\ bitrate_before_last_drop_large_bps' = estimate_bitrate_bps
       ELSE UNCHANGED <<time_of_last_drop_large_ms, bitrate_before_last_drop_large_bps>>
  /\ estimate_bitrate_bps' = estimate
  /\ UNCHANGED <<now, processed, start_bitrate_bps, max_bitrate_bps,
                 alr_start_time_ms, alr_end_time_ms, last_bwe_drop_probe_time_ms>>

SetEstimateBitrates(estimate) ==
  /\ IF FurtherProbe(estimate)
       THEN InitProbing(now, <<2 * estimate>>, TRUE)
       ELSE NoProbes /\ UNCHANGED <<state, min_bitrate_to_further_probe_bps>>
  /\ IF estimate * 100 < estimate_bitrate_bps * kBitrateDropThreshold
       THEN /\ time_of_last_drop_large_ms' = now
            /\ bitrate_before_last_drop_large_bps' = estimate_bitrate_bps
       ELSE UNCHANGED <<time_of_last_drop_large_ms, bitrate_before_last_drop_large_bps>>
  /\ UNCHANGED <<now, processed, start_bitrate_bps, max_bitrate_bps,
                 estimate_bitrate_bps, alr_start_time_ms, alr_end_time_ms,
                 last_bwe_drop_probe_time_ms>>

SetAlrStartTime(alr) ==
  /\ alr_start_time_ms' = alr
  /\ UNCHANGED <<now, processed, state, start_bitrate_bps, max_bitrate_bps,
                 estimate_bitrate_bps, time_of_last_drop_large_ms,
                 bitrate_before_last_drop_large_bps, next_probe_cluster_id,
                 last_time_init_probing_ms, min_bitrate_to_further_probe_bps,
                 alr_end_time_ms, last_bwe_drop_probe_time_ms, issued, returned,
                 waiting_since>>

SetAlrEndTime ==
  /\ alr_end_time_ms' = now
  /\ UNCHANGED <<now, processed, state, start_bitrate_bps, max_bitrate_bps,
                 estimate_bitrate_bps, time_of_last_drop_large_ms,
                 bitrate_before_last_drop_large_bps, next_probe_cluster_id,
                 last_time_init_probing_ms, min_bitrate_to_further_probe_bps,
                 alr_start_time_ms, last_bwe_drop_probe_time_ms, issued, returned,
                 waiting_since>>

(* Process: leave WaitingForProbingResult once kMaxWaitingTimeForProbing- *)
(* ResultMs has passed since the last InitProbing; the periodic ALR probe  *)
(* is switched off by enable_periodic_alr_probing.                         *)
TimedOutUs(at) ==
  at - last_time_init_probing_ms > kMaxWaitingTimeForProbingResultMs * 1000

TimedOut(at) ==
  at - last_time_init_probing_ms > kMaxWaitingTimeForProbingResultMs

PeriodicAlrProbe(at, st) ==
  /\ enable_periodic_alr_probing
  /\ st = ProbingComplete
  /\ alr_start_time_ms /= None
  /\ estimate_bitrate_bps > 0
  /\ at >= Max2(alr_start_time_ms, last_time_init_probing_ms) + alr_probing_interval_ms

Process ==
  /\ ~processed
  /\ processed' = TRUE
  /\ LET expire == TimedOut(now) /\ state = WaitingForProbingResult
         st == IF expire THEN ProbingComplete ELSE state
     IN IF PeriodicAlrProbe(now, st)
          THEN InitProbing(now, <<estimate_bitrate_bps * 2>>, TRUE)
          ELSE /\ state' = st
               /\ min_bitrate_to_further_probe_bps' =
                    IF expire THEN 0 ELSE min_bitrate_to_further_probe_bps
               /\ NoProbes
  /\ UNCHANGED <<now, start_bitrate_bps, max_bitrate_bps, estimate_bitrate_bps,
                 time_of_last_drop_large_ms, bitrate_before_last_drop_large_bps,
                 alr_start_time_ms, alr_end_time_ms, last_bwe_drop_probe_time_ms>>

(* RequestProbe: after an ALR that ended recently, probe at 85% of the    *)
(* rate before the last large drop if the estimate is still below it, the *)
(* drop is recent and no such probe ran for 5 s; otherwise probe at the   *)
(* start rate.  The code tests `state_ = kProbingComplete`; the model     *)
(* reads it as the comparison it is meant to be.                           *)
DropProbe(suggested) ==
  /\ alr_start_time_ms /= None
  /\ alr_end_time_ms /= None
  /\ now - alr_end_time_ms < kAlrEndedRecentlyMs
  /\ state = ProbingComplete
  /\ (suggested * 95) \div 100 > estimate_bitrate_bps
  /\ now - time_of_last_drop_large_ms < kBitrateDropTimeoutMs
  /\ now - last_bwe_drop_probe_time_ms > kMinTimeBetweenAlrProbesMs

RequestProbe ==
  /\ LET suggested == (bitrate_before_last_drop_large_bps * 85) \div 100
     IN IF DropProbe(suggested)
          THEN /\ last_bwe_drop_probe_time_ms' = now
               /\ InitProbing(now, <<suggested>>, FALSE)
          ELSE /\ UNCHANGED last_bwe_drop_probe_time_ms
               /\ InitProbing(now, <<start_bitrate_bps>>, FALSE)
  /\ UNCHANGED <<now, processed, start_bitrate_bps, max_bitrate_bps,
                 estimate_bitrate_bps, time_of_last_drop_large_ms,
                 bitrate_before_last_drop_large_bps, alr_start_time_ms,
                 alr_end_time_ms>>

(* The clock moves on once this instant's heartbeat has run. *)
Tick ==
  /\ processed
  /\ now + TimeStep <= MaxTime
  /\ now' = now + TimeStep
  /\ processed' = FALSE
  /\ UNCHANGED <<ctl_vars, issued, returned, waiting_since>>

Next ==
  \/ Tick
  \/ Process
  \/ RequestProbe
  \/ \E c \in ConfigInputs : SetBitrates(c.min, c.start, c.max)
  \/ \E e \in EstimateInputs : SetEstimateBitrates(e)
  \/ \E a \in AlrInputs : SetAlrStartTime(a)
  \/ SetAlrEndTime

Spec == Init /\ [][Next]_vars

-----------------------------------------------------------------------------
ClusterConfig == [id : Nat, at : Nat, rate : Int]

TypeOK ==
  /\ now \in StartTime..MaxTime
  /\ processed \in BOOLEAN
  /\ state \in States
  /\ next_probe_cluster_id \in 1..MaxClusters + 1
  /\ issued \in Seq(ClusterConfig)
  /\ returned \in Seq(ClusterConfig)
  /\ min_bitrate_to_further_probe_bps \in Nat
  /\ alr_start_time_ms \in {None} \cup Nat
  /\ alr_end_time_ms \in {None} \cup Nat
  /\ {start_bitrate_bps, max_bitrate_bps, estimate_bitrate_bps,
      bitrate_before_last_drop_large_bps} \subseteq Int
  /\ {time_of_last_drop_large_ms, last_time_init_probing_ms,
      last_bwe_drop_probe_time_ms, waiting_since} \subseteq 0..MaxTime

(* The controller never waits for a probe result for longer than          *)
(* kMaxWaitingTimeForProbingResultMs and one heartbeat: Process, run by    *)
(* every OnProcessInterval, times the wait out from the last InitProbing,  *)
(* whichever of SetBitrates or InitProbing put it in the waiting state.    *)
WaitingBounded ==
  state = WaitingForProbingResult =>
    now - waiting_since <= kMaxWaitingTimeForProbingResultMs + TimeStep

(* The recovery probe of RequestProbe after a large drop never runs:     *)
(* last_bwe_drop_probe_time_ms_ keeps its initial 0.  The spec has a       *)
(* recovery request probe at 85% of the pre-drop rate while the estimate  *)
(* is still below it; SetEstimateBitrates tests the drop against           *)
(* estimate_bitrate_bps_ (probe_controller.cpp:74), which nothing assigns, *)
(* so no drop is ever recorded and the request always falls back to the   *)
(* start rate, whatever estimates, ALR periods and requests come.          *)
DropRecoveryNeverProbes == last_bwe_drop_probe_time_ms = 0

(* The exponential probing of the spec never starts, and so never goes   *)
(* further: its scenario has two clusters at 3x and 6x the start rate on  *)
(* the first configuration, and a further probe at 2x any estimate above   *)
(* 70% of the last.  SetBitrates only steps Init to WaitingForProbing-     *)
(* Result and returns no probes (probe_controller.cpp:49; InitExpProbing   *)
(* has no caller), RequestProbe probes without asking for more, and the    *)
(* periodic ALR probe is switched off; so min_bitrate_to_further_probe_    *)
(* bps_ is never armed, and the wait SetBitrates enters always times out.  *)
FurtherProbingNeverArmed == min_bitrate_to_further_probe_bps = 0
=============================================================================
