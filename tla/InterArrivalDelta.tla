-------------------------- MODULE InterArrivalDelta --------------------------
(***************************************************************************)
(* InterArrivalDelta (inter_arrival_delta.cpp): groups the packets of the  *)
(* feedback by send time and, when a packet opens a new group, computes    *)
(* the send-time and arrival-time deltas between the group just completed  *)
(* and the one before it.  The state is the pair of SendTimeGroups; an     *)
(* operation maps a state and a packet to the next state and the values   *)
(* it returns.  Times are Timestamps in ms with the infinities of          *)
(* GccUnits; the group's byte count (size) and the size delta it yields    *)
(* are left out: TrendlineEstimator never reads the size.                  *)
(***************************************************************************)
EXTENDS Integers, GccUnits

kBurstDeltaThreshold == 5
kMaxBurstDuration == 100
kArrivalTimeOffsetThreshold == 3000

(* A SendTimeGroup as its constructor leaves it: every time unset. *)
SendTimeGroup ==
  [first_send_time |-> MinusInfinity, send_time |-> MinusInfinity,
   first_arrival |-> MinusInfinity, complete_time |-> MinusInfinity,
   last_system_time |-> MinusInfinity]

IsFirstPacket(g) == IsInfinite(g.complete_time)

(* The constructor, and Reset: both groups back to the unset group. *)
Reset == [current |-> SendTimeGroup, prev |-> SendTimeGroup]

(* The packet arrived in a burst with the current group: the same send     *)
(* time, or within 5 ms of its last arrival and 100 ms of its first with   *)
(* a negative propagation delay.                                           *)
BelongsToBurst(iad, arrival_time, send_time) ==
  LET arrival_time_delta == Sub(arrival_time, iad.current.complete_time)
      send_time_delta == Sub(send_time, iad.current.send_time)
      propagation_delay == Sub(arrival_time_delta, send_time_delta)
  IN \/ send_time_delta = 0
     \/ /\ propagation_delay < 0
        /\ arrival_time_delta < kBurstDeltaThreshold
        /\ Sub(arrival_time, iad.current.first_arrival) < kMaxBurstDuration

NewTimestampGroup(iad, arrival_time, send_time, group_length) ==
  /\ ~IsInfinite(iad.current.complete_time)
  /\ ~BelongsToBurst(iad, arrival_time, send_time)
  /\ Sub(send_time, iad.current.first_send_time) > group_length

(* The tail of ComputeDeltas that every accepted packet runs. *)
Complete(g, arrival_time, system_time) ==
  [g EXCEPT !.complete_time = arrival_time, !.last_system_time = system_time]

(* Mutant: the delta guard as its comment means it, on a set previous     *)
(* group.                                                                  *)
ComputeDeltasFinitePrev(iad, send_time, arrival_time, system_time, group_length) ==
  LET cur == iad.current
      prev == iad.prev
      Out(s, calculated, sd, ad) ==
        [iad |-> s, calculated |-> calculated, send_delta |-> sd,
         arrival_delta |-> ad]
      Opened == Complete([cur EXCEPT !.first_send_time = send_time,
                                     !.send_time = send_time,
                                     !.first_arrival = arrival_time],
                         arrival_time, system_time)
      Rotated(sd, ad) == Out([current |-> Opened, prev |-> cur], TRUE, sd, ad)
  IN CASE IsFirstPacket(cur) ->
            Out([iad EXCEPT !.current = Opened], FALSE, 0, 0)
       [] send_time < cur.send_time ->
            Out(iad, FALSE, 0, 0)
       [] NewTimestampGroup(iad, arrival_time, send_time, group_length) ->
            IF IsFinite(prev.complete_time)
            THEN LET sd == Sub(cur.send_time, prev.send_time)
                     ad == Sub(cur.complete_time, prev.complete_time)
                     system_delta == Sub(cur.last_system_time,
                                         prev.last_system_time)
                 IN IF Sub(ad, system_delta) >= kArrivalTimeOffsetThreshold
                    THEN Out(Reset, FALSE, 0, 0)
                    ELSE Rotated(sd, ad)
            ELSE Rotated(0, 0)
       [] OTHER ->
            Out([iad EXCEPT !.current =
                   Complete([cur EXCEPT !.send_time = Max2(@, send_time)],
                            arrival_time, system_time)],
                FALSE, 0, 0)

(* ComputeDeltas: the next state, calculated_delta, and the deltas it      *)
(* writes.  An untouched out-parameter keeps the caller's Zero.  As        *)
(* written the delta branch runs when the previous group is still unset    *)
(* (IsInfinite, line 42): its deltas are then infinite, their difference   *)
(* from the system delta is +inf (release build), and the clock-offset     *)
(* guard resets the state and drops the packet.                            *)
ComputeDeltas(iad, send_time, arrival_time, system_time, group_length) ==
  LET cur == iad.current
      prev == iad.prev
      Out(s, calculated, sd, ad) ==
        [iad |-> s, calculated |-> calculated, send_delta |-> sd,
         arrival_delta |-> ad]
      Opened == Complete([cur EXCEPT !.first_send_time = send_time,
                                     !.send_time = send_time,
                                     !.first_arrival = arrival_time],
                         arrival_time, system_time)
      Rotated(sd, ad) == Out([current |-> Opened, prev |-> cur], TRUE, sd, ad)
  IN CASE IsFirstPacket(cur) ->
            Out([iad EXCEPT !.current = Opened], FALSE, 0, 0)
       [] send_time < cur.send_time ->
            Out(iad, FALSE, 0, 0)
       [] NewTimestampGroup(iad, arrival_time, send_time, group_length) ->
            IF IsInfinite(prev.complete_time)
            THEN LET sd == Sub(cur.send_time, prev.send_time)
                     ad == Sub(cur.complete_time, prev.complete_time)
                     system_delta == Sub(cur.last_system_time,
                                         prev.last_system_time)
                 IN IF Sub(ad, system_delta) >= kArrivalTimeOffsetThreshold
                    THEN Out(Reset, FALSE, 0, 0)
                    ELSE Rotated(sd, ad)
            ELSE Rotated(0, 0)
       [] OTHER ->
            Out([iad EXCEPT !.current =
                   Complete([cur EXCEPT !.send_time = Max2(@, send_time)],
                            arrival_time, system_time)],
                FALSE, 0, 0)
=============================================================================
