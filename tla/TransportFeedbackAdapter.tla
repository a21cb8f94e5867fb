------------------------ MODULE TransportFeedbackAdapter ------------------------
(***************************************************************************)
(* TransportFeedbackAdapter (transport_feedback_adapter.cpp): the send-    *)
(* side history of transport-wide sequence numbers.  AddPacket records a   *)
(* packet before it is sent, ProcessSentPacket stamps its send time, and   *)
(* ProcessTransportFeedback turns the receiver's report into the packet    *)
(* results that the controller sees.                                       *)
(*                                                                         *)
(* history is a function from sequence number to [creation_time, size,     *)
(* sent]; sent stands for a finite sent.send_time.  Sequence numbers are   *)
(* taken as already unwrapped.  The receive times (current_offset_,        *)
(* last_timestamp_ and the packet deltas) are left out: the controller's   *)
(* use of them is abstracted in GoogleCC, and line 82 compares a TimeDelta *)
(* with a Timestamp, which does not compile.  last_send_time_ and          *)
(* first_unacked_send_time are written but nothing reads them.             *)
(***************************************************************************)
EXTENDS Integers, Sequences, FiniteSets

VARIABLES
  history,            \* std::map<int64_t, PacketFeedback> history_
  last_ack_seq_num    \* last_ack_seq_num_

tfa_vars == <<history, last_ack_seq_num>>

kSendTimeHistoryWindow == 60000

InitAdapter ==
  /\ history = <<>>
  /\ last_ack_seq_num = -1

(* Erase history_.begin(), the lowest sequence number, while it is older   *)
(* than the window.                                                        *)
RECURSIVE EvictOld(_, _)
EvictOld(h, creation_time) ==
  IF DOMAIN h = {} THEN h
  ELSE LET first == CHOOSE s \in DOMAIN h : \A t \in DOMAIN h : s <= t
       IN IF creation_time - h[first].creation_time > kSendTimeHistoryWindow
          THEN EvictOld([s \in DOMAIN h \ {first} |-> h[s]], creation_time)
          ELSE h

(* AddPacket: evict, then insert (std::map::insert keeps an existing key). *)
AddPacket(creation_time, seq, size) ==
  LET h == EvictOld(history, creation_time)
  IN /\ history' = IF seq \in DOMAIN h THEN h
                   ELSE [s \in DOMAIN h \cup {seq} |->
                           IF s = seq THEN [creation_time |-> creation_time,
                                            size |-> size, sent |-> FALSE]
                           ELSE h[s]]
     /\ UNCHANGED last_ack_seq_num

(* ProcessSentPacket: the SentPacket it returns, or <<>> for nullopt.  A   *)
(* packet already stamped is a retransmission and returns nothing.         *)
SentPacketMsg(seq) ==
  IF seq \in DOMAIN history /\ ~history[seq].sent
  THEN <<[seq |-> seq, size |-> history[seq].size]>>
  ELSE <<>>

ProcessSentPacket(seq) ==
  /\ history' = IF seq \in DOMAIN history
                THEN [history EXCEPT ![seq].sent = TRUE]
                ELSE history
  /\ UNCHANGED last_ack_seq_num

(* ProcessTransportFeedbackInner over the report from its i-th packet: a   *)
(* report is a sequence of [seq, received].  A packet not in the history   *)
(* is a failed lookup; a packet with a finite send time is skipped (line   *)
(* 108, "feedback before the packet was sent"); any other becomes a        *)
(* result, and a received one leaves the history.                          *)
RECURSIVE FeedbackInner(_, _, _)
FeedbackInner(acc, report, i) ==
  IF i > Len(report) THEN acc
  ELSE LET p == report[i]
           a == [acc EXCEPT !.last_ack = IF p.seq > @ THEN p.seq ELSE @]
       IN FeedbackInner(
            IF p.seq \notin DOMAIN a.h \/ a.h[p.seq].sent THEN a
            ELSE [a EXCEPT
                    !.results = Append(@, [seq |-> p.seq,
                                           sent |-> a.h[p.seq].sent,
                                           received |-> p.received]),
                    !.h = IF p.received
                          THEN [s \in DOMAIN @ \ {p.seq} |-> @[s]]
                          ELSE @],
            report, i + 1)

(* ProcessTransportFeedback: the packet results, <<>> standing for         *)
(* nullopt (an empty report, or no result).                                *)
FeedbackOutcome(report) ==
  FeedbackInner([h |-> history, last_ack |-> last_ack_seq_num,
                 results |-> <<>>], report, 1)

ProcessTransportFeedback(report) ==
  LET r == FeedbackOutcome(report)
  IN /\ history' = r.h
     /\ last_ack_seq_num' = r.last_ack
=============================================================================
