-------------------------- MODULE FeedbackParsing --------------------------
(***************************************************************************)
(* The receive path of transport-wide feedback: the remote receiver sends *)
(* a feedback message about the packets from its next transport sequence  *)
(* number on, the sender parses it (TransportFeedback::Parse), and the     *)
(* TransportFeedbackAdapter moves its current_offset_ by the change of     *)
(* the message's 24-bit reference time (ProcessTransportFeedbackInner,     *)
(* transport_feedback_adapter.cpp:78-89).                                  *)
(*                                                                         *)
(* The receiver is the environment.  Its report is a sequence of symbols   *)
(* (0 not received, 1 small delta, 2 large delta); it encodes them in any  *)
(* valid sequence of status chunks, with or without receive deltas, pads   *)
(* to 32-bit words with zeros, and the message may arrive truncated by up  *)
(* to Cuts bytes.  Its reference time and sequence numbers run unwrapped   *)
(* here and are sent modulo 2^24 and 2^16.  Only a message Parse accepts   *)
(* reaches the adapter, as the RTCP receiver drops the others.             *)
(***************************************************************************)
EXTENDS Integers, Sequences, FiniteSets

CONSTANTS
  StartSeq,        \* the receiver's first transport sequence number
  StartTicks,      \* its possible first reference times, in 64 ms ticks
  TickSteps,       \* how far the reference time moves between messages
  MaxStatuses,     \* symbols per message
  SmallDelta,      \* the receive delta of a symbol 1, in ticks (0..255)
  LargeDelta,      \* the receive delta of a symbol 2, in ticks (int16)
  Cuts,            \* bytes lost from the end of a message
  FeedbackTimeMs,  \* the sender's clock advances by this per message
  MaxFeedbacks

TF == INSTANCE TransportFeedback

None == -1
NoReport == [symbols |-> <<>>, cut |-> 0]

VARIABLES
  ref_ticks, next_seq, fb_count,   \* the receiver
  prev_ticks,                      \* its reference time at the last accepted message
  ref_delta,                       \* the change of it the adapter last saw
  report,                          \* the last message: what the receiver meant
  result,                          \* Parse's result: [ok, fb, overread]
  last_timestamp,                  \* the adapter's last_timestamp_ (base ticks)
  current_offset_ms,               \* the adapter's current_offset_
  base_delta                       \* the base delta it last applied (base ticks)

vars == <<ref_ticks, next_seq, fb_count, prev_ticks, ref_delta, report, result,
          last_timestamp, current_offset_ms, base_delta>>

-----------------------------------------------------------------------------
(* The receiver's encoding, after the message format of the transport-wide *)
(* congestion control draft: a run-length chunk is 0, the symbol and a     *)
(* 13-bit run; a status vector is 1, a 1-bit flag for 2-bit symbols, then  *)
(* 14 1-bit or 7 2-bit symbols, the unused ones zero.                      *)
RunLengthChunk(sym, len) == sym * 2^13 + len
OneBitChunk(s) ==
  2^15 + TF!Sum([i \in 1..Len(s) |-> s[i] * 2^(TF!kOneBitCapacity - i)])
TwoBitChunk(s) ==
  2^15 + 2^14 + TF!Sum([i \in 1..Len(s) |-> s[i] * 4^(TF!kTwoBitCapacity - i)])

RECURSIVE Encodings(_)
Encodings(s) ==
  IF s = <<>> THEN {<<>>}
  ELSE LET runs == {k \in 1..Len(s) : \A i \in 1..k : s[i] = s[1]}
       IN UNION {{<<RunLengthChunk(s[1], k)>> \o e : e \in Encodings(SubSeq(s, k + 1, Len(s)))}
                   : k \in runs}
          \cup (IF \A i \in 1..Len(s) : s[i] <= 1 THEN {<<OneBitChunk(s)>>} ELSE {})
          \cup {<<TwoBitChunk(s)>>}

U16Bytes(v) == LET u == v % 2^16 IN <<u \div 256, u % 256>>

RECURSIVE ChunkBytes(_)
ChunkBytes(cs) == IF cs = <<>> THEN <<>> ELSE U16Bytes(Head(cs)) \o ChunkBytes(Tail(cs))

RECURSIVE DeltaBytes(_)
DeltaBytes(s) ==
  IF s = <<>> THEN <<>>
  ELSE (CASE Head(s) = 1 -> <<SmallDelta>>
          [] Head(s) = 2 -> U16Bytes(LargeDelta)
          [] OTHER -> <<>>) \o DeltaBytes(Tail(s))

Padded(b) == b \o [i \in 1..((4 - (Len(b) % 4)) % 4) |-> 0]

Message(r) ==
  LET body == Padded(ChunkBytes(r.chunks) \o (IF r.timestamps THEN DeltaBytes(r.symbols) ELSE <<>>))
  IN [base_seq |-> r.base_seq % 2^16, status_count |-> Len(r.symbols),
      base_time_ticks |-> r.ticks % 2^24, fb_seq |-> r.fb_seq,
      body |-> SubSeq(body, 1, Len(body) - r.cut)]

Reports(ticks) ==
  UNION {UNION {{[base_seq |-> next_seq, ticks |-> ticks, fb_seq |-> fb_count % 256,
                  symbols |-> s, chunks |-> cs, timestamps |-> ts, cut |-> cut]
                   : cs \in Encodings(s), ts \in BOOLEAN, cut \in Cuts}
                : s \in [1..n -> {0, 1, 2}]}
         : n \in 1..MaxStatuses}

-----------------------------------------------------------------------------
(* ProcessTransportFeedbackInner, lines 78-89: the first message anchors   *)
(* current_offset_ at the feedback time; later ones move it by the base    *)
(* delta, rounded down to whole ms, unless that would take it below zero   *)
(* (line 82 as meant: it subtracts a Timestamp from a TimeDelta).  Then    *)
(* last_timestamp_ is the message's base time.                             *)
UpdateCurrentOffset(fb, feedback_time_ms) ==
  LET delta == TF!GetBaseDelta(fb, last_timestamp)
      delta_ms == delta * (TF!kBaseScaleFactor \div 1000)   \* RoundDownTo(1 ms): exact
  IN /\ IF last_timestamp = None
          THEN /\ current_offset_ms' = feedback_time_ms
               /\ base_delta' = None
          ELSE /\ current_offset_ms' = IF delta_ms < 0 - current_offset_ms
                                       THEN feedback_time_ms
                                       ELSE current_offset_ms + delta_ms
               /\ base_delta' = delta
     /\ last_timestamp' = TF!GetBaseTime(fb)

Init ==
  /\ ref_ticks \in StartTicks
  /\ next_seq = StartSeq
  /\ fb_count = 0
  /\ prev_ticks = None
  /\ ref_delta = None
  /\ report = NoReport
  /\ result = [ok |-> FALSE, fb |-> TF!NewFeedback, overread |-> FALSE]
  /\ last_timestamp = None
  /\ current_offset_ms = TF!MinusInfinity
  /\ base_delta = None

(* The receiver's clock moves on (from the second message), it sends a     *)
(* message, and the sender parses it into a new object; if Parse accepts   *)
(* it, the adapter takes its reference time.                               *)
OnFeedback ==
  /\ fb_count < MaxFeedbacks
  /\ \E step \in IF fb_count = 0 THEN {0} ELSE TickSteps :
     \E r \in Reports(ref_ticks + step) :
       /\ report' = r
       /\ result' = TF!Parse(TF!NewFeedback, Message(r))
       /\ IF result'.ok
            THEN /\ UpdateCurrentOffset(result'.fb, FeedbackTimeMs * (fb_count + 1))
                 /\ prev_ticks' = r.ticks
                 /\ ref_delta' = IF prev_ticks = None THEN None ELSE r.ticks - prev_ticks
            ELSE UNCHANGED <<last_timestamp, current_offset_ms, base_delta,
                             prev_ticks, ref_delta>>
       /\ next_seq' = next_seq + Len(r.symbols)
       /\ ref_ticks' = r.ticks
  /\ fb_count' = fb_count + 1

Next == OnFeedback

Spec == Init /\ [][Next]_vars

-----------------------------------------------------------------------------
TypeOK ==
  /\ fb_count \in 0..MaxFeedbacks
  /\ result.ok \in BOOLEAN
  /\ result.fb.num_seq_no \in 0..MaxStatuses
  /\ \A i \in DOMAIN result.fb.all_packets :
       result.fb.all_packets[i].sequence_number \in 0..(2^16 - 1)
  /\ last_timestamp = None \/ last_timestamp \in 0..(2^24 - 1)

(* What the receiver reported, packet by packet. *)
Entries(r) ==
  [i \in 1..Len(r.symbols) |->
     [sequence_number |-> (r.base_seq + i - 1) % 2^16,
      delta_ticks |-> CASE ~r.timestamps \/ r.symbols[i] = 0 -> 0
                        [] r.symbols[i] = 1 -> SmallDelta
                        [] OTHER -> LargeDelta,
      received |-> r.symbols[i] > 0]]

(* An intact message, in any of its chunk encodings, parses, and           *)
(* ReceivedPackets() lists exactly the received packets with their deltas  *)
(* (zero when the message has none), AllPackets() every sequence number:   *)
(* the chunk decoding of LastChunk, its capping at the remaining status    *)
(* count, the byte order and sign of the deltas and the uint16 wrap of      *)
(* seq_no in Parse all agree with the receiver.                            *)
ReceivedPacketsMatchReport ==
  (report /= NoReport /\ report.cut = 0) =>
    /\ result.ok
    /\ result.fb.num_seq_no = Len(report.symbols)
    /\ result.fb.received_packets = SelectSeq(Entries(report), LAMBDA e : e.received)
    /\ [i \in DOMAIN result.fb.all_packets |-> result.fb.all_packets[i].sequence_number]
         = [i \in DOMAIN report.symbols |-> Entries(report)[i].sequence_number]

(* Parse never reads past the payload, whatever the message: the chunk     *)
(* loop stops two bytes before the end, and the delta loop takes the       *)
(* deltas only when all of them fit.                                       *)
ParseStaysInBuffer == ~result.overread

(* The adapter moves current_offset_ by the receiver's real change of     *)
(* reference time whenever that change is under half the 24-bit wrap      *)
(* period (about 9 minutes), forwards or backwards, across a wrap or not:  *)
(* GetBaseDeltaUs picks the shorter way round.                             *)
BaseDeltaUnwraps ==
  (base_delta /= None /\ TF!Abs(ref_delta) < 2^23) => base_delta = ref_delta
=============================================================================
