------------------------- MODULE TransportFeedback -------------------------
(***************************************************************************)
(* The RTCP transport-wide feedback message as the sender parses it        *)
(* (rtcp_packet/transport_feedback.cpp).  Parse reads the header, decodes  *)
(* packet status chunks (run-length, 1-bit and 2-bit vectors) through      *)
(* LastChunk until status_count symbols are known, and then reads one      *)
(* receive delta per received packet, or none when the message is too     *)
(* short to hold them.                                                     *)
(*                                                                         *)
(* A message is a record [base_seq, status_count, base_time_ticks,         *)
(* fb_seq, body]: the four header fields as ReadBigEndian yields them      *)
(* (bytes 8 to 15 of the payload), and body, the bytes from offset 16 on,  *)
(* where chunks and deltas share one buffer.  The two SSRCs of             *)
(* ParseCommonFeedback are left out.  The object's fields are a record;    *)
(* Parse returns it with the boolean result, and a ghost overread that is  *)
(* TRUE when a byte past the end of the payload would have been read.      *)
(***************************************************************************)
EXTENDS Integers, Sequences, GccUnits

kDeltaScaleFactor == 250                            \* us per delta tick
kBaseScaleFactor == kDeltaScaleFactor * 256         \* us per base tick
kTimeWrapPeriod == 2^24                             \* in base ticks
kMinPayloadSizeBytes == 8 + 8 + 2
kChunkSizeBytes == 2
kRtcpTransportFeedbackHeaderSize == 4 + 8 + 8
kHeaderSize == 4                                    \* RtcpPacket::kHeaderSize

kRunLengthCapacity == 8191                          \* 0x1fff
kOneBitCapacity == 14
kTwoBitCapacity == 7
kLarge == 2

(* ReceivePacket's two constructors: received with a delta, or lost. *)
ReceivePacket(seq, delta_ticks) ==
  [sequence_number |-> seq, delta_ticks |-> delta_ticks, received |-> TRUE]
LostPacket(seq) ==
  [sequence_number |-> seq, delta_ticks |-> 0, received |-> FALSE]

(* The object before any Parse: its member initialisers. *)
NewFeedback ==
  [base_seq_no |-> 0, num_seq_no |-> 0, base_time_ticks |-> 0, feedback_seq |-> 0,
   last_chunk |-> [size |-> 0, all_same |-> FALSE, has_large_delta |-> FALSE,
                   delta_size |-> <<>>],
   all_packets |-> <<>>, received_packets |-> <<>>,
   include_lost |-> TRUE, include_timestamps |-> TRUE, size_bytes |-> 0]

-----------------------------------------------------------------------------
(* Reading the payload: PayloadSize is packet.payload_size(); a read past  *)
(* it yields 0 and is recorded by the caller as an overread.               *)
PayloadSize(m) == 16 + Len(m.body)
ByteAt(m, i) == IF 16 <= i /\ i < PayloadSize(m) THEN m.body[i - 15] ELSE 0
ReadU16(m, i) == 256 * ByteAt(m, i) + ByteAt(m, i + 1)
ReadI16(m, i) == LET v == ReadU16(m, i) IN IF v >= 2^15 THEN v - 2^16 ELSE v

(* chunk >> shift & mask, for a mask of the form 2^k - 1. *)
Bits(chunk, shift, mask) == (chunk \div 2^shift) % (mask + 1)

-----------------------------------------------------------------------------
(* LastChunk: [size, all_same, has_large_delta, delta_size], delta_size    *)
(* the first size_ entries of delta_size_ (one entry for a run).           *)
DecodeRunLength(chunk, max_size) ==
  LET delta_size == Bits(chunk, 13, 3)
  IN [size |-> Min2(Bits(chunk, 0, kRunLengthCapacity), max_size), all_same |-> TRUE,
      has_large_delta |-> delta_size > kLarge, delta_size |-> <<delta_size>>]

(* Mutant: each symbol read one bit too far left. *)
DecodeOneBitShifted(chunk, max_size) ==
  LET size == Min2(kOneBitCapacity, max_size)
  IN [size |-> size, all_same |-> FALSE, has_large_delta |-> FALSE,
      delta_size |-> [i \in 1..size |-> Bits(chunk, kOneBitCapacity - i + 1, 1)]]

DecodeOneBit(chunk, max_size) ==
  LET size == Min2(kOneBitCapacity, max_size)
  IN [size |-> size, all_same |-> FALSE, has_large_delta |-> FALSE,
      delta_size |-> [i \in 1..size |-> Bits(chunk, kOneBitCapacity - i, 1)]]

DecodeTwoBit(chunk, max_size) ==
  LET size == Min2(kTwoBitCapacity, max_size)
  IN [size |-> size, all_same |-> FALSE, has_large_delta |-> TRUE,
      delta_size |-> [i \in 1..size |-> Bits(chunk, 2 * (kTwoBitCapacity - i), 3)]]

(* The top two bits select the chunk type. *)
Decode(chunk, max_size) ==
  CASE Bits(chunk, 15, 1) = 0 -> DecodeRunLength(chunk, max_size)
    [] Bits(chunk, 14, 1) = 0 -> DecodeOneBit(chunk, max_size)
    [] OTHER               -> DecodeTwoBit(chunk, max_size)

AppendTo(lc, deltas) ==
  IF lc.all_same THEN deltas \o [i \in 1..lc.size |-> lc.delta_size[1]]
  ELSE deltas \o lc.delta_size

ClearLastChunk(lc) == [lc EXCEPT !.size = 0, !.all_same = TRUE, !.has_large_delta = FALSE]

(* TransportFeedback::Clear. *)
Clear(fb) ==
  [fb EXCEPT !.last_chunk = ClearLastChunk(@), !.all_packets = <<>>,
             !.received_packets = <<>>, !.size_bytes = kRtcpTransportFeedbackHeaderSize]

-----------------------------------------------------------------------------
(* The chunk loop of Parse (lines 116-131): decode chunks until the        *)
(* symbols of status_count packets are known, or fail at the end of the    *)
(* buffer.                                                                 *)
(* Mutant: the end-of-buffer test one byte late. *)
RECURSIVE ReadChunksLate(_, _, _, _)
ReadChunksLate(m, index, delta_sizes, lc) ==
  IF Len(delta_sizes) >= m.status_count
    THEN [ok |-> TRUE, index |-> index, delta_sizes |-> delta_sizes, last_chunk |-> lc]
  ELSE IF index + kChunkSizeBytes > PayloadSize(m) + 1
    THEN [ok |-> FALSE, index |-> index, delta_sizes |-> delta_sizes, last_chunk |-> lc]
  ELSE LET c == Decode(ReadU16(m, index), m.status_count - Len(delta_sizes))
       IN ReadChunksLate(m, index + kChunkSizeBytes, AppendTo(c, delta_sizes), c)

RECURSIVE ReadChunks(_, _, _, _)
ReadChunks(m, index, delta_sizes, lc) ==
  IF Len(delta_sizes) >= m.status_count
    THEN [ok |-> TRUE, index |-> index, delta_sizes |-> delta_sizes, last_chunk |-> lc]
  ELSE IF index + kChunkSizeBytes > PayloadSize(m)
    THEN [ok |-> FALSE, index |-> index, delta_sizes |-> delta_sizes, last_chunk |-> lc]
  ELSE LET c == Decode(ReadU16(m, index), m.status_count - Len(delta_sizes))
       IN ReadChunks(m, index + kChunkSizeBytes, AppendTo(c, delta_sizes), c)

(* One symbol of the delta loop (lines 142-176) for packet seq_no: the     *)
(* packets are appended, the index moves past the delta, or the parse      *)
(* fails on the reserved symbol 3.  A received packet is appended to       *)
(* all_packets_ with the lost-packet constructor, emplace_back(seq_no).    *)
ReadDelta(acc, m, delta_size) ==
  LET seq == acc.seq_no
      lost == IF acc.include_lost THEN <<LostPacket(seq)>> ELSE <<>>
  IN CASE acc.index + delta_size > PayloadSize(m) -> [acc EXCEPT !.ok = FALSE]
       [] delta_size = 0 ->
            [acc EXCEPT !.all = @ \o lost]
       [] delta_size = 1 ->
            [acc EXCEPT !.received = Append(@, ReceivePacket(seq, ByteAt(m, acc.index))),
                        !.all = @ \o lost, !.index = @ + 1]
       [] delta_size = 2 ->
            [acc EXCEPT !.received = Append(@, ReceivePacket(seq, ReadI16(m, acc.index))),
                        !.all = @ \o lost, !.index = @ + 2]
       [] OTHER -> [acc EXCEPT !.ok = FALSE]

(* Mutant: seq_no counted without the uint16_t wrap. *)
RECURSIVE ReadDeltasNoWrap(_, _, _)
ReadDeltasNoWrap(acc, m, delta_sizes) ==
  IF delta_sizes = <<>> \/ ~acc.ok THEN acc
  ELSE ReadDeltasNoWrap([ReadDelta(acc, m, Head(delta_sizes)) EXCEPT !.seq_no = @ + 1],
                        m, Tail(delta_sizes))

(* The receive-delta loop, seq_no a uint16_t stepping once per symbol. *)
RECURSIVE ReadDeltas(_, _, _)
ReadDeltas(acc, m, delta_sizes) ==
  IF delta_sizes = <<>> \/ ~acc.ok THEN acc
  ELSE ReadDeltas([ReadDelta(acc, m, Head(delta_sizes))
                     EXCEPT !.seq_no = (@ + 1) % 2^16],
                  m, Tail(delta_sizes))

(* The loop for a message without receive deltas (lines 184-200). *)
RECURSIVE NoDeltas(_, _)
NoDeltas(acc, delta_sizes) ==
  IF delta_sizes = <<>> THEN acc
  ELSE LET seq == acc.seq_no
           ds == Head(delta_sizes)
       IN NoDeltas([acc EXCEPT
                      !.received = IF ds > 0 THEN Append(@, ReceivePacket(seq, 0)) ELSE @,
                      !.all = IF ~acc.include_lost THEN @
                              ELSE IF ds > 0 THEN Append(@, ReceivePacket(seq, 0))
                              ELSE Append(@, LostPacket(seq)),
                      !.seq_no = (@ + 1) % 2^16],
                   Tail(delta_sizes))

Abs(x) == IF x < 0 THEN -x ELSE x

Sum(s) == LET RECURSIVE S(_) S(t) == IF t = <<>> THEN 0 ELSE Head(t) + S(Tail(t)) IN S(s)

(* TransportFeedback::Parse of message m into the object fb: the result,  *)
(* the object after it, and the overread ghost.                           *)
Parse(fb, m) ==
  LET hdr == [fb EXCEPT !.base_seq_no = m.base_seq,
                        !.base_time_ticks = m.base_time_ticks,
                        !.feedback_seq = m.fb_seq]
      cleared == Clear(hdr)
      chunks == ReadChunks(m, 16, <<>>, cleared.last_chunk)
      after_chunks == [cleared EXCEPT !.last_chunk = chunks.last_chunk]
      with_deltas == PayloadSize(m) >= chunks.index + Sum(chunks.delta_sizes)
      start == [ok |-> TRUE, index |-> chunks.index, seq_no |-> m.base_seq,
                include_lost |-> fb.include_lost, all |-> <<>>, received |-> <<>>]
      d == IF with_deltas THEN ReadDeltas(start, m, chunks.delta_sizes)
           ELSE NoDeltas(start, chunks.delta_sizes)
      overread == chunks.index > PayloadSize(m) \/ d.index > PayloadSize(m)
      parsed == [after_chunks EXCEPT
                   !.num_seq_no = m.status_count,
                   !.all_packets = d.all, !.received_packets = d.received,
                   !.include_timestamps = @ /\ with_deltas,
                   !.size_bytes = kHeaderSize + d.index]
  IN CASE PayloadSize(m) < kMinPayloadSizeBytes ->
            [ok |-> FALSE, fb |-> fb, overread |-> FALSE]
       [] m.status_count = 0 ->
            [ok |-> FALSE, fb |-> hdr, overread |-> FALSE]
       [] ~chunks.ok ->
            [ok |-> FALSE, fb |-> Clear(after_chunks), overread |-> overread]
       [] ~d.ok ->   \* num_seq_no_ is already set (line 133) when the deltas fail
            [ok |-> FALSE, fb |-> Clear([after_chunks EXCEPT !.num_seq_no = m.status_count]),
             overread |-> overread]
       [] OTHER ->
            [ok |-> TRUE, fb |-> parsed, overread |-> overread]

-----------------------------------------------------------------------------
(* GetBaseTime and GetBaseDelta: the reference time, and its change      *)
(* since prev_timestamp, taken across a wrap when that is shorter.  They    *)
(* are kept in base ticks of kBaseScaleFactor us (64 ms): every earlier     *)
(* timestamp the adapter passes in is a GetBaseTime, so the us arithmetic   *)
(* of GetBaseTimeUs and GetBaseDeltaUs is this one scaled.                  *)
GetBaseTime(fb) == fb.base_time_ticks

(* Mutant: only the forward wrap handled. *)
GetBaseDeltaForwardOnly(fb, prev_timestamp) ==
  LET delta == GetBaseTime(fb) - prev_timestamp
  IN IF Abs(delta - kTimeWrapPeriod) < Abs(delta) THEN delta - kTimeWrapPeriod ELSE delta

GetBaseDelta(fb, prev_timestamp) ==
  LET delta == GetBaseTime(fb) - prev_timestamp
  IN CASE Abs(delta - kTimeWrapPeriod) < Abs(delta) -> delta - kTimeWrapPeriod
       [] Abs(delta + kTimeWrapPeriod) < Abs(delta) -> delta + kTimeWrapPeriod
       [] OTHER -> delta
=============================================================================
