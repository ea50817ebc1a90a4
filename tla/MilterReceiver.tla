---------------------------- MODULE MilterReceiver ----------------------------
(***************************************************************************)
(* The milter frame Receiver (src/crates/smtp/src/inbound/milter/          *)
(* receiver.rs).  The milter client hands each packet it reads from the    *)
(* socket to Receiver::read_frame, and calls read_frame again on the same  *)
(* packet until it answers Incomplete; only then does it read the next     *)
(* packet.  The Receiver keeps, between calls, the position reached in the *)
(* current packet (packet_pos) and a State: Len while the 4-byte length    *)
(* prefix is being collected, Frame while the payload of an announced      *)
(* length is being collected.                                              *)
(*                                                                         *)
(* Bytes are numbers (the prefix is decoded by what u32::from_be_bytes     *)
(* does); the Byte set is small.  The calling loop is the environment:     *)
(* caller is its program counter, sent the bytes it has read from the      *)
(* socket and frames the frames read_frame has returned, both history.     *)
(***************************************************************************)
EXTENDS Naturals, Sequences

CONSTANTS
  Byte,          \* byte values that occur on the wire
  max_frame_len, \* Receiver::max_frame_len
  MaxPacket,     \* longest packet one socket read returns (model bound)
  MaxStream      \* bytes one connection carries at most (model bound)

ASSUME ByteAssumption == Byte \subseteq 0..255
ASSUME MaxFrameLenAssumption == max_frame_len \in Nat
ASSUME BoundsAssumption == MaxPacket \in Nat \ {0} /\ MaxStream \in Nat

VARIABLES
  state,      \* Receiver::state
  packet_pos, \* Receiver::packet_pos
  packet,     \* the slice passed to read_frame
  caller,     \* "call": read_frame is due on packet; "read": a new packet
              \* is due; "failed": TooLarge ended the connection
  sent,       \* every byte read from the socket
  frames      \* the frames read_frame returned

vars == <<state, packet_pos, packet, caller, sent, frames>>

\* std::mem::size_of::<u32>()
LenWidth == 4

\* u32::from_be_bytes
FromBeBytes(b) == ((b[1] * 256 + b[2]) * 256 + b[3]) * 256 + b[4]

\* u32::to_be_bytes, the prefix a frame of length n was announced by.
ToBeBytes(n) ==
  << (n \div 16777216) % 256, (n \div 65536) % 256, (n \div 256) % 256, n % 256 >>

\* Len { buf, bytes_read } keeps the bytes_read prefix bytes read so far as
\* buf; Frame { buf, frame_len } the payload bytes read so far.  frame_len
\* is 0 in a Len state.
LenState(b) == [kind |-> "Len", buf |-> b, frame_len |-> 0]
FrameState(b, n) == [kind |-> "Frame", buf |-> b, frame_len |-> n]

\* State::default()
DefaultState == LenState(<<>>)

Packets == UNION {[1..n -> Byte] : n \in 1..MaxPacket}

\* packet.get(lo..hi), whose callers have checked hi <= packet.len().
Slice(lo, hi) == SubSeq(packet, lo + 1, hi)

\* packet.get(self.packet_pos..)
Rest == Slice(packet_pos, Len(packet))

\* Bytes of the prefix still missing, and whether the packet holds them.
HeaderNeed == LenWidth - Len(state.buf)
HeaderComplete == packet_pos + HeaderNeed <= Len(packet)

\* The loop over bytes_read has filled buf: the prefix, where the payload
\* starts in the packet, and u32::from_be_bytes(*buf) as usize.
Header == state.buf \o Slice(packet_pos, packet_pos + HeaderNeed)
BodyPos == packet_pos + HeaderNeed
Length == FromBeBytes(Header)

\* Seeded fault: the operands of the subtraction swapped.
BytesPendingSwapped == Len(state.buf) - state.frame_len

\* *frame_len - buf.len()
BytesPending == state.frame_len - Len(state.buf)

Init ==
  /\ state = DefaultState
  /\ packet_pos = 0
  /\ packet = <<>>
  /\ caller = "call"
  /\ sent = <<>>
  /\ frames = <<>>

-----------------------------------------------------------------------------
(* read_frame, one disjunct per way out of it.                             *)

\* packet.is_empty(): Incomplete.
EmptyPacket ==
  /\ packet = <<>>
  /\ caller' = "read"
  /\ UNCHANGED <<state, packet_pos, packet, sent, frames>>

\* Seeded fault: packet_pos is not reset to 0 before the next packet.
LenIncompleteKeepPos ==
  /\ packet # <<>>
  /\ state.kind = "Len"
  /\ ~HeaderComplete
  /\ state' = LenState(state.buf \o Rest)
  /\ caller' = "read"
  /\ UNCHANGED <<packet_pos, packet, sent, frames>>

\* Len: the packet ends inside the prefix.  The bytes there are kept,
\* packet_pos is reset and the answer is Incomplete.
LenIncomplete ==
  /\ packet # <<>>
  /\ state.kind = "Len"
  /\ ~HeaderComplete
  /\ state' = LenState(state.buf \o Rest)
  /\ packet_pos' = 0
  /\ caller' = "read"
  /\ UNCHANGED <<packet, sent, frames>>

\* Seeded fault: the state is not reset to State::default() after a frame,
\* so bytes_read stays at 4 and the next call reuses the old prefix.
LenFrameNoReset ==
  /\ packet # <<>>
  /\ state.kind = "Len"
  /\ HeaderComplete
  /\ Length <= max_frame_len
  /\ BodyPos + Length <= Len(packet)
  /\ frames' = Append(frames, Slice(BodyPos, BodyPos + Length))
  /\ packet_pos' = BodyPos + Length
  /\ state' = LenState(Header)
  /\ UNCHANGED <<packet, caller, sent>>

\* Len: the prefix is complete, the length is within the limit and the
\* whole payload is in the packet: Frame, back to the default state.
LenFrame ==
  /\ packet # <<>>
  /\ state.kind = "Len"
  /\ HeaderComplete
  /\ Length <= max_frame_len
  /\ BodyPos + Length <= Len(packet)
  /\ frames' = Append(frames, Slice(BodyPos, BodyPos + Length))
  /\ packet_pos' = BodyPos + Length
  /\ state' = DefaultState
  /\ UNCHANGED <<packet, caller, sent>>

\* Len: the prefix is complete, the length is within the limit, the payload
\* runs past the packet: its start is kept in a Frame state, Incomplete.
LenPartial ==
  /\ packet # <<>>
  /\ state.kind = "Len"
  /\ HeaderComplete
  /\ Length <= max_frame_len
  /\ BodyPos + Length > Len(packet)
  /\ state' = FrameState(Slice(BodyPos, Len(packet)), Length)
  /\ packet_pos' = 0
  /\ caller' = "read"
  /\ UNCHANGED <<packet, sent, frames>>

\* Len: the length is above the limit: TooLarge.  The state keeps the full
\* prefix and packet_pos stays after it; the client drops the connection.
LenTooLarge ==
  /\ packet # <<>>
  /\ state.kind = "Len"
  /\ HeaderComplete
  /\ Length > max_frame_len
  /\ state' = LenState(Header)
  /\ packet_pos' = BodyPos
  /\ caller' = "failed"
  /\ UNCHANGED <<packet, sent, frames>>

\* Frame: the rest of the payload is in the packet: Frame, default state.
FrameComplete ==
  /\ packet # <<>>
  /\ state.kind = "Frame"
  /\ packet_pos + BytesPending <= Len(packet)
  /\ frames' = Append(frames,
                      state.buf \o Slice(packet_pos, packet_pos + BytesPending))
  /\ packet_pos' = packet_pos + BytesPending
  /\ state' = DefaultState
  /\ UNCHANGED <<packet, caller, sent>>

\* Frame: the payload runs past the packet: what there is (nothing when
\* packet.get(packet_pos..) is None) joins buf, Incomplete.
FramePartial ==
  /\ packet # <<>>
  /\ state.kind = "Frame"
  /\ packet_pos + BytesPending > Len(packet)
  /\ state' = FrameState(state.buf \o Rest, state.frame_len)
  /\ packet_pos' = 0
  /\ caller' = "read"
  /\ UNCHANGED <<packet, sent, frames>>

read_frame ==
  /\ caller = "call"
  /\ \/ EmptyPacket
     \/ LenIncomplete \/ LenFrame \/ LenPartial \/ LenTooLarge
     \/ FrameComplete \/ FramePartial

-----------------------------------------------------------------------------
(* The environment: after Incomplete the client reads the next packet.     *)

ReadPacket ==
  /\ caller = "read"
  /\ \E p \in Packets :
       /\ Len(sent) + Len(p) <= MaxStream
       /\ packet' = p
       /\ sent' = sent \o p
  /\ caller' = "call"
  /\ UNCHANGED <<state, packet_pos, frames>>

Next == read_frame \/ ReadPacket

\* The client calls read_frame again as long as it expects responses.
Spec == Init /\ [][Next]_vars /\ WF_vars(read_frame)

-----------------------------------------------------------------------------
TypeOK ==
  /\ state \in [kind : {"Len", "Frame"}, buf : Seq(Byte), frame_len : Nat]
  /\ packet_pos \in Nat
  /\ packet \in Seq(Byte)
  /\ caller \in {"call", "read", "failed"}
  /\ sent \in Seq(Byte)
  /\ frames \in Seq(Seq(Byte))

\* Indexing and memory stay in bounds: packet_pos never passes the end of
\* the packet it indexes, the Frame buffer (Vec::with_capacity(length))
\* holds fewer bytes than the announced length, which is within
\* max_frame_len, so `*frame_len - buf.len()` cannot underflow; and a Len
\* state holds less than a full prefix unless TooLarge ended the stream.
BufferBound ==
  /\ packet_pos <= Len(packet)
  /\ state.kind = "Frame" =>
       /\ Len(state.buf) < state.frame_len
       /\ state.frame_len <= max_frame_len
  /\ state.kind = "Len" /\ caller # "failed" => Len(state.buf) < LenWidth

\* The bytes received and not yet returned in a frame: those held in the
\* state (for a Frame state, behind the prefix that announced it) and
\* those of the packet after packet_pos that a further call will read.
Pending ==
  IF state.kind = "Len" THEN state.buf
  ELSE ToBeBytes(state.frame_len) \o state.buf
Unread == IF caller = "read" THEN <<>> ELSE Rest

\* The Receiver implements the byte-stream contract of FrameStream.
Abs == INSTANCE FrameStream
         WITH rcvd <- sent, in <- Pending \o Unread, out <- frames,
              failed <- (caller = "failed")

\* read_frame returns every frame of the byte stream exactly once, in order,
\* with its own bytes, however the stream was cut into packets, as soon as
\* it is complete, and TooLarge exactly when the next prefix is too large.
Refinement == Abs!Spec
==============================================================================
