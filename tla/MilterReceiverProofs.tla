------------------------- MODULE MilterReceiverProofs -------------------------
(***************************************************************************)
(* Proofs about the milter frame Receiver, for every byte set, frame limit *)
(* and bound: read_frame keeps its state well typed, and never indexes     *)
(* past the packet, buffers more than the announced length, or lets        *)
(* `*frame_len - buf.len()` underflow.                                     *)
(***************************************************************************)
EXTENDS MilterReceiver, SequenceTheorems, TLAPS

\* The inductive strengthening of TypeOK /\ BufferBound.  After Incomplete
\* packet_pos is 0, which is what makes it in range for the next packet,
\* and a Len state never holds more than a whole prefix (exactly one after
\* TooLarge), which keeps the prefix arithmetic of HeaderNeed in Nat.
IInv ==
  /\ TypeOK
  /\ BufferBound
  /\ caller = "read" => packet_pos = 0
  /\ state.kind = "Len" => Len(state.buf) <= LenWidth

-----------------------------------------------------------------------------
(* Lemmas on the slices and the prefix decoding read_frame relies on.      *)

\* Every byte value is a natural number.
LEMMA ByteNat == \A x \in Byte : x \in Nat
  BY ByteAssumption

\* The four bytes of a prefix are natural numbers.
LEMMA PrefixBytesNat ==
  ASSUME NEW hdr \in Seq(Byte), Len(hdr) = LenWidth
  PROVE  hdr[1] \in Nat /\ hdr[2] \in Nat /\ hdr[3] \in Nat /\ hdr[4] \in Nat
<1>1. \A i \in 1 .. 4 : hdr[i] \in Byte
  BY ElementOfSeq DEF LenWidth
<1>. QED
  BY <1>1, ByteNat

\* u32::from_be_bytes of four natural numbers is a natural number.
LEMMA FromBeBytesNat ==
  ASSUME NEW hdr, hdr[1] \in Nat, hdr[2] \in Nat, hdr[3] \in Nat, hdr[4] \in Nat
  PROVE  FromBeBytes(hdr) \in Nat
  BY DEF FromBeBytes

-----------------------------------------------------------------------------
(* The invariant.                                                          *)

LEMMA InitIInv == Init => IInv
  BY DEF Init, IInv, TypeOK, BufferBound, DefaultState, LenState, LenWidth

\* Joining two byte sequences.
LEMMA ConcatBytes ==
  \A s, t \in Seq(Byte) : s \o t \in Seq(Byte) /\ Len(s \o t) = Len(s) + Len(t)
  OBVIOUS

\* What packet.get(packet_pos..) yields, in a state of the invariant.
LEMMA RestFacts ==
  ASSUME IInv
  PROVE  /\ Rest \in Seq(Byte)
         /\ Len(Rest) = Len(packet) - packet_pos
  BY DEF IInv, TypeOK, BufferBound, Rest, Slice

\* When the packet completes the prefix, the prefix is four bytes, the
\* payload starts within the packet and the announced length is a number.
LEMMA HeaderFacts ==
  ASSUME IInv, state.kind = "Len", HeaderComplete
  PROVE  /\ Header \in Seq(Byte)
         /\ Len(Header) = LenWidth
         /\ BodyPos \in Nat
         /\ BodyPos <= Len(packet)
         /\ Length \in Nat
<1>1. /\ state.buf \in Seq(Byte)
      /\ packet \in Seq(Byte)
      /\ packet_pos \in Nat
      /\ Len(state.buf) <= LenWidth
  BY DEF IInv, TypeOK
<1>2. /\ HeaderNeed \in Nat
      /\ Len(state.buf) + HeaderNeed = LenWidth
      /\ packet_pos + HeaderNeed <= Len(packet)
  BY <1>1 DEF HeaderNeed, HeaderComplete, LenWidth
<1>3. /\ Slice(packet_pos, packet_pos + HeaderNeed) \in Seq(Byte)
      /\ Len(Slice(packet_pos, packet_pos + HeaderNeed)) = HeaderNeed
  BY <1>1, <1>2 DEF Slice
<1>4. /\ Header \in Seq(Byte)
      /\ Len(Header) = Len(state.buf) + HeaderNeed
  <2>1. /\ state.buf \o Slice(packet_pos, packet_pos + HeaderNeed) \in Seq(Byte)
        /\ Len(state.buf \o Slice(packet_pos, packet_pos + HeaderNeed))
             = Len(state.buf) + Len(Slice(packet_pos, packet_pos + HeaderNeed))
    BY <1>1, <1>3, ConcatBytes, Zenon
  <2>. QED
    BY <2>1, <1>3 DEF Header
<1>4a. Len(Header) = LenWidth
  BY <1>2, <1>4
<1>5. Length \in Nat
  BY <1>4, <1>4a, PrefixBytesNat, FromBeBytesNat DEF Length
<1>. QED
  BY <1>1, <1>2, <1>4, <1>4a, <1>5 DEF BodyPos

LEMMA NextIInv == IInv /\ [Next]_vars => IInv'
<1> SUFFICES ASSUME IInv, [Next]_vars PROVE IInv'
  OBVIOUS
<1>1. /\ Rest \in Seq(Byte)
      /\ Len(Rest) = Len(packet) - packet_pos
  BY RestFacts
<1>2. state.kind = "Len" /\ HeaderComplete =>
        /\ Header \in Seq(Byte)
        /\ Len(Header) = LenWidth
        /\ BodyPos \in Nat
        /\ BodyPos <= Len(packet)
        /\ Length \in Nat
  BY HeaderFacts
<1>3. CASE caller = "call" /\ EmptyPacket
  <2>1. packet_pos = 0
    BY <1>3 DEF EmptyPacket, IInv, TypeOK, BufferBound
  <2>2. TypeOK'
    BY <1>3 DEF EmptyPacket, IInv, TypeOK
  <2>3. BufferBound'
    BY <1>3, <2>1 DEF EmptyPacket, IInv, TypeOK, BufferBound
  <2>4. (caller = "read" => packet_pos = 0)'
    BY <1>3, <2>1 DEF EmptyPacket
  <2>5. (state.kind = "Len" => Len(state.buf) <= LenWidth)'
    BY <1>3 DEF EmptyPacket, IInv
  <2>. QED
    BY <2>2, <2>3, <2>4, <2>5 DEF IInv
<1>4. CASE caller = "call" /\ LenIncomplete
  BY <1>1, <1>4 DEF LenIncomplete, IInv, TypeOK, BufferBound, LenState,
                    HeaderComplete, HeaderNeed, LenWidth
<1>5. CASE caller = "call" /\ LenFrame
  <2>1. /\ Header \in Seq(Byte) /\ BodyPos \in Nat /\ Length \in Nat
        /\ BodyPos + Length <= Len(packet)
    BY <1>2, <1>5 DEF LenFrame
  <2>2. Slice(BodyPos, BodyPos + Length) \in Seq(Byte)
    BY <2>1 DEF IInv, TypeOK, Slice
  <2>3. frames' \in Seq(Seq(Byte))
    BY <1>5, <2>2 DEF LenFrame, IInv, TypeOK
  <2>4. packet_pos' \in Nat /\ packet_pos' <= Len(packet')
    BY <1>5, <2>1 DEF LenFrame
  <2>5. TypeOK'
    BY <1>5, <2>3, <2>4 DEF LenFrame, IInv, TypeOK, DefaultState, LenState
  <2>6. BufferBound'
    BY <1>5, <2>4 DEF LenFrame, BufferBound, DefaultState, LenState, LenWidth
  <2>7. (caller = "read" => packet_pos = 0)'
    BY <1>5 DEF LenFrame, read_frame
  <2>8. (state.kind = "Len" => Len(state.buf) <= LenWidth)'
    BY <1>5 DEF LenFrame, DefaultState, LenState, LenWidth
  <2>. QED
    BY <2>5, <2>6, <2>7, <2>8 DEF IInv
<1>6. CASE caller = "call" /\ LenPartial
  <2>1. /\ BodyPos \in Nat /\ Length \in Nat /\ BodyPos <= Len(packet)
        /\ Length <= max_frame_len /\ BodyPos + Length > Len(packet)
    BY <1>2, <1>6 DEF LenPartial
  <2>2. /\ Slice(BodyPos, Len(packet)) \in Seq(Byte)
        /\ Len(Slice(BodyPos, Len(packet))) < Length
    BY <2>1 DEF IInv, TypeOK, Slice
  <2>. QED
    BY <1>6, <2>1, <2>2 DEF LenPartial, IInv, TypeOK, BufferBound, FrameState
<1>7. CASE caller = "call" /\ LenTooLarge
  BY <1>2, <1>7 DEF LenTooLarge, IInv, TypeOK, BufferBound, LenState
<1>8. CASE caller = "call" /\ FrameComplete
  <2>1. /\ state.buf \in Seq(Byte) /\ packet_pos \in Nat
        /\ BytesPending \in Nat
        /\ packet_pos + BytesPending <= Len(packet)
    BY <1>8 DEF FrameComplete, IInv, TypeOK, BufferBound, BytesPending
  <2>2. Slice(packet_pos, packet_pos + BytesPending) \in Seq(Byte)
    BY <2>1 DEF IInv, TypeOK, Slice
  <2>3. state.buf \o Slice(packet_pos, packet_pos + BytesPending) \in Seq(Byte)
    BY <2>1, <2>2, ConcatBytes, Zenon
  <2>4. frames' \in Seq(Seq(Byte))
    BY <1>8, <2>3 DEF FrameComplete, IInv, TypeOK
  <2>5. packet_pos' \in Nat /\ packet_pos' <= Len(packet')
    BY <1>8, <2>1 DEF FrameComplete
  <2>6. TypeOK'
    BY <1>8, <2>4, <2>5 DEF FrameComplete, IInv, TypeOK, DefaultState, LenState
  <2>7. BufferBound'
    BY <1>8, <2>5 DEF FrameComplete, BufferBound, DefaultState, LenState,
                      LenWidth
  <2>8. (caller = "read" => packet_pos = 0)'
    BY <1>8 DEF FrameComplete
  <2>9. (state.kind = "Len" => Len(state.buf) <= LenWidth)'
    BY <1>8 DEF FrameComplete, DefaultState, LenState, LenWidth
  <2>. QED
    BY <2>6, <2>7, <2>8, <2>9 DEF IInv
<1>9. CASE caller = "call" /\ FramePartial
  BY <1>1, <1>9 DEF FramePartial, IInv, TypeOK, BufferBound, FrameState,
                    BytesPending
<1>10. CASE ReadPacket
  BY <1>10, BoundsAssumption DEF ReadPacket, IInv, TypeOK, BufferBound, Packets
<1>11. CASE UNCHANGED vars
  BY <1>11 DEF vars, IInv, TypeOK, BufferBound
<1>. QED
  BY <1>3, <1>4, <1>5, <1>6, <1>7, <1>8, <1>9, <1>10, <1>11
     DEF Next, read_frame

\* read_frame and the client loop keep the Receiver state well typed.
THEOREM TypeCorrect == Spec => []TypeOK
<1>1. IInv => TypeOK
  BY DEF IInv
<1>. QED
  BY <1>1, InitIInv, NextIInv, PTL DEF Spec

\* read_frame never indexes past the packet, never buffers more than the
\* announced length (at most max_frame_len), and `*frame_len - buf.len()`
\* never underflows, for every byte set, limit and packet split.
THEOREM BufferBounded == Spec => []BufferBound
<1>1. IInv => BufferBound
  BY DEF IInv
<1>. QED
  BY <1>1, InitIInv, NextIInv, PTL DEF Spec
==============================================================================
