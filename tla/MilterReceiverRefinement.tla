----------------------- MODULE MilterReceiverRefinement -----------------------
(***************************************************************************)
(* The milter frame Receiver implements the byte-stream contract of       *)
(* FrameStream under the mapping Abs of MilterReceiver: the initial state *)
(* maps to the initial state, ReadPacket to Receive, LenFrame and         *)
(* FrameComplete to Deliver, LenTooLarge to Reject, and every other way   *)
(* out of read_frame to a stutter of the stream.  This is the safety part *)
(* of Refinement; its fairness is checked by TLC only.                    *)
(*                                                                         *)
(* The mapped unread stream is Pending \o Unread.  A Frame state stands   *)
(* for its prefix through ToBeBytes(frame_len), so the proof needs that   *)
(* u32::to_be_bytes undoes u32::from_be_bytes on four bytes               *)
(* (PrefixRoundTrip), and the inductive invariant RInv adds to IInv that  *)
(* a Frame state's length came from four bytes.                            *)
(***************************************************************************)
EXTENDS MilterReceiverProofs

\* The unread bytes of the stream, as Abs maps them.
Stream == Pending \o Unread

\* IInv, and the length of a Frame state is what some four-byte prefix
\* announced.
RInv ==
  /\ IInv
  /\ state.kind = "Frame" =>
       \E h \in [1 .. LenWidth -> Byte] : state.frame_len = FromBeBytes(h)

-----------------------------------------------------------------------------
(* u32::from_be_bytes and u32::to_be_bytes are inverse.                    *)

\* A byte value is below 256.
LEMMA ByteBound ==
  ASSUME NEW x \in Byte
  PROVE  x \in Nat /\ x < 256
  BY ByteAssumption

\* The four digits u32::to_be_bytes yields, as named operators so that a
\* proof can replace each by what it equals.
Digit1(n) == (n \div 16777216) % 256
Digit2(n) == (n \div 65536) % 256
Digit3(n) == (n \div 256) % 256
Digit4(n) == n % 256

LEMMA ToBeBytesDigits ==
  ASSUME NEW n
  PROVE  ToBeBytes(n) = << Digit1(n), Digit2(n), Digit3(n), Digit4(n) >>
  BY SMT DEF ToBeBytes, Digit1, Digit2, Digit3, Digit4

\* Four bytes decode to a u32 that encodes back to the same bytes.
LEMMA PrefixRoundTrip ==
  ASSUME NEW b \in Seq(Byte), Len(b) = LenWidth
  PROVE  /\ FromBeBytes(b) \in Nat /\ FromBeBytes(b) < 4294967296
         /\ ToBeBytes(FromBeBytes(b)) = b
<1>1. \A i \in 1 .. 4 : b[i] \in Byte
  BY ElementOfSeq DEF LenWidth
<1>2. PICK b1, b2, b3, b4 \in Nat :
        /\ b1 = b[1] /\ b2 = b[2] /\ b3 = b[3] /\ b4 = b[4]
        /\ b1 < 256 /\ b2 < 256 /\ b3 < 256 /\ b4 < 256
  BY <1>1, ByteBound
<1>3. FromBeBytes(b) = ((b1 * 256 + b2) * 256 + b3) * 256 + b4
  BY <1>2, SMT DEF FromBeBytes
<1>3a. /\ b1 \in Nat /\ b2 \in Nat /\ b3 \in Nat /\ b4 \in Nat
       /\ b1 < 256 /\ b2 < 256 /\ b3 < 256 /\ b4 < 256
  BY <1>2
<1>4. FromBeBytes(b) \in Nat /\ FromBeBytes(b) < 4294967296
  BY <1>3a, <1>3, SMT
<1>5. Digit1(FromBeBytes(b)) = b1
  BY <1>3a, <1>3, SMT DEF Digit1
<1>6. Digit2(FromBeBytes(b)) = b2
  BY <1>3a, <1>3, SMT DEF Digit2
<1>7. Digit3(FromBeBytes(b)) = b3
  BY <1>3a, <1>3, SMT DEF Digit3
<1>8. Digit4(FromBeBytes(b)) = b4
  BY <1>3a, <1>3, SMT DEF Digit4
<1>9. b = << b1, b2, b3, b4 >>
  BY <1>2 DEF LenWidth
<1>. QED
  BY <1>4, <1>5, <1>6, <1>7, <1>8, <1>9, ToBeBytesDigits, SMT

-----------------------------------------------------------------------------
(* Slices of concatenations, as read_frame's arithmetic on packet_pos and *)
(* the abstract stream's arithmetic on Len(in) use them.                   *)

\* Two adjacent slices of a sequence join into one.
LEMMA SliceJoin ==
  ASSUME NEW s \in Seq(Byte), NEW a \in Nat, NEW k \in Nat, NEW b \in Nat,
         a <= k, k <= b, b <= Len(s)
  PROVE  SubSeq(s, a + 1, k) \o SubSeq(s, k + 1, b) = SubSeq(s, a + 1, b)
  BY ConcatAdjacentSubSeq

\* A slice of x \o y past x is a slice of y.
LEMMA SliceAfter ==
  ASSUME NEW x \in Seq(Byte), NEW y \in Seq(Byte), NEW m \in Int, NEW n \in Int,
         Len(x) < m, n <= Len(x) + Len(y)
  PROVE  SubSeq(x \o y, m, n) = SubSeq(y, m - Len(x), n - Len(x))
<1>1. /\ SubSeq(x \o y, m, n) \in Seq(Byte)
      /\ SubSeq(y, m - Len(x), n - Len(x)) \in Seq(Byte)
  BY SubSeqProperties, ConcatProperties
<1>. QED
  BY <1>1, SeqEqual, ConcatProperties, SubSeqProperties

\* The first n elements of x \o y, n at least Len(x), are x and the first
\* n - Len(x) of y.
LEMMA PrefixThrough ==
  ASSUME NEW x \in Seq(Byte), NEW y \in Seq(Byte), NEW n \in Int,
         Len(x) <= n, n <= Len(x) + Len(y)
  PROVE  SubSeq(x \o y, 1, n) = x \o SubSeq(y, 1, n - Len(x))
<1>1. /\ SubSeq(x \o y, 1, n) \in Seq(Byte)
      /\ x \o SubSeq(y, 1, n - Len(x)) \in Seq(Byte)
  BY SubSeqProperties, ConcatProperties
<1>. QED
  BY <1>1, SeqEqual, ConcatProperties, SubSeqProperties

\* A slice of a slice is a slice.
LEMMA SliceOfSlice ==
  ASSUME NEW s \in Seq(Byte), NEW i \in Int, NEW j \in Int,
         NEW m \in Int, NEW n \in Int,
         1 <= i, j <= Len(s), 1 <= m, m <= n + 1, n <= j - i + 1
  PROVE  SubSeq(SubSeq(s, i, j), m, n) = SubSeq(s, i + m - 1, i + n - 1)
<1>1. /\ SubSeq(s, i, j) \in Seq(Byte)
      /\ Len(SubSeq(s, i, j)) = j - i + 1
      /\ \A k \in 1 .. j - i + 1 : SubSeq(s, i, j)[k] = s[i + k - 1]
  BY SubSeqProperties
<1>2. /\ SubSeq(SubSeq(s, i, j), m, n) \in Seq(Byte)
      /\ Len(SubSeq(SubSeq(s, i, j), m, n)) = IF m <= n THEN n - m + 1 ELSE 0
      /\ \A k \in 1 .. n - m + 1 :
            SubSeq(SubSeq(s, i, j), m, n)[k] = SubSeq(s, i, j)[m + k - 1]
  BY <1>1, SubSeqProperties
<1>3. /\ SubSeq(s, i + m - 1, i + n - 1) \in Seq(Byte)
      /\ Len(SubSeq(s, i + m - 1, i + n - 1)) = IF m <= n THEN n - m + 1 ELSE 0
      /\ \A k \in 1 .. n - m + 1 :
            SubSeq(s, i + m - 1, i + n - 1)[k] = s[i + m - 1 + k - 1]
  BY SubSeqProperties
<1>4. \A k \in 1 .. Len(SubSeq(SubSeq(s, i, j), m, n)) :
        SubSeq(SubSeq(s, i, j), m, n)[k] = SubSeq(s, i + m - 1, i + n - 1)[k]
  BY <1>1, <1>2, <1>3
<1>. QED
  BY <1>2, <1>3, <1>4, SeqEqual

-----------------------------------------------------------------------------
(* The invariant.                                                          *)

\* A sequence of four bytes is a function on 1..4.
LEMMA PrefixIsFunction ==
  ASSUME NEW b \in Seq(Byte), Len(b) = LenWidth
  PROVE  b \in [1 .. LenWidth -> Byte]
  BY LenProperties

\* A Frame state stands for the four bytes that announced it.
LEMMA FramePrefix ==
  ASSUME RInv, state.kind = "Frame"
  PROVE  /\ ToBeBytes(state.frame_len) \in Seq(Byte)
         /\ Len(ToBeBytes(state.frame_len)) = LenWidth
         /\ FromBeBytes(ToBeBytes(state.frame_len)) = state.frame_len
<1>1. PICK h \in [1 .. LenWidth -> Byte] : state.frame_len = FromBeBytes(h)
  BY DEF RInv
<1>2. h \in Seq(Byte) /\ Len(h) = LenWidth
  <2>1. h \in Seq(Byte)
    BY SeqDef DEF LenWidth
  <2>2. DOMAIN h = 1 .. Len(h) /\ Len(h) \in Nat
    BY <2>1, LenProperties
  <2>. QED
    BY <2>1, <2>2 DEF LenWidth
<1>3. ToBeBytes(state.frame_len) = h
  BY <1>1, <1>2, PrefixRoundTrip, SMTT(30)
<1>. QED
  BY <1>1, <1>2, <1>3

LEMMA InitRInv == Init => RInv
  BY InitIInv DEF Init, RInv, DefaultState, LenState

LEMMA NextRInv == RInv /\ [Next]_vars => RInv'
<1> SUFFICES ASSUME RInv, [Next]_vars PROVE RInv'
  OBVIOUS
<1>1. IInv'
  BY NextIInv DEF RInv
<1>2. CASE caller = "call" /\ LenPartial
  <2>1. /\ Header \in Seq(Byte) /\ Len(Header) = LenWidth
    BY <1>2, HeaderFacts DEF LenPartial, RInv
  <2>2. Header \in [1 .. LenWidth -> Byte]
    BY <2>1, PrefixIsFunction
  <2>3. state'.kind = "Frame" /\ state'.frame_len = FromBeBytes(Header)
    BY <1>2 DEF LenPartial, FrameState, Length
  <2>. QED
    BY <1>1, <2>2, <2>3 DEF RInv
<1>3. CASE caller = "call" /\ FramePartial
  BY <1>1, <1>3 DEF FramePartial, FrameState, RInv
<1>4. CASE caller = "call" /\ (EmptyPacket \/ LenIncomplete \/ LenFrame
                                \/ LenTooLarge \/ FrameComplete)
  <2>1. CASE EmptyPacket
    BY <1>1, <2>1 DEF EmptyPacket, RInv
  <2>2. CASE LenIncomplete \/ LenFrame \/ LenTooLarge \/ FrameComplete
    <3>1. state'.kind = "Len"
      <4>1. CASE LenIncomplete
        BY <4>1 DEF LenIncomplete, LenState
      <4>2. CASE LenFrame
        BY <4>2 DEF LenFrame, DefaultState, LenState
      <4>3. CASE LenTooLarge
        BY <4>3 DEF LenTooLarge, LenState
      <4>4. CASE FrameComplete
        BY <4>4 DEF FrameComplete, DefaultState, LenState
      <4>. QED
        BY <2>2, <4>1, <4>2, <4>3, <4>4
    <3>. QED
      BY <1>1, <3>1 DEF RInv
  <2>. QED
    BY <1>4, <2>1, <2>2
<1>5. CASE ReadPacket \/ UNCHANGED vars
  BY <1>1, <1>5 DEF ReadPacket, vars, RInv
<1>. QED
  BY <1>2, <1>3, <1>4, <1>5 DEF Next, read_frame

-----------------------------------------------------------------------------
(* Each step of the Receiver is a step of the stream or leaves it alone.   *)

\* Four bytes are the first four of any sequence they start.
LEMMA PrefixOf ==
  ASSUME NEW x \in Seq(Byte), NEW y \in Seq(Byte), Len(x) = LenWidth
  PROVE  SubSeq(x \o y, 1, LenWidth) = x
<1>1. PICK n \in Int : n = LenWidth
  BY DEF LenWidth
<1>2. SubSeq(x \o y, 1, n) = x \o SubSeq(y, 1, n - Len(x))
  <2>1. Len(x) <= n /\ n <= Len(x) + Len(y)
    BY <1>1
  <2>. QED
    BY <2>1, PrefixThrough, ZenonT(60)
<1>3. x \o SubSeq(y, 1, n - Len(x)) = x
  <2>1. SubSeq(y, 1, n - Len(x)) = << >>
    BY <1>1
  <2>. QED
    BY <2>1, ConcatEmptySeq
<1>. QED
  BY <1>1, <1>2, <1>3, Zenon

\* While read_frame is due, the stream is what the state holds followed by
\* the rest of the packet.
LEMMA CallStream ==
  ASSUME RInv, caller = "call"
  PROVE  /\ Pending \in Seq(Byte)
         /\ packet \in Seq(Byte) /\ packet_pos \in Nat
         /\ packet_pos <= Len(packet)
         /\ Rest \in Seq(Byte) /\ Len(Rest) = Len(packet) - packet_pos
         /\ Stream = Pending \o Rest
<1>1. /\ packet \in Seq(Byte) /\ packet_pos \in Nat
      /\ packet_pos <= Len(packet) /\ state.buf \in Seq(Byte)
  BY DEF RInv, IInv, TypeOK, BufferBound
<1>2. Rest \in Seq(Byte) /\ Len(Rest) = Len(packet) - packet_pos
  BY RestFacts DEF RInv
<1>3. Pending \in Seq(Byte)
  <2>1. CASE state.kind = "Frame"
    BY <1>1, <2>1, FramePrefix, ConcatProperties DEF Pending
  <2>2. CASE state.kind = "Len"
    BY <1>1, <2>2 DEF Pending
  <2>. QED
    BY <2>1, <2>2 DEF RInv, IInv, TypeOK
<1>. QED
  BY <1>1, <1>2, <1>3 DEF Stream, Unread

\* In a Len state whose prefix the packet completes, the stream is the
\* prefix followed by the packet from the payload on.
LEMMA LenStream ==
  ASSUME RInv, caller = "call", state.kind = "Len", HeaderComplete
  PROVE  /\ Header \in Seq(Byte) /\ Len(Header) = LenWidth
         /\ BodyPos \in Nat /\ BodyPos <= Len(packet) /\ Length \in Nat
         /\ Slice(BodyPos, Len(packet)) \in Seq(Byte)
         /\ Len(Slice(BodyPos, Len(packet))) = Len(packet) - BodyPos
         /\ Stream = Header \o Slice(BodyPos, Len(packet))
<1>1. /\ Header \in Seq(Byte) /\ Len(Header) = LenWidth
      /\ BodyPos \in Nat /\ BodyPos <= Len(packet) /\ Length \in Nat
  BY HeaderFacts DEF RInv
<1>2. /\ Pending \in Seq(Byte)
      /\ packet \in Seq(Byte) /\ packet_pos \in Nat
      /\ packet_pos <= Len(packet)
      /\ Stream = Pending \o Rest
  BY CallStream
<1>3. Pending = state.buf
  BY DEF Pending
<1>4. packet_pos <= BodyPos
  BY <1>2, <1>3 DEF BodyPos, HeaderNeed, RInv, IInv, LenWidth
<1> DEFINE A == Slice(packet_pos, BodyPos)
           T == Slice(BodyPos, Len(packet))
<1>5. A \in Seq(Byte) /\ T \in Seq(Byte)
      /\ Len(T) = Len(packet) - BodyPos
  BY <1>1, <1>2, <1>4 DEF Slice
<1>6. Header = state.buf \o A
  BY DEF Header, BodyPos
<1>7. A \o T = Rest
  <2>1. SubSeq(packet, packet_pos + 1, BodyPos)
          \o SubSeq(packet, BodyPos + 1, Len(packet))
        = SubSeq(packet, packet_pos + 1, Len(packet))
    <3>1. PICK a \in Nat, k \in Nat, b \in Nat :
            a = packet_pos /\ k = BodyPos /\ b = Len(packet)
      <4>1. Len(packet) \in Nat
        BY <1>2, LenProperties
      <4>. QED
        BY <1>1, <1>2, <4>1, Zenon
    <3>2. a <= k /\ k <= b /\ b <= Len(packet)
      BY <1>1, <1>4, <3>1
    <3>3. SubSeq(packet, a + 1, k) \o SubSeq(packet, k + 1, b) = SubSeq(packet, a + 1, b)
      BY <1>2, <3>2, SliceJoin, SMTT(30)
    <3>. QED
      BY <3>1, <3>3, Zenon
  <2>. QED
    BY <2>1 DEF Slice, Rest
<1>8. (state.buf \o A) \o T = state.buf \o (A \o T)
  <2>1. state.buf \in Seq(Byte)
    BY <1>2, <1>3
  <2>2. \A u, v, w \in Seq(Byte) : (u \o v) \o w = u \o (v \o w)
    BY ConcatAssociative
  <2>. QED
    BY <2>1, <1>5, <2>2
<1>9. Stream = Header \o T
  BY <1>2, <1>3, <1>6, <1>7, <1>8
<1>. QED
  BY <1>1, <1>5, <1>9

\* The abstract length of the frame at the head of the stream, when the
\* stream starts with the four bytes x.
LEMMA HeadLengthOf ==
  ASSUME NEW x \in Seq(Byte), NEW y \in Seq(Byte), Len(x) = LenWidth,
         Stream = x \o y
  PROVE  /\ Abs!HeadLength = FromBeBytes(x)
         /\ Len(Stream) = LenWidth + Len(y)
<1>1. SubSeq(Stream, 1, LenWidth) = x
  BY PrefixOf
<1>2. Abs!HeadLength = FromBeBytes(SubSeq(Stream, 1, LenWidth))
  BY DEF Abs!HeadLength, Abs!FromBeBytes, FromBeBytes, Abs!LenWidth,
         LenWidth, Stream
<1>3. Len(Stream) = LenWidth + Len(y)
  BY ConcatProperties
<1>. QED
  BY <1>1, <1>2, <1>3, Zenon

\* A stream of four prefix bytes h and then p from position b on: the
\* frame of length L at its head is p from b on, and what follows it is
\* the rest of p.
LEMMA HeadFrame ==
  ASSUME NEW h \in Seq(Byte), NEW p \in Seq(Byte), NEW b \in Nat, NEW L \in Nat,
         Len(h) = LenWidth, b + L <= Len(p)
  PROVE  /\ Len(h \o SubSeq(p, b + 1, Len(p))) = LenWidth + (Len(p) - b)
         /\ SubSeq(h \o SubSeq(p, b + 1, Len(p)), LenWidth + 1, LenWidth + L)
              = SubSeq(p, b + 1, b + L)
         /\ SubSeq(h \o SubSeq(p, b + 1, Len(p)), LenWidth + L + 1,
                   Len(h \o SubSeq(p, b + 1, Len(p))))
              = SubSeq(p, b + L + 1, Len(p))
<1> DEFINE t == SubSeq(p, b + 1, Len(p))
<1>1. t \in Seq(Byte) /\ Len(t) = Len(p) - b
  BY SubSeqProperties
<1>2. Len(h \o t) = LenWidth + (Len(p) - b)
  BY <1>1
<1>3. SubSeq(h \o t, LenWidth + 1, LenWidth + L) = SubSeq(p, b + 1, b + L)
  <2>1. PICK m \in Int, n \in Int : m = LenWidth + 1 /\ n = LenWidth + L
    BY DEF LenWidth
  <2>2. SubSeq(h \o t, m, n) = SubSeq(t, m - Len(h), n - Len(h))
    <3>1. Len(h) < m /\ n <= Len(h) + Len(t)
      BY <1>1, <2>1
    <3>. QED
      BY <1>1, <3>1, SliceAfter, ZenonT(60)
  <2>3. PICK i \in Int, j \in Int, k \in Int, l \in Int :
          i = b + 1 /\ j = Len(p) /\ k = 1 /\ l = L
    <3>1. b + 1 \in Int /\ Len(p) \in Int /\ 1 \in Int /\ L \in Int
      BY LenProperties
    <3>. QED
      BY <3>1, Zenon
  <2>4. SubSeq(SubSeq(p, i, j), k, l) = SubSeq(p, i + k - 1, i + l - 1)
    <3>1. 1 <= i /\ j <= Len(p) /\ 1 <= k /\ k <= l + 1 /\ l <= j - i + 1
      BY <2>3
    <3>. QED
      BY <3>1, SliceOfSlice, SMTT(30)
  <2>5. /\ m - Len(h) = k /\ n - Len(h) = l
        /\ i + k - 1 = b + 1 /\ i + l - 1 = b + L
    BY <2>1, <2>3
  <2>. QED
    BY <2>1, <2>2, <2>3, <2>4, <2>5, Zenon
<1>4. SubSeq(h \o t, LenWidth + L + 1, Len(h \o t)) = SubSeq(p, b + L + 1, Len(p))
  <2>0. LenWidth + L + 1 \in Int /\ Len(h \o t) \in Int
    BY <1>2 DEF LenWidth
  <2>1. PICK m \in Int, n \in Int : m = LenWidth + L + 1 /\ n = Len(h \o t)
    BY <2>0, Zenon
  <2>2. SubSeq(h \o t, m, n) = SubSeq(t, m - Len(h), n - Len(h))
    <3>1. Len(h) < m /\ n <= Len(h) + Len(t)
      BY <1>1, <1>2, <2>1
    <3>. QED
      BY <1>1, <3>1, SliceAfter, ZenonT(60)
  <2>3. PICK i \in Int, j \in Int, k \in Int, l \in Int :
          i = b + 1 /\ j = Len(p) /\ k = L + 1 /\ l = Len(p) - b
    <3>1. b + 1 \in Int /\ Len(p) \in Int /\ L + 1 \in Int /\ Len(p) - b \in Int
      BY LenProperties
    <3>. QED
      BY <3>1, Zenon
  <2>4. SubSeq(SubSeq(p, i, j), k, l) = SubSeq(p, i + k - 1, i + l - 1)
    <3>1. 1 <= i /\ j <= Len(p) /\ 1 <= k /\ k <= l + 1 /\ l <= j - i + 1
      BY <2>3
    <3>. QED
      BY <3>1, SliceOfSlice, SMTT(30)
  <2>5. /\ m - Len(h) = k /\ n - Len(h) = l
        /\ i + k - 1 = b + L + 1 /\ i + l - 1 = Len(p)
    BY <1>1, <1>2, <2>1, <2>3
  <2>. QED
    BY <2>1, <2>2, <2>3, <2>4, <2>5, Zenon
<1>. QED
  BY <1>2, <1>3, <1>4

\* LenFrame hands out the frame at the head of the stream: Deliver.
LEMMA LenFrameDelivers ==
  ASSUME RInv, caller = "call", LenFrame
  PROVE  Abs!Deliver
<1> DEFINE T == Slice(BodyPos, Len(packet))
           L == Length
<1>1. /\ Header \in Seq(Byte) /\ Len(Header) = LenWidth
      /\ BodyPos \in Nat /\ BodyPos <= Len(packet) /\ L \in Nat
      /\ T \in Seq(Byte) /\ Len(T) = Len(packet) - BodyPos
      /\ Stream = Header \o T
  BY LenStream DEF LenFrame
<1>2. /\ packet \in Seq(Byte)
      /\ L <= max_frame_len /\ BodyPos + L <= Len(packet)
  BY CallStream DEF LenFrame
<1>3. Abs!HeadLength = L /\ Len(Stream) = LenWidth + Len(T)
  BY <1>1, HeadLengthOf, SMTT(30) DEF Length
<1>4. /\ SubSeq(Stream, LenWidth + 1, LenWidth + L) = Slice(BodyPos, BodyPos + L)
      /\ SubSeq(Stream, LenWidth + L + 1, Len(Stream))
           = Slice(BodyPos + L, Len(packet))
  <2>1. /\ Len(Header \o T) = LenWidth + (Len(packet) - BodyPos)
        /\ SubSeq(Header \o T, LenWidth + 1, LenWidth + L)
             = SubSeq(packet, BodyPos + 1, BodyPos + L)
        /\ SubSeq(Header \o T, LenWidth + L + 1, Len(Header \o T))
             = SubSeq(packet, BodyPos + L + 1, Len(packet))
    BY <1>1, <1>2, HeadFrame, ZenonT(60) DEF Slice
  <2>. QED
    BY <1>1, <2>1 DEF Slice
<1>5. Stream' = Slice(BodyPos + L, Len(packet))
  <2>1. /\ state' = DefaultState /\ caller' = "call"
        /\ packet' = packet /\ packet_pos' = BodyPos + L
    BY DEF LenFrame
  <2>2. Pending' = << >>
    BY <2>1 DEF Pending, DefaultState, LenState
  <2>3. Unread' = Slice(BodyPos + L, Len(packet))
    BY <2>1 DEF Unread, Rest, Slice
  <2>4. Slice(BodyPos + L, Len(packet)) \in Seq(Byte)
    BY <1>1, <1>2 DEF Slice
  <2>. QED
    BY <2>2, <2>3, <2>4 DEF Stream
<1>6. frames' = Append(frames, Slice(BodyPos, BodyPos + L))
      /\ sent' = sent /\ caller' = caller
  BY DEF LenFrame
<1>7. /\ caller # "failed" /\ caller' # "failed"
      /\ Len(Stream) >= LenWidth
      /\ Abs!HeadLength <= max_frame_len
      /\ Len(Stream) >= LenWidth + Abs!HeadLength
      /\ frames' = Append(frames, SubSeq(Stream, LenWidth + 1, LenWidth + Abs!HeadLength))
      /\ Stream' = SubSeq(Stream, LenWidth + Abs!HeadLength + 1, Len(Stream))
      /\ sent' = sent
  <2>1. Len(Stream) >= LenWidth /\ Len(Stream) >= LenWidth + L
    BY <1>1, <1>2, <1>3 DEF LenWidth
  <2>2. caller # "failed" /\ caller' # "failed"
    BY <1>6
  <2>. QED
    BY <1>2, <1>3, <1>4, <1>5, <1>6, <2>1, <2>2, Zenon
<1>. QED
  BY <1>7 DEF Abs!Deliver, Stream, Abs!LenWidth, LenWidth

\* The bytes the state holds, in any state of the invariant.
LEMMA PendingBytes ==
  ASSUME RInv
  PROVE  Pending \in Seq(Byte)
<1>1. state.buf \in Seq(Byte) /\ state.kind \in {"Len", "Frame"}
  BY DEF RInv, IInv, TypeOK
<1>2. CASE state.kind = "Frame"
  BY <1>1, <1>2, FramePrefix, ConcatProperties DEF Pending
<1>3. CASE state.kind = "Len"
  BY <1>1, <1>3 DEF Pending
<1>. QED
  BY <1>1, <1>2, <1>3

\* The stream is the same sequence after a step, and so are the other
\* three abstract variables: the step is a stutter of FrameStream.
LEMMA StutterOf ==
  ASSUME Stream' = Stream, sent' = sent, frames' = frames,
         caller # "failed", caller' # "failed"
  PROVE  UNCHANGED Abs!vars
  BY Zenon DEF Abs!vars, Stream

\* read_frame on an empty packet (Incomplete at once) leaves the stream alone.
LEMMA EmptyPacketStutters ==
  ASSUME RInv, caller = "call", EmptyPacket
  PROVE  UNCHANGED Abs!vars
<1>1. /\ Pending \in Seq(Byte)
      /\ Rest \in Seq(Byte) /\ Len(Rest) = Len(packet) - packet_pos
      /\ packet_pos \in Nat /\ packet_pos <= Len(packet)
      /\ Stream = Pending \o Rest
  BY CallStream
<1>2. Rest = << >>
  <2>1. Len(packet) = 0
    BY DEF EmptyPacket
  <2>. QED
    BY <1>1, <2>1, EmptySeq
<1>3. Pending' = Pending /\ Unread' = << >>
  BY DEF EmptyPacket, Pending, Unread
<1>4. Stream' = Stream
  BY <1>1, <1>2, <1>3, ConcatEmptySeq DEF Stream
<1>. QED
  BY <1>4, StutterOf DEF EmptyPacket

\* An incomplete prefix moves from the packet into the state.
LEMMA LenIncompleteStutters ==
  ASSUME RInv, caller = "call", LenIncomplete
  PROVE  UNCHANGED Abs!vars
<1>1. /\ Rest \in Seq(Byte) /\ Stream = Pending \o Rest
      /\ state.buf \in Seq(Byte)
  BY CallStream DEF RInv, IInv, TypeOK
<1>2. Pending = state.buf
  BY DEF LenIncomplete, Pending
<1>3. Pending' = state.buf \o Rest /\ Unread' = << >>
  BY DEF LenIncomplete, Pending, LenState, Unread
<1>4. Stream' = Stream
  <2>1. state.buf \o Rest \in Seq(Byte)
    BY <1>1, ConcatProperties
  <2>. QED
    BY <1>1, <1>2, <1>3, <2>1, ConcatEmptySeq DEF Stream
<1>. QED
  BY <1>4, StutterOf DEF LenIncomplete

\* A frame begun in this packet moves into the state, its length as the
\* four bytes that announced it.
LEMMA LenPartialStutters ==
  ASSUME RInv, caller = "call", LenPartial
  PROVE  UNCHANGED Abs!vars
<1> DEFINE T == Slice(BodyPos, Len(packet))
<1>1. /\ Header \in Seq(Byte) /\ Len(Header) = LenWidth
      /\ T \in Seq(Byte) /\ Stream = Header \o T
  BY LenStream DEF LenPartial
<1>2. ToBeBytes(Length) = Header
  BY <1>1, PrefixRoundTrip, SMTT(30) DEF Length
<1>3. Pending' = ToBeBytes(Length) \o T /\ Unread' = << >>
  BY DEF LenPartial, Pending, FrameState, Unread
<1>4. Stream' = Stream
  <2>1. Header \o T \in Seq(Byte)
    BY <1>1, ConcatProperties
  <2>. QED
    BY <1>1, <1>2, <1>3, <2>1, ConcatEmptySeq DEF Stream
<1>. QED
  BY <1>4, StutterOf DEF LenPartial

\* More of a frame moves from the packet into the state.
LEMMA FramePartialStutters ==
  ASSUME RInv, caller = "call", FramePartial
  PROVE  UNCHANGED Abs!vars
<1> DEFINE P == ToBeBytes(state.frame_len)
<1>1. /\ Rest \in Seq(Byte) /\ Stream = Pending \o Rest
      /\ state.buf \in Seq(Byte)
  BY CallStream DEF RInv, IInv, TypeOK
<1>2. P \in Seq(Byte)
  BY FramePrefix DEF FramePartial
<1>3. Pending = P \o state.buf
  BY DEF FramePartial, Pending
<1>4. Pending' = P \o (state.buf \o Rest) /\ Unread' = << >>
  BY DEF FramePartial, Pending, FrameState, Unread
<1>5. Stream' = Stream
  <2>1. \A u, v, w \in Seq(Byte) : (u \o v) \o w = u \o (v \o w)
    BY ConcatAssociative
  <2>2. P \o (state.buf \o Rest) \in Seq(Byte)
    BY <1>1, <1>2, ConcatProperties
  <2>. QED
    BY <1>1, <1>2, <1>3, <1>4, <2>1, <2>2, ConcatEmptySeq DEF Stream
<1>. QED
  BY <1>5, StutterOf DEF FramePartial

\* A length above the limit ends the stream with an error: Reject.
LEMMA LenTooLargeRejects ==
  ASSUME RInv, caller = "call", LenTooLarge
  PROVE  Abs!Reject
<1> DEFINE T == Slice(BodyPos, Len(packet))
<1>1. /\ Header \in Seq(Byte) /\ Len(Header) = LenWidth
      /\ T \in Seq(Byte) /\ Stream = Header \o T
  BY LenStream DEF LenTooLarge
<1>2. Abs!HeadLength = Length /\ Len(Stream) = LenWidth + Len(T)
  BY <1>1, HeadLengthOf, SMTT(30) DEF Length
<1>3. Pending' = Header /\ Unread' = T
  BY DEF LenTooLarge, Pending, LenState, Unread, Rest, Slice
<1>4. Stream' = Stream
  BY <1>1, <1>3 DEF Stream
<1>5. /\ caller # "failed" /\ caller' = "failed"
      /\ Len(Stream) >= LenWidth /\ Abs!HeadLength > max_frame_len
      /\ sent' = sent /\ frames' = frames
  <2>1. Len(Stream) >= LenWidth
    BY <1>1, <1>2 DEF LenWidth
  <2>. QED
    BY <1>2, <2>1 DEF LenTooLarge
<1>. QED
  BY <1>4, <1>5, Zenon DEF Abs!Reject, Stream, Abs!LenWidth, LenWidth



\* Four prefix bytes h, the buffered bytes u, then p from position a on.
Joined(h, u, p, a) == h \o (u \o SubSeq(p, a + 1, Len(p)))
\* In a Frame state that the packet completes, the stream is the four
\* bytes that announced the frame, the bytes already buffered, and the rest
\* of the packet: the frame at its head is the buffered bytes and the
\* BytesPending bytes of the packet from packet_pos on, and what follows
\* it is the rest of the packet.
LEMMA FrameTail ==
  ASSUME RInv, caller = "call", FrameComplete
  PROVE  /\ Len(Joined(ToBeBytes(state.frame_len), state.buf, packet, packet_pos))
              = LenWidth + Len(state.buf) + (Len(packet) - packet_pos)
         /\ SubSeq(Joined(ToBeBytes(state.frame_len), state.buf, packet, packet_pos),
                   LenWidth + 1, LenWidth + state.frame_len)
              = state.buf \o SubSeq(packet, packet_pos + 1,
                                    packet_pos + (state.frame_len - Len(state.buf)))
         /\ SubSeq(Joined(ToBeBytes(state.frame_len), state.buf, packet, packet_pos),
                   LenWidth + state.frame_len + 1,
                   Len(Joined(ToBeBytes(state.frame_len), state.buf, packet, packet_pos)))
              = SubSeq(packet, packet_pos + (state.frame_len - Len(state.buf)) + 1,
                       Len(packet))
<1>A. /\ ToBeBytes(state.frame_len) \in Seq(Byte)
      /\ Len(ToBeBytes(state.frame_len)) = LenWidth
      /\ packet \in Seq(Byte) /\ packet_pos \in Nat
      /\ state.buf \in Seq(Byte) /\ state.frame_len \in Nat
      /\ Len(state.buf) < state.frame_len
      /\ packet_pos + (state.frame_len - Len(state.buf)) <= Len(packet)
  <2>1. ToBeBytes(state.frame_len) \in Seq(Byte)
        /\ Len(ToBeBytes(state.frame_len)) = LenWidth
    BY FramePrefix DEF FrameComplete
  <2>2. packet \in Seq(Byte) /\ packet_pos \in Nat
    BY CallStream
  <2>3. state.buf \in Seq(Byte) /\ state.frame_len \in Nat
        /\ Len(state.buf) < state.frame_len
    BY DEF FrameComplete, RInv, IInv, TypeOK, BufferBound
  <2>4. packet_pos + (state.frame_len - Len(state.buf)) <= Len(packet)
    BY DEF FrameComplete, BytesPending
  <2>. QED
    BY <2>1, <2>2, <2>3, <2>4
<1>B. PICK h \in Seq(Byte), u \in Seq(Byte), p \in Seq(Byte), a \in Nat, F \in Nat :
        /\ h = ToBeBytes(state.frame_len) /\ u = state.buf /\ p = packet
        /\ a = packet_pos /\ F = state.frame_len
  BY <1>A, Zenon
<1>0. /\ Len(h) = LenWidth /\ Len(u) <= F /\ a + (F - Len(u)) <= Len(p)
      /\ Len(h) \in Nat /\ Len(u) \in Nat /\ Len(p) \in Nat
  <2>1. Len(h) = LenWidth /\ Len(u) < F /\ a + (F - Len(u)) <= Len(p)
    BY <1>A, <1>B, Zenon
  <2>. QED
    BY <2>1, LenProperties
<1> DEFINE t == SubSeq(p, a + 1, Len(p))
           y == u \o t
           z == h \o y
<1>1. t \in Seq(Byte) /\ Len(t) = Len(p) - a
  BY <1>0, SubSeqProperties
<1>2. y \in Seq(Byte) /\ Len(y) = Len(u) + Len(t)
  BY <1>0, <1>1, ConcatBytes
<1>3. Len(z) = LenWidth + Len(u) + (Len(p) - a)
  <2>1. Len(z) = Len(h) + Len(y)
    BY <1>0, <1>2, ConcatBytes
  <2>. QED
    BY <1>0, <1>1, <1>2, <2>1
<1>4. SubSeq(z, LenWidth + 1, LenWidth + F) = SubSeq(y, 1, F)
  <2>1. PICK m \in Int, n \in Int : m = LenWidth + 1 /\ n = LenWidth + F
    BY <1>0 DEF LenWidth
  <2>2. Len(h) < m /\ n <= Len(h) + Len(y)
    BY <1>0, <1>1, <1>2, <2>1
  <2>3. SubSeq(z, m, n) = SubSeq(y, m - Len(h), n - Len(h))
    BY <1>0, <1>2, <2>2, SliceAfter, ZenonT(60)
  <2>4. m - Len(h) = 1 /\ n - Len(h) = F
    BY <1>0, <2>1
  <2>. QED
    BY <1>0, <2>1, <2>3, <2>4, Zenon
<1>5. SubSeq(y, 1, F) = u \o SubSeq(t, 1, F - Len(u))
  <2>1. PICK n \in Int : n = F
    BY <1>0
  <2>2. Len(u) <= n /\ n <= Len(u) + Len(t)
    BY <1>0, <1>1, <2>1
  <2>3. SubSeq(y, 1, n) = u \o SubSeq(t, 1, n - Len(u))
    BY <1>0, <1>1, <2>2, PrefixThrough, ZenonT(60)
  <2>. QED
    BY <1>0, <2>1, <2>3, Zenon
<1>6. SubSeq(t, 1, F - Len(u)) = SubSeq(p, a + 1, a + (F - Len(u)))
  <2>0. a + 1 \in Int /\ Len(p) \in Int /\ 1 \in Int /\ F - Len(u) \in Int
    BY <1>0
  <2>1. PICK i \in Int, j \in Int, k \in Int, l \in Int :
          i = a + 1 /\ j = Len(p) /\ k = 1 /\ l = F - Len(u)
    BY <1>0, <2>0, Zenon
  <2>2. 1 <= i /\ j <= Len(p) /\ 1 <= k /\ k <= l + 1 /\ l <= j - i + 1
    BY <1>0, <1>1, <2>1
  <2>3. SubSeq(SubSeq(p, i, j), k, l) = SubSeq(p, i + k - 1, i + l - 1)
    BY <1>0, <2>2, SliceOfSlice, SMTT(30)
  <2>4. i + k - 1 = a + 1 /\ i + l - 1 = a + (F - Len(u))
    BY <1>0, <2>1
  <2>. QED
    BY <1>0, <2>1, <2>3, <2>4, Zenon
<1>7. SubSeq(z, LenWidth + F + 1, Len(z)) = SubSeq(y, F + 1, Len(y))
  <2>0. LenWidth + F + 1 \in Int /\ Len(z) \in Int
    BY <1>0, <1>3 DEF LenWidth
  <2>1. PICK m \in Int, n \in Int : m = LenWidth + F + 1 /\ n = Len(z)
    BY <1>0, <2>0, Zenon
  <2>2. Len(h) < m /\ n <= Len(h) + Len(y)
    BY <1>0, <1>1, <1>2, <1>3, <2>1 DEF LenWidth
  <2>3. SubSeq(z, m, n) = SubSeq(y, m - Len(h), n - Len(h))
    BY <1>0, <1>2, <2>2, SliceAfter, ZenonT(60)
  <2>4. m - Len(h) = F + 1 /\ n - Len(h) = Len(y)
    BY <1>0, <1>1, <1>2, <1>3, <2>1, SMTT(30) DEF LenWidth
  <2>. QED
    BY <1>0, <2>1, <2>3, <2>4, Zenon
<1>8. SubSeq(y, F + 1, Len(y)) = SubSeq(t, F + 1 - Len(u), Len(t))
  <2>0. F + 1 \in Int /\ Len(y) \in Int
    BY <1>0, <1>1, <1>2
  <2>1. PICK m \in Int, n \in Int : m = F + 1 /\ n = Len(y)
    BY <1>0, <2>0, Zenon
  <2>2. Len(u) < m /\ n <= Len(u) + Len(t)
    BY <1>0, <1>1, <1>2, <2>1
  <2>3. SubSeq(y, m, n) = SubSeq(t, m - Len(u), n - Len(u))
    BY <1>0, <1>1, <2>2, SliceAfter, ZenonT(60)
  <2>4. m - Len(u) = F + 1 - Len(u) /\ n - Len(u) = Len(t)
    BY <1>0, <1>1, <1>2, <2>1
  <2>. QED
    BY <1>0, <2>1, <2>3, <2>4, Zenon
<1>9. SubSeq(t, F + 1 - Len(u), Len(t)) = SubSeq(p, a + (F - Len(u)) + 1, Len(p))
  <2>1. PICK i \in Int, j \in Int, k \in Int, l \in Int :
          i = a + 1 /\ j = Len(p) /\ k = F + 1 - Len(u) /\ l = Len(p) - a
    <3>1. a + 1 \in Int /\ Len(p) \in Int /\ F + 1 - Len(u) \in Int
          /\ Len(p) - a \in Int
      BY <1>0
    <3>. QED
      BY <1>0, <3>1, Zenon
  <2>2. 1 <= i /\ j <= Len(p) /\ 1 <= k /\ k <= l + 1 /\ l <= j - i + 1
    BY <1>0, <1>1, <2>1
  <2>3. SubSeq(SubSeq(p, i, j), k, l) = SubSeq(p, i + k - 1, i + l - 1)
    BY <1>0, <2>2, SliceOfSlice, SMTT(30)
  <2>4. i + k - 1 = a + (F - Len(u)) + 1 /\ i + l - 1 = Len(p)
    /\ k = F + 1 - Len(u) /\ l = Len(t)
    BY <1>0, <1>1, <2>1
  <2>. QED
    BY <1>0, <2>1, <2>3, <2>4, Zenon
<1>10. /\ Len(Joined(h, u, p, a)) = LenWidth + Len(u) + (Len(p) - a)
       /\ SubSeq(Joined(h, u, p, a), LenWidth + 1, LenWidth + F)
            = u \o SubSeq(p, a + 1, a + (F - Len(u)))
       /\ SubSeq(Joined(h, u, p, a), LenWidth + F + 1, Len(Joined(h, u, p, a)))
            = SubSeq(p, a + (F - Len(u)) + 1, Len(p))
  BY <1>3, <1>4, <1>5, <1>6, <1>7, <1>8, <1>9, Zenon DEF Joined
<1>. QED
  BY <1>B, <1>10, Zenon


\* FrameComplete hands out the frame at the head of the stream: Deliver.
LEMMA FrameCompleteDelivers ==
  ASSUME RInv, caller = "call", FrameComplete
  PROVE  Abs!Deliver
<1> DEFINE Pfx == ToBeBytes(state.frame_len)
           Flen == state.frame_len
           Buf == state.buf
           Pos == packet_pos
           Need == BytesPending
<1>1. /\ packet \in Seq(Byte) /\ Pos \in Nat /\ Pos <= Len(packet)
      /\ Rest \in Seq(Byte) /\ Stream = Pending \o Rest
  BY CallStream
<1>2. Pfx \in Seq(Byte) /\ Len(Pfx) = LenWidth /\ FromBeBytes(Pfx) = Flen
  BY FramePrefix DEF FrameComplete
<1>3. /\ Buf \in Seq(Byte) /\ Flen \in Nat
      /\ Len(Buf) < Flen /\ Flen <= max_frame_len
  BY DEF FrameComplete, RInv, IInv, TypeOK, BufferBound
<1>4. Need = Flen - Len(Buf) /\ Pos + Need <= Len(packet)
  BY DEF FrameComplete, BytesPending
<1>5. Stream = Pfx \o (Buf \o Rest) /\ Buf \o Rest \in Seq(Byte)
  <2>1. \A x, y, z \in Seq(Byte) : (x \o y) \o z = x \o (y \o z)
    BY ConcatAssociative
  <2>2. Pending = Pfx \o Buf
    BY DEF FrameComplete, Pending
  <2>. QED
    BY <1>1, <1>2, <1>3, <2>1, <2>2, ConcatBytes
<1>6. Abs!HeadLength = Flen
  BY <1>2, <1>5, HeadLengthOf, ZenonT(60)
<1>7. /\ Len(Joined(Pfx, Buf, packet, Pos)) = LenWidth + Len(Buf) + (Len(packet) - Pos)
      /\ SubSeq(Joined(Pfx, Buf, packet, Pos), LenWidth + 1, LenWidth + Flen)
           = Buf \o SubSeq(packet, Pos + 1, Pos + (Flen - Len(Buf)))
      /\ SubSeq(Joined(Pfx, Buf, packet, Pos), LenWidth + Flen + 1,
                Len(Joined(Pfx, Buf, packet, Pos)))
           = SubSeq(packet, Pos + (Flen - Len(Buf)) + 1, Len(packet))
  BY FrameTail, ZenonT(60)
<1>8a. Len(Stream) = LenWidth + Len(Buf) + (Len(packet) - Pos)
  BY <1>5, <1>7 DEF Rest, Slice, Joined
<1>8. /\ SubSeq(Stream, LenWidth + 1, LenWidth + Flen) = Buf \o Slice(Pos, Pos + Need)
      /\ SubSeq(Stream, LenWidth + Flen + 1, Len(Stream)) = Slice(Pos + Need, Len(packet))
  BY <1>4, <1>5, <1>7 DEF Rest, Slice, Joined
<1>9. Stream' = Slice(Pos + Need, Len(packet))
  <2>1. Pending' = << >>
    BY DEF FrameComplete, Pending, DefaultState, LenState
  <2>2. Unread' = Slice(Pos + Need, Len(packet))
    BY DEF FrameComplete, Unread, Rest, Slice
  <2>3. Slice(Pos + Need, Len(packet)) \in Seq(Byte)
    <3>1. Pos + Need \in Nat /\ Pos + Need <= Len(packet)
      <4>1. Len(Buf) \in Nat
        BY <1>3, LenProperties
      <4>. QED
        BY <1>1, <1>3, <1>4, <4>1
    <3>. QED
      BY <1>1, <3>1, SMTT(30) DEF Slice
  <2>. QED
    BY <2>1, <2>2, <2>3 DEF Stream
<1>10. /\ frames' = Append(frames, Buf \o Slice(Pos, Pos + Need))
       /\ sent' = sent /\ caller' = caller
  BY DEF FrameComplete
<1>11. /\ caller # "failed" /\ caller' # "failed"
       /\ Len(Stream) >= LenWidth
       /\ Abs!HeadLength <= max_frame_len
       /\ Len(Stream) >= LenWidth + Abs!HeadLength
       /\ frames' = Append(frames, SubSeq(Stream, LenWidth + 1, LenWidth + Abs!HeadLength))
       /\ Stream' = SubSeq(Stream, LenWidth + Abs!HeadLength + 1, Len(Stream))
       /\ sent' = sent
  <2>1. Len(Stream) >= LenWidth /\ Len(Stream) >= LenWidth + Flen
    <3>1. /\ Len(Buf) \in Nat /\ Flen \in Nat
          /\ Pos \in Nat /\ Pos <= Len(packet) /\ Len(packet) \in Nat
      BY <1>1, <1>3, LenProperties
    <3>. QED
      BY <1>4, <1>8a, <3>1, SMTT(60) DEF LenWidth
  <2>2. caller # "failed" /\ caller' # "failed"
    BY <1>10
  <2>. QED
    BY <1>3, <1>6, <1>8a, <1>8, <1>9, <1>10, <2>1, <2>2, Zenon
<1>. QED
  BY <1>11 DEF Abs!Deliver, Stream, Abs!LenWidth, LenWidth


\* Reading a packet appends it to the bytes received and to the stream:
\* Receive, the piece being the packet.
LEMMA ReadPacketReceives ==
  ASSUME RInv, ReadPacket
  PROVE  Abs!Receive
<1>1. PICK p \in Packets : /\ packet' = p /\ sent' = sent \o p
  BY DEF ReadPacket
<1>2. p \in Seq(Byte) /\ Len(p) \in Nat /\ Len(p) >= 1
  <2>1. PICK n \in 1 .. MaxPacket : p \in [1 .. n -> Byte]
    BY DEF Packets
  <2>2. p \in Seq(Byte)
    BY <2>1, SeqDef
  <2>3. DOMAIN p = 1 .. Len(p) /\ Len(p) \in Nat
    BY <2>2, LenProperties
  <2>. QED
    BY <2>1, <2>2, <2>3
<1>3. /\ sent \in Seq(Byte) /\ Pending \in Seq(Byte)
      /\ caller = "read" /\ packet_pos = 0
  BY PendingBytes DEF ReadPacket, RInv, IInv, TypeOK
<1>4. SubSeq(sent', Len(sent) + 1, Len(sent')) = p
  <2>1. Len(sent) \in Nat /\ Len(sent') = Len(sent) + Len(p)
    BY <1>1, <1>2, <1>3, ConcatBytes, LenProperties
  <2>2. PICK m \in Int, n \in Int : m = Len(sent) + 1 /\ n = Len(sent) + Len(p)
    <3>1. Len(sent) + 1 \in Int /\ Len(sent) + Len(p) \in Int
      BY <1>2, <2>1
    <3>. QED
      BY <3>1, Zenon
  <2>3. SubSeq(sent \o p, m, n) = SubSeq(p, m - Len(sent), n - Len(sent))
    <3>1. Len(sent) < m /\ n <= Len(sent) + Len(p)
      BY <2>1, <2>2
    <3>. QED
      BY <1>2, <1>3, <3>1, SliceAfter, SMTT(30)
  <2>4. m - Len(sent) = 1 /\ n - Len(sent) = Len(p)
    BY <2>1, <2>2
  <2>5. SubSeq(p, 1, Len(p)) = p
    BY <1>2, SubSeqFull
  <2>. QED
    BY <1>1, <2>1, <2>2, <2>3, <2>4, <2>5, Zenon
<1>5. Stream = Pending
  BY <1>3, ConcatEmptySeq DEF Stream, Unread
<1>6. Stream' = Pending \o p
  <2>1. Pending' = Pending
    BY DEF ReadPacket, Pending
  <2>2. Unread' = SubSeq(p, 1, Len(p))
    BY <1>1, <1>3 DEF ReadPacket, Unread, Rest, Slice
  <2>3. SubSeq(p, 1, Len(p)) = p
    BY <1>2, SubSeqFull
  <2>. QED
    BY <2>1, <2>2, <2>3 DEF Stream
<1>7. /\ caller # "failed" /\ caller' # "failed" /\ frames' = frames
      /\ Len(sent') > Len(sent)
  <2>1. Len(sent') = Len(sent) + Len(p) /\ Len(sent) \in Nat
    BY <1>1, <1>2, <1>3, ConcatBytes, LenProperties
  <2>. QED
    BY <1>2, <1>3, <2>1 DEF ReadPacket
<1>. QED
  BY <1>1, <1>4, <1>5, <1>6, <1>7, Zenon DEF Abs!Receive, Stream

\* The Receiver starts where the stream starts.
LEMMA InitRefines == Init => Abs!Init
<1> SUFFICES ASSUME Init PROVE Abs!Init
  OBVIOUS
<1>1. Pending = << >> /\ Unread = << >>
  BY DEF Init, Pending, DefaultState, LenState, Unread, Rest, Slice
<1>. QED
  BY <1>1 DEF Init, Abs!Init

\* Every step of the Receiver is a step of FrameStream or leaves the
\* stream, the bytes received, the frames and the error alone.
LEMMA StepRefines == RInv /\ [Next]_vars => [Abs!Next]_Abs!vars
<1> SUFFICES ASSUME RInv, [Next]_vars PROVE [Abs!Next]_Abs!vars
  OBVIOUS
<1>1. CASE ReadPacket
  BY <1>1, ReadPacketReceives DEF Abs!Next
<1>2. CASE caller = "call" /\ LenFrame
  BY <1>2, LenFrameDelivers DEF Abs!Next
<1>3. CASE caller = "call" /\ FrameComplete
  BY <1>3, FrameCompleteDelivers DEF Abs!Next
<1>4. CASE caller = "call" /\ LenTooLarge
  BY <1>4, LenTooLargeRejects DEF Abs!Next
<1>5. CASE caller = "call" /\ EmptyPacket
  BY <1>5, EmptyPacketStutters
<1>6. CASE caller = "call" /\ LenIncomplete
  BY <1>6, LenIncompleteStutters
<1>7. CASE caller = "call" /\ LenPartial
  BY <1>7, LenPartialStutters
<1>8. CASE caller = "call" /\ FramePartial
  BY <1>8, FramePartialStutters
<1>9. CASE UNCHANGED vars
  BY <1>9 DEF vars, Abs!vars, Pending, Unread, Rest, Slice
<1>. QED
  BY <1>1, <1>2, <1>3, <1>4, <1>5, <1>6, <1>7, <1>8, <1>9 DEF Next, read_frame


-----------------------------------------------------------------------------
\* The Receiver implements the safety part of FrameStream under the mapping
\* Abs: every behaviour of read_frame and the client's packet reads is a
\* behaviour of the byte stream in which frames are handed out in stream
\* order with exactly their bytes, only once complete and within
\* max_frame_len, and a length above the limit ends the stream with an error.
THEOREM ImplementsFrameStream == Spec => Abs!Init /\ [][Abs!Next]_Abs!vars
<1>1. Spec => []RInv
  BY InitRInv, NextRInv, PTL DEF Spec
<1>. QED
  BY <1>1, InitRefines, StepRefines, PTL DEF Spec

==============================================================================
