----------------------------- MODULE FrameStream -----------------------------
(***************************************************************************)
(* What the milter frame Receiver promises, stated over the byte stream    *)
(* rather than over packets.  The milter wire format is a sequence of      *)
(* frames, each a 4-byte big-endian length followed by that many bytes.    *)
(* The stream arrives in arbitrary pieces; a frame is handed out as soon   *)
(* as all of it has arrived, in stream order, with exactly its bytes, and  *)
(* a length above the limit ends the stream with an error.                 *)
(*                                                                         *)
(*   rcvd   : every byte received so far                                   *)
(*   in     : received bytes not yet handed out as part of a frame         *)
(*   out    : the frames handed out, in order                              *)
(*   failed : a frame length above the limit has been reported             *)
(***************************************************************************)
EXTENDS Naturals, Sequences

CONSTANTS Byte, max_frame_len

VARIABLES rcvd, in, out, failed

vars == <<rcvd, in, out, failed>>

\* Width of the length prefix: std::mem::size_of::<u32>().
LenWidth == 4

\* u32::from_be_bytes on the first four bytes of b.
FromBeBytes(b) == ((b[1] * 256 + b[2]) * 256 + b[3]) * 256 + b[4]

\* The length announced by the prefix at the head of the unread bytes.
HeadLength == FromBeBytes(SubSeq(in, 1, LenWidth))

Init ==
  /\ rcvd = <<>>
  /\ in = <<>>
  /\ out = <<>>
  /\ failed = FALSE

\* Some non-empty piece of the stream arrives.  The piece is read off the
\* next value of rcvd so that the action can be checked as a property.
Receive ==
  LET piece == SubSeq(rcvd', Len(rcvd) + 1, Len(rcvd'))
  IN /\ ~failed
     /\ Len(rcvd') > Len(rcvd)
     /\ rcvd' = rcvd \o piece
     /\ in' = in \o piece
     /\ UNCHANGED <<out, failed>>

\* The frame at the head of the unread bytes is complete and within the
\* limit: its payload is handed out and its bytes leave the unread part.
Deliver ==
  /\ ~failed
  /\ Len(in) >= LenWidth
  /\ HeadLength <= max_frame_len
  /\ Len(in) >= LenWidth + HeadLength
  /\ out' = Append(out, SubSeq(in, LenWidth + 1, LenWidth + HeadLength))
  /\ in' = SubSeq(in, LenWidth + HeadLength + 1, Len(in))
  /\ UNCHANGED <<rcvd, failed>>

\* The length at the head of the unread bytes is above the limit.
Reject ==
  /\ ~failed
  /\ Len(in) >= LenWidth
  /\ HeadLength > max_frame_len
  /\ failed' = TRUE
  /\ UNCHANGED <<rcvd, in, out>>

Next == Receive \/ Deliver \/ Reject

\* A complete frame, or an oversized length, at the head of the stream is
\* eventually acted on.
Spec == Init /\ [][Next]_vars /\ WF_vars(Deliver) /\ WF_vars(Reject)
==============================================================================
